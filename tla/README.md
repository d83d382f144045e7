# yaos: a verification project in TLA+

yaos is a small x86_64 kernel. The repository keeps 27 snapshots of it, `0001`
to `0027`; everything here is about the last one, `src/0027`. Its own code is in
`kernel/`, `arch/x86_64/`, `libs/libvirtio/` and a few directories of `module/`;
lwIP, LuaJIT, the C library and parts of an HTTP server are carried in the tree
and are other projects' code.

The kernel is built with `-DDEBUG`, so its `ASSERT`s are live and are among the
things the modules check.

## 1. The system

There is one address space and no user mode. Each CPU runs a handful of
*coroutine threads*: `idle`, the main thread `kmain`, and a tasklet thread.
Nothing schedules them. `wake_up_thread` switches to the woken thread at once, on
top of whatever was running (which may be a softirq or an interrupt handler on
another thread's stack), and `suspend_thread` switches back to the parent. The
main thread loops over *polls*, callbacks queued by interrupts and by each other;
drivers, timers, lwIP and Lua all run from there.

| Component | State | Operations | Talks to |
|---|---|---|---|
| Threads (`kernel/kthread.c`) | `current`, each thread's `parent`, `state`, `THREAD_SUSPEND` | `wake_up_thread`, `suspend_thread`, `resume_thread`, `nsleep` | softirqs wake threads; timers; the block driver |
| Softirqs (`kernel/softirq.c`, `tasklet.c`, `smp.c`) | pending mask, `tasklet_count`, locals of `__do_softirq` | `raise_softirq`, `irq_exit`, `__do_softirq`, `run_ksoftirqd` | entered from every interrupt; hands over to the tasklet thread |
| Timers (`kernel/timer.c`, `arch/x86_64/{hpet,apic_timer,time}.c`) | pool of nodes, list sorted by deadline, one-shot local timer | `set_timeout_nsec_cb`, `set_timeout_nsec_poll`, `add_timer`, `run_hrtimer_softirq`, `timer_cb`, `free_poll` | softirq HRTIMER; polls of the main thread |
| Polls (`kernel/kthread.c`) | a list per level in the thread | `thread_add_poll`, `can_main_run`, `do_poll_head` | everything the main thread does |
| Virtqueues (`libs/libvirtio/virtio.c`) | descriptors and their free list, two rings, flag and event index | `virtio_to_queue`, `virtio_from_queue`, `virtio_read_queue`, enabling and disabling the interrupt | the device, through shared memory; drivers' callbacks |
| Network driver (`module/net/virtio/virtio_net.c`, `kernel/net.c`) | buffers in the queue, `recv_list`, `free_list`, `in_rx` | three receive polls, one transmit poll, the interrupt handlers, the two network softirqs and their flags | virtqueues, polls, softirqs, lwIP |
| Block driver (`module/blk/virtio_blk.c`) | one request | `virtio_blk_read`, its completion | virtqueue, threads |
| Tasklet lists (`kernel/tasklet.c`) | two lists with tail pointers | `tasklet_schedule`, `tasklet_hi_schedule_first`, `tasklet_action` | softirqs |
| Physical pages (`kernel/phy_page.c`, `arch/x86_64/{phymem,multiboot}.c`) | list of holes with its nodes, bitmap of large pages, shared by all CPUs | `alloc_phy_page_small`, `free_phy_page_small`, `alloc_phy_page`, `on_mem` at boot | page tables, virtqueues, slub |
| Heap and virtual memory (`kernel/kheap.c`, `vm.c`, `arch/x86_64/pgtable.c`) | lists of holes, page tables | first-fit allocation and freeing, mapping | physical pages |
| Slub (`module/mm/slub.c`) | per-CPU free list per size, four bits per page | `__kmalloc`, `__kmalloc_large`, `__kmfree` | physical pages; timers, drivers, lwIP and Lua allocate |
| Module loader (`kernel/module.c`) | status per module | load passes on the first and the other CPUs | every module |
| HTTP cleanup (`module/httpd/httpd_request.c`) | one poll per CPU | `http_request_cleanup` | polls |
| Lua promises (`module/lua/yaos/promise.c`, `time.c`) | state, value and waiting handlers of a promise; references in the registry | `resolve`, `reject`, `next`, the functions given to scripts | timers, Lua |
| Boot and SMP start (`kernel/main.c`, `arch/x86_64/{pm64,main,apic_timer}.c`, `entry64.S`) | a shared word for the stack, status per CPU, `ap_done_nr` | `bootup_aps`, levels of initcalls, `kernel_init_freeable` | modules, timers, heap |
| Traps, console | registers, tables | run once, or pure output | hardware |

What is hard here:

* *Interrupts everywhere.* Most of this code runs with interrupts on. A handler, a
  softirq, and through `wake_up_thread` even another thread can run between any
  two instructions of the main thread, on shared lists without locks.
* *Threads inside softirqs.* A thread woken from a softirq runs while that softirq
  is unfinished on another stack.
* *One-shot hardware.* The local timer and the virtqueue's interrupt are each
  asked for once; one that is consumed and not asked for again stops the kernel's
  clock or the network.
* *Callbacks inside callbacks.* Promises call their handlers at once, from within the
  walk of a list that the handler may change.
* *Several CPUs* share the page allocator, the index of pages of slub, and the word
  they are started through.
* *A device in the same memory*, which returns requests in any order, and indices
  that wrap.

What makes each component correct:

* threads: every started thread that is not suspended can be returned to; no sleep
  and no disk read loses its wake-up;
* softirqs: one at a time on a CPU, each ends, each raised one is served, and the
  main thread gets the CPU back;
* timers: no node lost or shared, no callback early, every timer called;
* virtqueues: every request comes back once, with its pointer; the free list is
  exact; "nothing new" is never confused with "everything returned"; whatever the
  device returned is read in the end;
* network: buffers are conserved, a received packet reaches inet, the card is
  never left without buffers; a pbuf lives as long as the card may read it and goes
  back to lwIP afterwards;
* physical pages: nobody is given a page that somebody has, none is lost, and the
  nodes of the list survive every order of calls;
* slub: a byte of memory has one owner, none is forgotten, and the index of a page
  tells `free` the truth;
* boot: every CPU starts on its own stack, init memory outlives its users, modules
  are loaded in order, nobody waits for ever;
* promises: no chained promise is forgotten, no callback called twice, a settled
  promise stays settled, and what waits for a timer is settled.

## 2. The modules

One CPU is modelled, except in PhyPage, Slub and Boot: the state of the others is
per CPU, and no operation modelled there touches another CPU's. A step is a stretch
of code inside which nothing can interfere: a section with interrupts off, or, where
interrupts are on, the code between two accesses to state that a handler shares. No
guard keeps an interrupt out where the code does not.

Some of this code has windows in which it goes wrong. A model takes them as the code
does, and a history variable notes when it happened. Where the state has no meaning
any more after that (two users of one node, memory with two owners) the model ends;
elsewhere it goes on. The properties are stated with these events as their only
exceptions, each named: that nothing *else* breaks them is what the runs show. The
runs reach every one of the events.

### Sched: threads, softirqs, the tasklet thread

`frames[t]` is the stack of activations on thread `t`'s stack: a softirq frame
has the locals of `__do_softirq` (what is left of its copy of the mask, what is
left of its restart budget); an irq frame is a handler that is inside
`wake_up_thread`. `pc` is where each thread's own code is. Actions are the
interrupts (`DeviceIrq`, `LapicIrq`, `BlkIrq` with `IrqReturn`), the steps of
`__do_softirq` (`FinishAction`, `SoftirqRestart`, `SoftirqGiveUp`, `SoftirqDone`,
and the two timer callbacks that matter, `SleepCallback` and `TickCallback`), the
tasklet thread's loop (`TaskletdCheck`, `run_ksoftirqd`, `TaskletdSuspend`), and
the main thread's start of it and its two blocking calls (`nsleep`, and
`BlkSubmit`/`BlkSuspend` for `virtio_blk_read`). `irq_exit` is part of every
interrupt. `hung` records that the walk up the parents in the debug check of
`wake_up_thread` does not end (`kmain` and `idle` are each other's parent).

The 2 ms limit of `__do_softirq` is the nondeterminism of `SoftirqGiveUp`, which
is possible at any restart.

### Timer: the timers of one CPU

The links are kept as the code keeps them: one field `pnext` that serves three
lists. `set_timeout_nsec_poll` and `free_poll`, which run in the main thread with
interrupts on, are split at each access to the pool (`SetTimeout`, `PopFree`,
`Fill`, `AddTimer`; `FreeLink`, `FreeHead`); the softirq is
`run_hrtimer_softirq` followed by one `timer_cb` per expired timer. Differences
of times are taken modulo `Word`, as the unsigned arithmetic does.

The tick may arrive inside the windows of those two functions, where the main thread
has read the head of the pool and not stored the new one: `raced` notes a store that
was stale, and the model ends there. `tscdl` is the kind of the local timer, with a
deadline or with a count; `set_next_event` has both, and the count is always 1, as
the `||` of `lapic_next_event` makes it. `stall` notes the two ways in which the local
timer is not armed for the head of the list: an interrupt that came before the deadline
and was used up (`early`), and a batch that had no room for all that expired, after
which an unsigned difference wraps (`overfull`). After both the model goes on, since
the next timer that goes first arms the local timer again.

### VirtQueue: the rings

Descriptors with `next` and the next bit, `data`, the free list by head, tail and
count, both rings, and the three indices of different ranges (`last_used` modulo
the ring, the others modulo `Word`, which stands for 2^16). `virtio_to_queue` is
one step or, when it reads the queue first, three. The device is external: it
fetches in order and returns in any order.

### VirtIntr: when the queue is read

Only counts, and the two ways to ask for an interrupt. `virtio_from_queue` is
split where the interrupt handler can interfere: entry taken, flag cleared
(`virtio_queue_enable_intr`), index published unless the flag is set
(`StoreUsedEvent`). The device decides about an interrupt some time after it
returned entries (`DeviceSignal`), with the event index by the rule of the virtio
specification, else by the flag; `event_idx` is chosen at the start. Interrupts arrive
anywhere. Three history variables note where the driver fails to ask for an interrupt
or to answer one: `cut`, the interrupt between `virtio_queue_enable_intr` and the test
of the flag that follows it, which leaves the index unpublished; `muted`, without the
event index, a read that found nothing and left the flag as the handler set it;
`dropped`, a poll whose request was lost (`PollDropped`), which happens to the transmit
queue only. Each is taken back by the step that repairs it, and `Unasked` is their
disjunction.

### NetRx: receiving packets

The polls of the main thread, with `pnext` and the heads as in the code, and the
three receive polls that pass a fixed number of buffers round: in the queue,
filled, on `recv_list`, being given to inet, on `free_list`, being offered.
`do_poll_head` is two steps: it reads the link of a poll, and then clears it
(`CancelLoop`). An interrupt between the two that adds the poll again puts it in front
of the list, and the clearing cuts off what was there: `vncut` notes it, and whether
`vn_poll` has been added (`late`) and run again since. `starved` notes what can come of
it, a refill that finds `free_list` empty because the buffers wait on `recv_list`. The
queue has more descriptors than `BUF_PACKETS / 2`, so `virtio_to_queue` does not
refuse a buffer. The card interrupts after every packet; that it may not is the
subject of VirtIntr.

### PhyPage and PageSet: physical pages

PhyPage has the list of holes with the nodes and their single link field, the
bitmap behind it, and any number of CPUs. What a CPU does under `spin_page` is one
step; `FreeBegin`, which reads `pfreesmall`, is before the lock, as in the code.
`on_mem` is the computation at boot that splits a region into pieces for the list
and for the bitmap; `init_e820` frees them one after the other. The allocation
that finds no hole goes through `alloc_phy_page`, the free of a large page, and
the second search `AllocAgain`, which stops at the last hole whatever its size.

`doubled` notes that boot has freed a page that was free already (`multiboot.c:296`
frees the part of an unaligned region before the first boundary with the size of the
part behind it); the model goes on. It ends with `damage` when a node is used that is
not the first free one any more (`node`), when more is taken from a hole than it has
(`short`), and when a page is handed out that somebody has (`shared`), which takes
`doubled`.

PageSet is what it promises: a set of free pages and a set of blocks. `FreePages`
is the refinement mapping.

PageSet is also what Slub assumes of the page allocator.

### NetTx: sending packets

`lwip_tx_func` takes a reference to a pbuf and queues it, with interrupts off, by
way of `virtio_net_send_packets` and `virtio_to_queue`; the card sends and returns
packets in any order; a reference is given back in `tx_queue_callback`, from
`virtio_to_queue` itself when it reads the queue first (`Slack`), or from `tx_poll`.
From the card's interrupt to `tx_poll` it takes `run_net_tx` (flag and softirq),
`__do_softirq` and `run_net_tx_softirq`, each an action; `run_net_rx_softirq`, which
clears the wrong flag, is one too. A packet is a pbuf and a number of descriptors.
The rings are abstracted to sequences, since VirtQueue is about them.

NetTx is composed with VirtIntr: `Intr` instantiates it for the transmit queue, with
"poll queued" mapped to "`tx_poll` is on the list, or its softirq is pending and the
flag is set". `run_net_rx_softirq` that clears the flag of a transmit interrupt before
NET_TX has seen it is VirtIntr's `PollDropped`.

### Slub: malloc and free

Per CPU and size a list of free objects; `page_bits`, one index per page, two pages
to a byte; and the local variables of every context, a thread per CPU and the
softirq on top of it where it allocates. Each access to a list or to a byte of
`page_bits` is a step: `kmalloc` looks, `AddPage`, `Chain`, `Push`, `TagRead`,
`TagWrite` and `Reload` are `slub_add_page` and what follows, `Pop` takes the
object; `kmfree` looks, `Link` stores; blocks above 4096 bytes are whole pages that
are marked one after the other. Objects are addresses in bytes, so that overlap and
alignment mean what they mean in the code; the sizes and the table are the code's.

The code guards against nothing, so from most starts memory is corrupted in the end.
`damage` says how and the model stops there: a list changed between a look at it and
the store (`list`); `free` went by a wrong index (`index`), or took pages of a
neighbour (`overfree`); a large allocation without memory (`page0`); an assertion, of
line 308, or of line 333 when a small one finds no memory (`assert`). The properties say that nothing goes wrong before, and not in
any other way.

### Boot: starting all CPUs

CPU 0 writes the stack of the next CPU into the word below 0x7000 (`StartAp`), the
CPU takes it (`entry64mp`), says that it runs (`ap_main`), and CPU 0 goes on
(`ApStarted`). Every CPU runs the levels of initcalls; three of them are known to
the model, because CPUs interact there: loading modules (`init_module_call`, one
step per round), setting up the local timer (`init_apic_timer_second`), and the
meeting at `ap_done_nr` (`ApDone`, `kernel_init_freeable`). A CPU that divides by a
clock not measured yet is at `trap`.

### Promise: the promises of the Lua scripts

A promise has its state, value and waiting handlers; `stack` is the C stack, with
the walks of `finale`, the end of `my_resolve` (`clean`) and the callbacks under
`lua_pcall`. While a callback is on top, the script may do anything: create promises
(`lua_new_promise`, `ExecutorThrows`), chain (`thennext`), settle
(`ScriptSettles`), return a value or a promise (`Return`), or throw
(`error_handle`). Timers fire when the stack is empty (`timeout_cb`). Values are
promises or `Plain`, since nothing else changes what the code does.

As in Slub, `damage` stops the model where the code has no answer: `handle` follows
promises resolved by one another for ever (`hung`), references already given back
are used (`freed`), a Lua error out of `finale` itself (`error`).

A callback that throws does not stop it. `error_handle` rejects the promise the callback
was *called for*, and walks its handlers again. If the callback was the onFulfilled of
its only handler, this reaches the onRejected of that handler, as a reader expects
(`Answered`). In all other cases it calls handlers that were called before, the
onRejected that has just thrown among them, or nobody: `lost` keeps the promises to
which this has happened, and the model goes on. `Astray(p)` says that one of them is
`p`, or was chained to or resolved with on the way to `p`: of such promises the
properties say nothing, of all others they say all.

## 3. The runs

| Run | Checks | Result |
|---|---|---|
| `sched_safety` | `TypeOK`, `SoftirqExclusive`, `ChainComplete`, `SleeperHasTimer` | holds, 208,000 states |
| `sched_return` | `BackToMain`, `SoftirqEnds` | holds, without blocking calls |
| `sched_stuck` | `SoftirqServed` | violated |
| `timer` | `TypeOK`, `OneOwner`, `NeverEarly`, `ArmedForFirst`, `TimerFires` | holds up to a stale store to the pool, and, the last two, unless the timers stall in one of two ways; 272,000 states |
| `virtqueue` | `TypeOK`, `RequestsConserved`, `NoAlias`, `FreeListExact` | holds, 309,000 states |
| `virtintr` | `NothingForgotten`, `UsedIsRead` | holds with and without the event index, but for `Unasked`; 88,000 states |
| `netrx` | `TypeOK`, `BuffersConserved`, `Delivered`, `Refilled` | holds, the last two but for what an interrupt between `kthread.c:372` and 373 causes; 27,000 states |
| `nettx` | `RefsExact`, `Implements` (VirtIntr), `Reclaimed` | holds, `Reclaimed` but for `Unasked`; 511,000 states |
| `phypage` | `TypeOK`, `NodesConserved`, `Sorted`, `Implements` (PageSet) | holds on two CPUs up to the first damage; `Sorted` and `Implements` unless boot freed memory twice; 1,142,000 states |
| `slub` | `Exclusive`, `NothingLeaks`, `IndexRight`, `ListsArePerCpu` | holds on two CPUs, up to the first damage, 1,409,000 states |
| `boot` | `OwnStack`, `InitMemoryKept`, `LoadedInOrder`, `BootEnds` | holds for three CPUs, 36,000 states |
| `promise` | `NobodyForgotten`, `CalledOnce`, `SettledStays`, `ChainsSettle` | holds up to the first damage, but for what a throw that is not answered leads to; 980,000 states |

The violated one is a disagreement between the code and a comment of the
repository; the finding in PROJECT.json quotes both sides: *a softirq may be left
pending for ever.* The tasklet thread gives up a softirq of its own;
`wakeup_taskletd` does nothing since the thread is not suspended; the loop then
suspends without looking at the mask again.

What the exceptions of the properties are about, each reached in its run:

* `timer`: the tick arrives between the two accesses to the pool in
  `set_timeout_nsec_poll` and takes the same node (`timer.c:139`), or inside
  `free_poll`; the count written to a local timer without deadline is always 1, so the
  interrupt is early and consumed (`apic_timer.c:93`, `timer.c:170`); with more expired
  timers than slots the local timer is armed hours ahead (`timer.c:191`).
* `virtintr`, `nettx`: the interrupt between `virtio_queue_enable_intr` and the test of
  the flag leaves the event index unpublished, and the next entry raises no interrupt
  (`virtio.c:527`); without the event index, an interrupt for an entry that was read
  already leaves the interrupt off (`virtio_net.c:196`); the NET_RX softirq clears the
  flag of a transmit interrupt, so that `tx_poll` is not queued (`net.c:95`).
* `netrx`: an interrupt between `kthread.c:372` and 373 adds `rx_poll` in front of
  `vn_poll`, and the store cuts `vn_poll` off, while `recv_list` has packets. They wait
  for another packet; and if there is none because all buffers wait there, the card is
  left without buffers.
* `phypage`: two CPUs take the same free node, which is chosen before the lock
  (`phy_page.c:47`); a page freed for one allocation is taken by another before the
  second search (`phy_page.c:109`); a region of a large page or more that does not
  begin on a boundary is freed twice over (`multiboot.c:296`).
* `promise`: an onRejected that throws is called again by `error_handle`
  (`promise.c:303`).

Other values of the constants of Sched show more, without a run of their own:

* `Blocking = {"blk"}`: `WokenIsNoAncestor`, the assertion of `kthread.c:196`, fails.
  The disk read completes between queueing and suspending while the tasklet thread is
  on top; the wake-up is lost. (Nothing in this build calls `virtio_blk_read`.)
* `Blocking = {"nsleep"}`: `SoftirqEnds` fails. `sleep_callback` switches to the
  sleeper from inside the timer softirq, which stays unfinished until the thread
  blocks again.

Bounds, and why they are enough:

* Sched: four softirqs (the three with a behaviour of their own and one more), a
  restart budget of 3 (start, restart, give up; the code has 10), and at most two
  activations on a stack when the disk interrupts it, which is one more than any
  softirq needs. Interrupts and restarts are not otherwise bounded.
* Timer: two nodes in the pool and one on the heap, so that the pool runs dry and
  the heap too; a batch of `CallNr` 2 slots, so that it overflows; a period of 2 and
  delays of 1 and 3, so that timers tie, precede and follow the tick; timers are set up
  to time `SetBy` 3, and the clock stops at `MaxTime` 6, after nodes have been through
  the pool more than once.
* VirtQueue: four descriptors, requests of one and two, four pointers, seven
  requests from indices half way round, so that the indices wrap and the queue
  gets as full as it can; `Slack` 1 instead of 4 leaves both branches of the read
  before queueing.
* VirtIntr: rings of four, indices modulo eight. Nothing else is bounded.
* NetRx: eight buffers (`BUF_PACKETS` is 64): four in the queue, refill at fewer
  than two.
* PhyPage: two CPUs, interchangeable; large pages of two pages; two memory maps, one
  with a small region and a region of a large page and a rest, so that holes of every
  kind are adjacent, and one that does not begin on a boundary; blocks of one and two
  pages; three nodes, so that the kernel can run out of them.
* NetTx: one pbuf that can be queued several times, packets of two descriptors in a
  queue of five, three references at most, loops of three rounds instead of ten,
  indices modulo ten. A refusal takes packets of different lengths or more references
  and does not happen in this instance; that references are exact then, too, is the
  theorem `ReferencesExact`.
* Slub: two CPUs, one of them with softirqs; three pages, of which two share a byte;
  objects of which two make a page, and blocks of two pages; two blocks in use or on
  the way. Sizes whose objects are not aligned (96, 192) reach the damage `assert`;
  the properties hold there, too (checked for 150 and 8000 bytes).
* Boot: two CPUs to start, two modules that answer anything, three rounds instead of
  ten.
* Promise: four promises, two of them not made by `next`; handlers with onFulfilled
  only, as the scripts in the tree give them, with onRejected only, and with none; one
  throw that is not answered (`MaxLost`), and nine frames on the C stack (`MaxStack`),
  which only an onRejected that throws again and again exceeds. Four are enough for
  a promise that three others wait for, for a chain of three, and for a circle.

What stops the models Slub and Promise, and CPUs at `trap` in Boot, is reachable in
these runs: a list changed by a softirq (`slub.c:403`), a block freed with stale marks
behind it (`slub.c:298`), page 0 (`yaos_page.c:27`); a timer set up before the clock is
known (`apic_timer.c:192`); promises resolved by themselves (`promise.c:379`), a second
`resolve` (`promise.c:176`), a third handler (`promise.c:424`). An index that was lost
(`slub.c:262`) is remembered and excepted. No line of the repository
says otherwise of them, so they are hazards and not findings.

`CHECK_DEADLOCK FALSE` is said where the system may stop: a CPU that spins in
`wake_up_thread`, the bounded clock of Timer, the panic and the damages of PhyPage, the
damages of Slub and Promise (and scripts that do nothing more), and Boot, which ends.

Fairness:

* Sched: what the CPU executes goes on, and instructions retire between
  interrupts, so interrupts cannot starve a thread's own code (hence strong
  fairness for thread steps). No device need interrupt. Runs that are about timers
  add that an armed local timer fires. The main thread owes nothing but the rest
  of a call it has begun.
* Timer: time passes, an armed local timer fires, the softirq runs to its end, the
  main thread keeps looking at its polls; nobody need set a timer.
* VirtIntr: the main thread reads on and runs a queued poll, a pending interrupt
  is taken, the device decides about an interrupt in the end. Nobody need send,
  refill or receive.
* NetRx: the main thread runs and a pending interrupt is taken. No packet need
  come.
* NetTx: a call of the main thread goes on and a queued poll runs however often they
  are interrupted (strong fairness), softirqs go on, the card sends its oldest packet
  some time, a pending interrupt is taken when interrupts are on again. Nobody need
  send or receive.
* Boot: a CPU that was started executes its code, and an initcall returns.
* Promise: C code goes on, callbacks end, timers fire. No script need settle or chain
  anything.
* PhyPage and Slub have no fairness: nothing is claimed to happen.

Every property of a passing run has a mutant in its module, a definition changed
as a plausible mistake would change it, under which TLC finds the property
violated.

## 4. What is proved

`SchedProofs` proves for every set of softirqs, every restart budget and every
nesting bound, and whichever blocking calls the main thread makes:

* `TypeCorrect`: `Spec => []TypeOK`
* `OneSoftirq`: `Spec => []SoftirqExclusive`
* `NoThreadStranded`: `Spec => []ChainComplete`
* `NoLostSleep`: `Spec => []SleeperHasTimer`

The assumptions are those of Sched on its constants: softirqs are a finite set of
numbers that contains the three named ones, the budget and the bound are positive.

The inductive invariant is `Inv`, the four properties with two more conjuncts:

* `ThreadInv`: who can have activations on its stack. `suspend_thread` is reached
  only from a thread's own code, so a suspended thread has none; without this a
  suspended thread could come back into an old softirq.
* `FrameInv`: while the tasklet thread is on the chain of parents, an unfinished
  softirq is on its own stack or on the main thread's above it, never below.
  `SoftirqExclusive` is not inductive without it: `run_ksoftirqd` starts a softirq
  without asking `in_tasklet`, which is right only because the tasklet thread is
  woken after `tasklet_count` went down, and whoever is below it has finished its
  softirq.

The argument is one lemma per action, on top of lemmas about pushing, popping and
replacing activations on a stack (`PushStack` and its neighbours), and about what
`wake_up_thread` and `suspend_thread` do to the chain.

`SlubProofs` proves, for every number of CPUs, with softirqs that allocate on any of
them or on none, all pages and all sizes:

* `TypeCorrect`: `Spec => []TypeOK`
* `OneOwnerOfMemory`: `Spec => []Exclusive`
* `OwnListsUndisturbed`: `Spec => ListsArePerCpu`
* `IndexesTellTheTruth`: `Spec => []IndexRight`
* `NoMemoryForgotten`: `Spec => []NothingLeaks`

The assumptions are those on the constants (there is an odd last page, because two
pages share a byte, and page 0 is not the allocator's) and `KmallocFits`, which says
that the table of sizes and `fls` choose a list that fits; it is a closed statement
about the numbers 1 to 4096 and TLC evaluates it. `Exclusive` is not inductive as it
stands, for two reasons. It speaks of the bytes a caller asked for, while `free` puts
all of the object back: so the invariant is about owners with the room that was set
aside for them (`Owners`, `Apart`). And `free` of a large block trusts marks and a
page allocator that only knows blocks: so the invariant also says that every large
block is one block of PageSet (`HeldFit`, `LocalsFit`) and that those share no page
(`HeapInv`). Each action then hands pieces on: every new owner lies inside an old one
that gives it up (lemma `Carry`); only a large allocation joins pieces (`RunBeside`).
`ListInv` says that a list is what the thread of its CPU last saw; `ListsArePerCpu`
follows step by step.

The other two need `MarkInv` on top of this. Objects (`Smalls`) and large blocks
(`Larges`) are looked at without saying who has them, so that handing one on changes
nothing, and each of them makes a claim: this page should have that index (`Claim`).
`MarksRight` says that page_bits agrees with every claim on a page that is marked, and
`TagsRight` that the marks still to be written agree, too: without it the write that
ends a marking could be wrong. `TagsFit` and `TagsApart` say whose page a context is
marking. A page that is free, or that is being cut into objects, has no claims; this
follows from `Apart` (`NewPages`), and is why a new claim never meets an old mark. The
write of a byte undoes at most the mark of the other page in it, which is then in
`lost`. `PagesFull` says that a page has exactly the objects it was cut into, which
`NothingLeaks` counts: one piece for each address, since pieces are apart
(`PieceCount`).

`VirtIntrProofs` proves `TypeCorrect` and `NothingIsForgotten`:
`Spec => []NothingForgotten`, for every size of the ring and every width of the indices
of at least twice that, with and without the event index, and wherever interrupts
arrive. `NothingForgotten` is about the moment when nobody is on the way; `Inv` adds what holds on the way
there: the device is less than a ring ahead (`RingInv`), the published index is the
next entry's except inside `virtio_from_queue`, or after `cut` (`EventInv`), and, when
nobody is on the way and the driver has failed in none of the three ways, the device
has decided about no unread entry, and its next decision will be an interrupt
(`Asked`). Distances of wrapping indices have lemmas of their own (`AheadValue`,
`IncAhead`, `IncBehind`, `AheadPast`).

`VirtQueueProofs` proves, for every size of the queue that the rings allow, all sizes
of requests, every order in which the device returns them, every index to start from
and every number of requests up to one round of the indices:

* `TypeCorrect`: `Spec => []TypeOK`
* `EveryRequestOnce`: `Spec => []RequestsConserved`
* `IndicesNeverMislead`: `Spec => []NoAlias`
* `DescriptorsSharedExactly`: `Spec => []FreeListExact`

The assumptions are those of VirtQueue on its constants. Two things had to be said
differently to be inductive. The indices wrap, and a slot of a ring is an index modulo
its size: the invariant counts from the start (`Count`), so that what is on a ring is a
stretch of counts (`Stretch`), and `RingInv` orders the four counts. And the lists are
links: `DescInv` says that there are functions `own`, `pos` and `len` that give each
descriptor an owner, the free list or a request, and a place in the owner's list
(`Shared`), that the links lead from each place to the next (`Linked`), and that the
free list has its two ends where the fields say (`Ended`). `Taking` and `Giving` say
how the three functions change when a chain is cut off the front of the free list and
hung to its end. `RoomLeft` joins the two halves: requests and free descriptors
together are no more than `Num`, and one is always free, so the rings never hold a full
round; this is what `NoAlias` and the slots that are overwritten rest on.

What a walk along the links finds is proved for walks of every length. The library's
induction theorems cannot be instantiated here, so `SetInduction` states the principle
for a set: one that contains 0, and with every number the next, contains all. Its proof
is a count: the numbers up to n that are missing would inject into a smaller set. With
it `FollowPath` shows that the recursive function of `Follow` is the path it should be.

`NetTxProofs` proves, for all pbufs, lengths and sizes of the queue:

* `ReferencesExact`: `Spec => []RefsExact`. `RefInv` adds when a call has a packet in
  hand (`CallInv`); the number of places a pbuf has in a queue is followed through
  appending, taking the first, and a card that returns one from the middle.
* `ImplementsVirtIntr`: `Spec => Implements`, step by step: every action of NetTx is
  mapped to one of VirtIntr or to a stutter, wherever interrupts arrive; a flag that
  NET_RX clears too early is mapped to `PollDropped`. It needs `UnreadInv` (the
  indices say how many packets wait) and `SoftInv` (a softirq that ran a round has
  queued `tx_poll`).
* `SentNotForgotten`: VirtIntr's `NothingForgotten` holds of the transmit queue: the
  theorem before, put together with the one of `VirtIntrProofs` under the refinement
  mapping.

`NetRxProofs` proves `TypeCorrect` and `NoBufferLost` (`Spec => []BuffersConserved`)
for every number of buffers. The sum alone is not inductive: `HandlerInv` says that a
local list of a handler is empty outside of it, so that nothing is dropped when the
handler begins anew, and that what is in the queue and what is about to be put there
are at most half of the buffers.

`BootProofs` proves for every number of CPUs, levels and modules:

* `TypeCorrect`: `Spec => []TypeOK`
* `StacksApart`: `Spec => []OwnStack`. `StartInv`: only the CPU that CPU 0 waits for is
  between the start-up message and its answer, and the word names it.
* `InitSectionsKept`: `Spec => []InitMemoryKept`, about the levels before `MAIN_LVL`:
  the table of that level, which `main.c:167` reads after init memory was given back, is
  outside of it. `DoneInv`: `ap_done_nr` is the number
  of CPUs past their levels; that it equals the number of all others only when all
  are past them is a fact about the cardinality of sets.
* `LoadsInOrder`: `Spec => []LoadedInOrder`. `LoadInv`: `percpu_status` agrees with
  what was loaded.

`PromiseProofs` proves, for any number of promises and handlers, and however deep
callbacks are nested, up to the first throw that `error_handle` has no answer to:

* `CallbacksRunOnce`: `Spec => [](lost = <<>> => CalledOnce)`
* `NobodyLost`: `Spec => [](lost = <<>> => NobodyForgotten)`
* `SettledForGood`: `SettledStays` for the steps from states with `lost = <<>>`

What the properties say afterwards, of promises no such throw goes before, is checked by
TLC only.

The assumption is that of Promise on its constants. The properties look at lists only,
and only between two calls of the poll loop; in the middle of a walk a handler is in no
list at all. So `Inv(P, S, H)` follows it everywhere: a chained promise that is not
settled is in one place, the list of a pending promise, the rest of a list that a
`finale` on the stack is walking, or the callback that runs for it (`Once`, `Waits`,
`Found`), except those in `H`, which the C code has in hand between two such places.
Each place says which callbacks have been called (`Ran`), and that it is the right one
(`Led`). `Fresh` is where `error_handle` shows: a handler whose onFulfilled has run may be
reached again, but only for a promise that is rejected, where onRejected is asked for.

`Led` needs to know what becomes of the ends of all chains when one promise is resolved
by another. `Target` is a walk of `NP` steps; `WalkRests` shows by the pigeonhole
principle that a walk among at most `NP` promises has come to rest by then or never
does, and `TargetMoved` what resolving one promise does to all of them: those that led
to it lead where it does now, or, when that is a circle, into the circle. After that
there is a lemma for each C function (`ResolveKeeps`, `RejectKeeps`,
`HandleResolvedKeeps`, `HandleKeeps`, `AnswerKeeps`) and one for each action, which is
put together from them. After a damage the model has no steps and nothing is claimed.

Every inductive invariant was checked with TLC on the instance of the run before it
was proved.

Only model-checked:

* Liveness (`BackToMain`, `SoftirqEnds`, `TimerFires`, `UsedIsRead`, `Delivered`,
  `Refilled`, `Reclaimed`, `BootEnds`, `ChainsSettle`): the prover has no rules for
  fairness.
* Everything about Timer (`TypeOK`, `OneOwner`, `NeverEarly`, `ArmedForFirst`) and
  PhyPage (`TypeOK`, `NodesConserved`, `Sorted`, `Implements`). The lists are walked by
  recursive functions, as those of VirtQueue are; the same method should reach them.
* Promise after a throw that is not answered.

## 5. Not modelled

* Other CPUs, except in PhyPage, Slub and Boot. The other modules' state is per CPU.
* Heap and virtual memory (`kheap.c`, `vm.c`). A block that joins a hole returns with
  the lock taken (`kheap.c:69`, `vm.c:139`), the node of a hole that is used up is lost
  (`vm.c:279-292`), and the record of a range that is unmapped stays: a model would
  stop within a few calls, whatever is asked of it.
* Tasklet lists and the HTTP cleanup: see the plan.
* The header of a packet on the stack of `virtio_net_send_packets`, which the card
  reads after the function has returned: the contents of buffers are not modelled.
* Code that runs from init memory after it was given back (`after_switch_stack`
  itself, and the table of `MAIN_LVL`): Boot has no instruction fetches,
  `InitMemoryKept` is about the initcalls of the levels before.
* A softirq that allocates on a CPU that holds `spin_page`: the lock does not
  disable interrupts, and the softirq would spin for ever.
* Promises: an executor that throws after it has called `resolve` or `next`, which is
  the damage `freed` or changes nothing (see `ExecutorThrows`).
* The reserved areas of the memory map, and `alloc_small_phy_page_safe`.
* Stack switching itself: that `wake_up_thread` and `suspend_thread` save and
  restore registers correctly is assembly below the model.
* `exit_thread`, which no thread of this build reaches, and `resume_thread` other
  than for the tasklet thread.
* Indirect descriptors: `dev->threads`, below which they are used, is never set.
* Contents of packets, requests and messages; clock calibration; console output;
  parsing of firmware tables; page table formats.
* Vendored code.

## 6. Plan

Done, in this order: Sched (the core, with proofs), Timer, VirtQueue, VirtIntr,
NetRx, PhyPage with PageSet, Slub on PageSet, Boot with module loading, Promise, NetTx
on VirtIntr; then the proofs about NetRx, Boot, VirtIntr, NetTx, Slub, VirtQueue and
Promise.

Next:

1. More proofs, below.
2. NetRx composed with VirtIntr as NetTx is, so that `Delivered` starts at the device.
3. Tasklet lists: the two lists with tail pointers, and the softirq that takes them.
4. HttpCleanup: one `clean_poll` per CPU, whose `data` a second request overwrites
   before the poll ran.
5. The holes of `kheap.c` and `vm.c`, once they release their lock on every path.

Refinements worth stating: Timer implements a set of pending timers each called
once after its deadline; VirtQueue implements a set of requests in flight.

Theorems worth proving next: `OneOwner` and `ArmedForFirst` for Timer, with the
placement of nodes that VirtQueueProofs uses for descriptors; then
`NodesConserved` and the refinement for PhyPage; and Promise beyond the first throw that
is not answered.
