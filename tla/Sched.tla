------------------------------- MODULE Sched -------------------------------
(***************************************************************************)
(* One CPU of yaos: the coroutine threads of kernel/kthread.c, interrupts   *)
(* and softirqs (kernel/softirq.c), and the per-CPU tasklet thread that     *)
(* finishes the softirqs __do_softirq gives up on (kernel/tasklet.c, run by *)
(* the loop of kernel/smp.c).  All of this state is per CPU, so one CPU is  *)
(* the whole component.                                                    *)
(*                                                                         *)
(* A thread is not scheduled: wake_up_thread switches to it at once, on top *)
(* of whoever was running (a thread, or a softirq or interrupt handler on   *)
(* that thread's stack), and suspend_thread switches back to the parent.    *)
(* Every code section with interrupts off is one step, so an interrupt may  *)
(* arrive between any two steps.                                           *)
(***************************************************************************)
EXTENDS Integers, Sequences, FiniteSets

CONSTANTS
    Softirqs,     \* the softirq numbers in use; __do_softirq runs them in this order
    HRTIMER,      \* HRTIMER_SOFTIRQ: runs expired timers, sleep_callback among them
    TIMER,        \* TIMER_SOFTIRQ: raised by the millisecond tick, a timer callback
    TASKLET,      \* TASKLET_SOFTIRQ: tasklet_action re-raises it for a disabled tasklet
    MaxRestart,   \* MAX_SOFTIRQ_RESTART
    MaxNest,      \* bound: activations on one stack when the disk interrupts it
    Blocking      \* the blocking calls the main thread makes: {"nsleep", "blk"} or fewer

ASSUME SoftirqAssumption ==
    /\ Softirqs \subseteq Nat
    /\ IsFiniteSet(Softirqs)
    /\ {HRTIMER, TIMER, TASKLET} \subseteq Softirqs

ASSUME RestartAssumption == MaxRestart \in Nat \ {0}

ASSUME NestAssumption == MaxNest \in Nat \ {0}

ASSUME BlockingAssumption == Blocking \subseteq {"nsleep", "blk"}

Threads == {"idle", "kmain", "taskletd"}

VARIABLES
    current,        \* the per-CPU current_thread
    parent,         \* thread_struct.parent
    state,          \* thread_struct.state
    suspended,      \* THREAD_SUSPEND in thread_struct.flag
    pc,             \* where each thread's own code is
    frames,         \* interrupt and softirq activations on each thread's stack
    tasklet_count,  \* the per-CPU tasklet_count, -1 outside softirqs
    pending,        \* the per-CPU softirq pending mask
    lapic,          \* the one-shot local timer is armed
    sleep_timer,    \* the timer nsleep armed has not fired yet
    blk,            \* the request of virtio_blk_read: "none" or "queued"
    hung            \* the CPU spins in wake_up_thread's walk up the parents

vars == <<current, parent, state, suspended, pc, frames, tasklet_count,
          pending, lapic, sleep_timer, blk, hung>>

threadvars == <<current, parent, state, suspended>>
workvars   == <<lapic, sleep_timer, blk>>

-----------------------------------------------------------------------------
(* Activations on a stack.  A softirq frame holds the locals of            *)
(* __do_softirq; an irq frame is a device handler inside wake_up_thread.    *)

SoftirqFrame(todo, left) == [kind |-> "softirq", todo |-> todo, left |-> left]

IrqFrame == [kind |-> "irq", todo |-> {}, left |-> 0]

Frame == [kind : {"softirq", "irq"}, todo : SUBSET Softirqs, left : 0 .. MaxRestart]

Depth == Len(frames[current])

Top == frames[current][Depth]

(* The frame on top of the running stack is of this kind. *)
Running(kind) == Depth > 0 /\ Top.kind = kind

(* The running code is the thread's own, outside any handler. *)
AtThreadLevel(t) == current = t /\ frames[t] = << >>

Push(f)    == [frames EXCEPT ![current] = Append(@, f)]
Pop        == [frames EXCEPT ![current] = SubSeq(@, 1, Len(@) - 1)]
Replace(f) == [frames EXCEPT ![current] = [@ EXCEPT ![Len(@)] = f]]

in_tasklet == tasklet_count >= 0

MinOf(S) == CHOOSE s \in S : \A r \in S : s <= r

-----------------------------------------------------------------------------
(* kernel/kthread.c *)

(* The walk of the debug build's check in wake_up_thread ends only if some *)
(* ancestor of t has no parent.                                            *)
WalkEnds(t) ==
    LET up(u) == IF u = "none" THEN "none" ELSE parent[u]
    IN  up(up(up(t))) = "none"

(* wake_up_thread(p): nothing for the running thread or one that was never *)
(* created; a thread that is not suspended is only searched for among the  *)
(* ancestors of the running one; a suspended one is switched to.           *)
WakeSwitches(p) == p # current /\ state[p] # "INIT" /\ suspended[p]

WakeWalks(p) == p # current /\ state[p] # "INIT" /\ ~suspended[p]

(* Mutant: the woken thread does not learn whom it runs on top of. *)
wake_up_thread_keeps_parent(p) ==
    IF WakeSwitches(p)
    THEN /\ suspended' = [suspended EXCEPT ![p] = FALSE]
         /\ current' = p
         /\ UNCHANGED <<parent, state, hung>>
    ELSE /\ UNCHANGED threadvars
         /\ hung' = (WakeWalks(p) /\ ~WalkEnds(current))


wake_up_thread(p) ==
    IF WakeSwitches(p)
    THEN /\ suspended' = [suspended EXCEPT ![p] = FALSE]
         /\ parent' = [parent EXCEPT ![p] = current]
         /\ current' = p
         /\ UNCHANGED <<state, hung>>
    ELSE /\ UNCHANGED threadvars
         /\ hung' = (WakeWalks(p) /\ ~WalkEnds(current))

(* The thread suspend_thread gives the CPU to: the nearest ancestor that is *)
(* not suspended.                                                          *)
Resumable(t) ==
    IF ~suspended[parent[t]] THEN parent[t] ELSE parent[parent[t]]

suspend_thread ==
    LET p == Resumable(current)
    IN  /\ suspended' = [suspended EXCEPT ![current] = TRUE]
        /\ current' = p
        /\ state' = [state EXCEPT ![p] = "RUN"]
        /\ UNCHANGED parent

(* create_thread_oncpu followed by resume_thread, as smp_create_thread uses *)
(* them: the new thread runs at once, on top of its creator.               *)
resume_new_thread(p) ==
    /\ parent' = [parent EXCEPT ![p] = current]
    /\ state' = [state EXCEPT ![p] = "RUN"]
    /\ current' = p
    /\ UNCHANGED suspended

-----------------------------------------------------------------------------
(* kernel/softirq.c *)

(* Entry of __do_softirq, whose frame on the stack holds the copy of the   *)
(* mask: the mask is reset before interrupts come back on.                 *)
EnterSoftirq(stack) ==
    /\ frames' = stack
    /\ tasklet_count' = tasklet_count + 1
    /\ pending' = {}

(* Mutant: irq_exit does not ask in_tasklet. *)
irq_exit_nested(pend, popped) ==
    IF pend # {}
    THEN EnterSoftirq([popped EXCEPT ![current] =
                           Append(@, SoftirqFrame(pend, MaxRestart))])
    ELSE /\ frames' = popped
         /\ pending' = pend
         /\ UNCHANGED tasklet_count

(* irq_exit at the end of a handler that leaves the mask pend. *)
irq_exit(pend, popped) ==
    IF ~in_tasklet /\ pend # {}
    THEN EnterSoftirq([popped EXCEPT ![current] =
                           Append(@, SoftirqFrame(pend, MaxRestart))])
    ELSE /\ frames' = popped
         /\ pending' = pend
         /\ UNCHANGED tasklet_count

(* A device's interrupt, whose handler raises softirq s: the network card. *)
DeviceIrq(s) ==
    /\ ~hung
    /\ irq_exit(pending \cup {s}, frames)
    /\ UNCHANGED <<threadvars, pc, workvars, hung>>

(* The one-shot local timer fires: local_timer_irq_handler raises HRTIMER. *)
LapicIrq ==
    /\ ~hung
    /\ lapic
    /\ lapic' = FALSE
    /\ irq_exit(pending \cup {HRTIMER}, frames)
    /\ UNCHANGED <<threadvars, pc, sleep_timer, blk, hung>>

(* The disk's completion interrupt: its handler calls blk_queue_callback,  *)
(* which wakes the thread that issued the request.  If that switches, the  *)
(* handler stays on the interrupted stack, before its irq_exit.  It has    *)
(* interrupts on there, so nothing but MaxNest bounds the nesting.         *)
BlkIrq ==
    /\ ~hung
    /\ Depth < MaxNest
    /\ blk = "queued"
    /\ blk' = "none"
    /\ wake_up_thread("kmain")
    /\ IF WakeSwitches("kmain")
       THEN /\ frames' = Push(IrqFrame)
            /\ UNCHANGED <<tasklet_count, pending>>
       ELSE irq_exit(pending, frames)
    /\ UNCHANGED <<pc, lapic, sleep_timer>>

(* The handler continues once the thread it woke has suspended again. *)
IrqReturn ==
    /\ ~hung
    /\ Running("irq")
    /\ irq_exit(pending, Pop)
    /\ UNCHANGED <<threadvars, pc, workvars, hung>>

(* The softirq whose action __do_softirq runs next: the lowest bit left. *)
NextAction == MinOf(Top.todo)

InAction == Running("softirq") /\ Top.todo # {}

(* run_hrtimer_softirq finds the sleep timer expired: sleep_callback wakes *)
(* the sleeper from inside the softirq.                                    *)
SleepCallback ==
    /\ ~hung
    /\ InAction /\ NextAction = HRTIMER
    /\ sleep_timer
    /\ sleep_timer' = FALSE
    /\ wake_up_thread("kmain")
    /\ UNCHANGED <<pc, frames, tasklet_count, pending, lapic, blk>>

(* run_hrtimer_softirq finds the tick expired: msec_callback sets the next *)
(* one, which arms the local timer, and raises TIMER.                      *)
TickCallback ==
    /\ ~hung
    /\ InAction /\ NextAction = HRTIMER
    /\ pending' = pending \cup {TIMER}
    /\ lapic' = TRUE
    /\ UNCHANGED <<threadvars, pc, frames, tasklet_count, sleep_timer, blk, hung>>

(* tasklet_action queues a disabled tasklet again and raises its softirq. *)
tasklet_action_again == NextAction = TASKLET /\ pending' = pending \cup {TASKLET}

(* run_hrtimer_softirq leaves the local timer armed for the timers that    *)
(* remain, the tick at least.                                              *)
TimerLeftArmed == lapic \/ NextAction = HRTIMER

(* Mutant: the bit of a finished action is not shifted out of the copy. *)
FinishAction_stay ==
    /\ ~hung
    /\ InAction
    /\ UNCHANGED pending \/ tasklet_action_again
    /\ lapic' = TimerLeftArmed
    /\ UNCHANGED <<threadvars, pc, frames, tasklet_count, sleep_timer, blk, hung>>

(* The action returns to the loop of __do_softirq. *)
FinishAction ==
    /\ ~hung
    /\ InAction
    /\ frames' = Replace([Top EXCEPT !.todo = @ \ {NextAction}])
    /\ UNCHANGED pending \/ tasklet_action_again
    /\ lapic' = TimerLeftArmed
    /\ UNCHANGED <<threadvars, pc, tasklet_count, sleep_timer, blk, hung>>

(* Mutant: the restart budget is counted down but never asked. *)
SoftirqRestart_unbounded ==
    /\ ~hung
    /\ Running("softirq")
    /\ Top.todo = {} /\ pending # {}
    /\ frames' = Replace(SoftirqFrame(pending, Top.left - 1))
    /\ pending' = {}
    /\ UNCHANGED <<threadvars, pc, tasklet_count, workvars, hung>>

(* Mutant: the restart budget is not counted down. *)
SoftirqRestart_free ==
    /\ ~hung
    /\ Running("softirq")
    /\ Top.todo = {} /\ pending # {}
    /\ frames' = Replace(SoftirqFrame(pending, Top.left))
    /\ pending' = {}
    /\ UNCHANGED <<threadvars, pc, tasklet_count, workvars, hung>>

(* The copy is used up: restart on what was raised meanwhile, at most      *)
(* MaxRestart times and for 2 ms, else leave it to the tasklet thread.     *)
SoftirqRestart ==
    /\ ~hung
    /\ Running("softirq")
    /\ Top.todo = {} /\ pending # {}
    /\ Top.left > 1
    /\ frames' = Replace(SoftirqFrame(pending, Top.left - 1))
    /\ pending' = {}
    /\ UNCHANGED <<threadvars, pc, tasklet_count, workvars, hung>>

wakeup_taskletd ==
    IF suspended["taskletd"] THEN wake_up_thread("taskletd")
                             ELSE UNCHANGED <<threadvars, hung>>

SoftirqGiveUp ==
    /\ ~hung
    /\ Running("softirq")
    /\ Top.todo = {} /\ pending # {}
    /\ frames' = Pop
    /\ tasklet_count' = tasklet_count - 1
    /\ wakeup_taskletd
    /\ UNCHANGED <<pc, pending, workvars>>

SoftirqDone ==
    /\ ~hung
    /\ Running("softirq")
    /\ Top.todo = {} /\ pending = {}
    /\ frames' = Pop
    /\ tasklet_count' = tasklet_count - 1
    /\ UNCHANGED <<threadvars, pc, pending, workvars, hung>>

-----------------------------------------------------------------------------
(* The tasklet thread: smp_thread_main around run_ksoftirqd *)

TaskletdCheck ==
    /\ ~hung
    /\ AtThreadLevel("taskletd")
    /\ pc["taskletd"] = "check"
    /\ pc' = [pc EXCEPT !["taskletd"] = IF pending # {} THEN "fn" ELSE "suspend"]
    /\ UNCHANGED <<threadvars, frames, tasklet_count, pending, workvars, hung>>

run_ksoftirqd ==
    /\ ~hung
    /\ AtThreadLevel("taskletd")
    /\ pc["taskletd"] = "fn"
    /\ pc' = [pc EXCEPT !["taskletd"] = "suspend"]
    /\ IF pending # {}
       THEN EnterSoftirq(Push(SoftirqFrame(pending, MaxRestart)))
       ELSE UNCHANGED <<frames, tasklet_count, pending>>
    /\ UNCHANGED <<threadvars, workvars, hung>>

TaskletdSuspend ==
    /\ ~hung
    /\ AtThreadLevel("taskletd")
    /\ pc["taskletd"] = "suspend"
    /\ pc' = [pc EXCEPT !["taskletd"] = "check"]
    /\ suspend_thread
    /\ UNCHANGED <<frames, tasklet_count, pending, workvars, hung>>

-----------------------------------------------------------------------------
(* The main thread *)

(* The late initcalls: init_percpu_thread starts the tasklet thread, which *)
(* runs up to the first suspend_thread of smp_thread_main, and             *)
(* init_irq_call sets the first tick.                                      *)
StartTaskletd ==
    /\ ~hung
    /\ AtThreadLevel("kmain")
    /\ pc["kmain"] = "boot"
    /\ pc' = [pc EXCEPT !["kmain"] = "loop", !["taskletd"] = "suspend"]
    /\ resume_new_thread("taskletd")
    /\ lapic' = TRUE
    /\ UNCHANGED <<frames, tasklet_count, pending, sleep_timer, blk, hung>>

(* Mutant: interrupts are on between arming the timer and suspending, and  *)
(* the timer may fire in between, when there is nobody to wake yet.        *)
nsleep_open ==
    /\ ~hung
    /\ "nsleep" \in Blocking
    /\ AtThreadLevel("kmain")
    /\ pc["kmain"] = "loop"
    /\ pc' = [pc EXCEPT !["kmain"] = "nsleep"]
    /\ sleep_timer' \in BOOLEAN
    /\ suspend_thread
    /\ UNCHANGED <<frames, tasklet_count, pending, lapic, blk, hung>>

(* nsleep arms the timer and suspends with interrupts off throughout. *)
nsleep ==
    /\ ~hung
    /\ "nsleep" \in Blocking
    /\ AtThreadLevel("kmain")
    /\ pc["kmain"] = "loop"
    /\ pc' = [pc EXCEPT !["kmain"] = "nsleep"]
    /\ sleep_timer' = TRUE
    /\ suspend_thread
    /\ UNCHANGED <<frames, tasklet_count, pending, lapic, blk, hung>>

(* virtio_blk_read queues the request and suspends, interrupts on between. *)
BlkSubmit ==
    /\ ~hung
    /\ "blk" \in Blocking
    /\ AtThreadLevel("kmain")
    /\ pc["kmain"] = "loop"
    /\ pc' = [pc EXCEPT !["kmain"] = "submitted"]
    /\ blk' = "queued"
    /\ UNCHANGED <<threadvars, frames, tasklet_count, pending, lapic, sleep_timer, hung>>

BlkSuspend ==
    /\ ~hung
    /\ AtThreadLevel("kmain")
    /\ pc["kmain"] = "submitted"
    /\ pc' = [pc EXCEPT !["kmain"] = "blkread"]
    /\ suspend_thread
    /\ UNCHANGED <<frames, tasklet_count, pending, workvars, hung>>

(* suspend_thread returns in the main thread, which goes on with its loop. *)
BlockingReturn ==
    /\ ~hung
    /\ AtThreadLevel("kmain")
    /\ pc["kmain"] \in {"nsleep", "blkread"}
    /\ pc' = [pc EXCEPT !["kmain"] = "loop"]
    /\ UNCHANGED <<threadvars, frames, tasklet_count, pending, workvars, hung>>

-----------------------------------------------------------------------------
(* After init_thread_call: the main thread runs; idle was resumed once and *)
(* yielded back, which leaves each the parent of the other.                *)
Init ==
    /\ current = "kmain"
    /\ parent = [t \in Threads |-> CASE t = "kmain" -> "idle"
                                     [] t = "idle"  -> "kmain"
                                     [] OTHER       -> "none"]
    /\ state = [t \in Threads |-> IF t = "taskletd" THEN "INIT" ELSE "RUN"]
    /\ suspended = [t \in Threads |-> FALSE]
    /\ pc = [t \in Threads |-> IF t = "kmain" THEN "boot" ELSE "check"]
    /\ frames = [t \in Threads |-> << >>]
    /\ tasklet_count = -1
    /\ pending = {}
    /\ lapic = FALSE
    /\ sleep_timer = FALSE
    /\ blk = "none"
    /\ hung = FALSE

SoftirqStep ==
    \/ SleepCallback \/ TickCallback \/ FinishAction
    \/ SoftirqRestart \/ SoftirqGiveUp \/ SoftirqDone

TaskletdStep == TaskletdCheck \/ run_ksoftirqd \/ TaskletdSuspend

KmainStep == StartTaskletd \/ nsleep \/ BlkSubmit \/ BlkSuspend \/ BlockingReturn

Next ==
    \/ \E s \in Softirqs \ {HRTIMER, TIMER} : DeviceIrq(s)
    \/ LapicIrq
    \/ BlkIrq
    \/ IrqReturn
    \/ SoftirqStep
    \/ TaskletdStep
    \/ KmainStep

Spec == Init /\ [][Next]_vars

(* What the CPU executes goes on: a handler or thread whose next step is   *)
(* possible takes it, and since instructions retire between interrupts,    *)
(* interrupts cannot starve a thread's own code.  The main thread's loop   *)
(* owes nothing but the rest of a blocking call it has begun.              *)
CpuFairness ==
    /\ WF_vars(FinishAction) /\ WF_vars(SoftirqGiveUp) /\ WF_vars(SoftirqDone)
    /\ WF_vars(IrqReturn)
    /\ SF_vars(TaskletdStep)
    /\ SF_vars(StartTaskletd) /\ SF_vars(BlkSuspend) /\ SF_vars(BlockingReturn)

(* An armed local timer fires, and a timer that was set is found expired   *)
(* in the end.                                                             *)
TimerFairness == WF_vars(LapicIrq) /\ SF_vars(SleepCallback)

(* The code alone, whatever the hardware does. *)
CpuSpec == Spec /\ CpuFairness

FairSpec == CpuSpec /\ TimerFairness

-----------------------------------------------------------------------------
(* Properties *)

TypeOK ==
    /\ current \in Threads
    /\ parent \in [Threads -> Threads \cup {"none"}]
    /\ state \in [Threads -> {"INIT", "RUN"}]
    /\ suspended \in [Threads -> BOOLEAN]
    /\ pc \in [Threads -> {"boot", "loop", "nsleep", "submitted", "blkread",
                            "check", "fn", "suspend"}]
    /\ frames \in [Threads -> Seq(Frame)]
    /\ tasklet_count \in Int
    /\ pending \in SUBSET Softirqs
    /\ lapic \in BOOLEAN
    /\ sleep_timer \in BOOLEAN
    /\ blk \in {"none", "queued"}
    /\ hung \in BOOLEAN

IsSoftirqFrame(t, i) == i \in DOMAIN frames[t] /\ frames[t][i].kind = "softirq"

(* Softirqs do not nest on a CPU: however interrupts, the tasklet thread   *)
(* and woken threads interleave, at most one __do_softirq is unfinished on *)
(* all stacks together, and tasklet_count says whether there is one.       *)
SoftirqExclusive ==
    /\ \A t, u \in Threads : \A i \in DOMAIN frames[t], j \in DOMAIN frames[u] :
           IsSoftirqFrame(t, i) /\ IsSoftirqFrame(u, j) => t = u /\ i = j
    /\ tasklet_count =
           IF \E t \in Threads : \E i \in DOMAIN frames[t] : IsSoftirqFrame(t, i)
           THEN 0 ELSE -1

(* t is the running thread or is returned to, parent by parent, when the   *)
(* threads above it suspend; idle is where that ends.                      *)
OnChain(t) ==
    \/ t = current
    \/ current # "idle" /\ t = parent[current]
    \/ /\ current # "idle" /\ parent[current] # "idle"
       /\ t = parent[parent[current]]

(* No thread is stranded: a thread that has been started and is not        *)
(* suspended is reached by suspends from the running one, and nothing on   *)
(* that path is suspended or was never started, so suspend_thread's search *)
(* always succeeds with the parent itself.                                 *)
ChainComplete ==
    /\ OnChain("idle")
    /\ \A t \in Threads : OnChain(t) <=> (state[t] = "RUN" /\ ~suspended[t])

(* nsleep loses no wake-up: while the main thread is suspended in it, the  *)
(* timer that wakes it has still to fire.                                  *)
SleeperHasTimer ==
    suspended["kmain"] /\ pc["kmain"] = "nsleep" => sleep_timer

(* Softirq work always ends: whatever interrupts arrive and raise, and     *)
(* however the work moves to the tasklet thread, the CPU gets back to the  *)
(* main thread's own code again and again.                                 *)
BackToMain == []<>AtThreadLevel("kmain")

InService(s) ==
    \E t \in Threads : \E i \in DOMAIN frames[t] : s \in frames[t][i].todo

(* A raised softirq is taken up by some __do_softirq: what softirq.h says   *)
(* of raise_softirq_irqoff.                                                *)
SoftirqServed == \A s \in Softirqs : (s \in pending) ~> InService(s)

(* A softirq that was taken up is done in the end: no __do_softirq stays    *)
(* unfinished on some stack, which would keep every later one from running. *)
SoftirqEnds == \A s \in Softirqs : InService(s) ~> ~InService(s)

Ancestor(p, t) ==
    \/ p = parent[t]
    \/ parent[t] # "none" /\ p = parent[parent[t]]

(* The debug check of wake_up_thread: a thread that is woken while it is   *)
(* not suspended is not an ancestor of the running thread.                 *)
WokenIsNoAncestor ==
    [][BlkIrq /\ WakeWalks("kmain") => ~Ancestor("kmain", current)]_vars
=============================================================================
