------------------------------- MODULE Timer -------------------------------
(***************************************************************************)
(* The per-CPU nanosecond timers of kernel/timer.c: a pool of nodes, the    *)
(* list of timers sorted by deadline, the one-shot local timer that is      *)
(* armed for its head, the softirq that takes expired timers off the list,  *)
(* and the main thread, which sets timers and runs the expired ones that    *)
(* are polls.  One field pnext links a node into whichever of the three     *)
(* lists (pool, timers, polls) it is on.                                   *)
(*                                                                         *)
(* A step is what runs between two points where the main thread can be      *)
(* interrupted; a softirq runs to its end before the main thread goes on.   *)
(* The tick takes and gives back nodes of the pool in the softirq, and the  *)
(* main thread does so with interrupts on; where its store is stale the     *)
(* pool is corrupted, and the model stops there.                           *)
(***************************************************************************)
EXTENDS Integers, Sequences, FiniteSets

CONSTANTS
    Buf,           \* the nodes of timerbuf, numbered from 1
    Heap,          \* the nodes yaos_malloc can still return
    Delays,        \* the delays the main thread asks for
    Period,        \* the delay of the tick, msec_callback
    CallNr,        \* the slots of paramarr: 20 in run_hrtimer_softirq
    Word,          \* 2^64: the range of unsigned arithmetic
    SetBy,         \* bound: no timer is set later, or still being set
    MaxTime        \* bound: the clock stops there

ASSUME NodeAssumption ==
    /\ Buf \subseteq Nat \ {0} /\ Heap \subseteq Nat \ {0}
    /\ IsFiniteSet(Buf) /\ IsFiniteSet(Heap)
    /\ Buf \cap Heap = {}

ASSUME TimeAssumption ==
    /\ Delays \subseteq Nat /\ Period \in Nat \ {0} /\ MaxTime \in Nat /\ SetBy \in 0 .. MaxTime
    /\ CallNr \in Nat \ {0}
    /\ Word \in Nat /\ \A d \in Delays \cup {Period, MaxTime} : d < Word

Nodes == Buf \cup Heap
NULL  == 0       \* the end of a list
NONE  == -1      \* the local timer is not armed

VARIABLES
    now,       \* hrt_uptime
    pnext,     \* timeout_callback.pnext
    deadline,  \* timeout_callback.deadline
    kind,      \* its callback: "tick", or "poll" for a timer of the main thread
    count,     \* timeout_callback.count
    pfree,     \* head of the pool
    ptimer,    \* head of the timers
    polls,     \* head of the main thread's polls, level POLL_LVL_TIMER
    heap,      \* what yaos_malloc has left
    armed,     \* the time the local timer will fire, or NONE
    pending,   \* HRTIMER_SOFTIRQ is pending
    batch,     \* paramarr: the expired timers run_hrtimer_softirq still has to call
    mpc,       \* where the main thread is
    mret,      \* where it goes on after set_timeout_nsec_poll
    mp,        \* its p in set_timeout_nsec_poll
    mnsec,     \* its nsec there
    walk,      \* do_poll_head: the rest of the polls it took
    cur,       \* the poll whose handler runs
    tscdl,     \* the CPU has the TSC deadline timer
    raced,     \* history: the main thread stored a stale head of the pool
    stall      \* history: why the local timer is not armed for the head:
               \* "early", "overfull" or "no"

vars == <<now, pnext, deadline, kind, count, pfree, ptimer, polls, heap, armed,
          pending, batch, mpc, mret, mp, mnsec, walk, cur, tscdl, raced, stall>>

listvars == <<pnext, deadline, kind, count, pfree, ptimer, heap, armed, stall>>
mainvars == <<mpc, mret, mp, mnsec, walk, cur, raced, tscdl>>

-----------------------------------------------------------------------------
(* Mutant: the time is the delay before now. *)
set_next_event_back(nsec) == IF tscdl THEN now - nsec - 1 ELSE now

(* levt->set_next_event: lapic_next_deadline counts nsec from now on;       *)
(* lapic_next_event writes the truth value of its argument, the count 1,    *)
(* which is over at once.                                                  *)
set_next_event(nsec) == IF tscdl THEN now + nsec ELSE now

(* The node after which a timer of deadline dl[p] goes: from the head on,   *)
(* nodes are passed while their successor's deadline is less.              *)
InsertAfter(p, dl) ==
    LET ptr[k \in 0 .. Cardinality(Nodes)] ==
            IF k = 0 THEN ptimer
            ELSE LET q == ptr[k - 1]
                 IN  IF pnext[q] # NULL /\ dl[pnext[q]] < dl[p] THEN pnext[q] ELSE q
    IN  ptr[Cardinality(Nodes)]

GoesFirst(p, dl) == ptimer = NULL \/ dl[p] < dl[ptimer]

(* The links once p is on the list of timers. *)
Linked(p, dl) ==
    IF GoesFirst(p, dl)
    THEN [pnext EXCEPT ![p] = ptimer]
    ELSE LET ptr == InsertAfter(p, dl)
         IN  [pnext EXCEPT ![p] = pnext[ptr], ![ptr] = p]

(* add_timer(nsec, p) with the deadlines dl; Linked are its links.  The      *)
(* local timer is armed only for a timer that goes first.                   *)
add_timer(nsec, p, dl) ==
    /\ deadline' = dl
    /\ IF GoesFirst(p, dl)
       THEN ptimer' = p /\ armed' = set_next_event(nsec) /\ stall' = "no"
       ELSE UNCHANGED <<ptimer, armed, stall>>

-----------------------------------------------------------------------------
(* The softirq *)

(* The main thread runs: no softirq has interrupted it. *)
SoftirqIdle == ~raced /\ ~pending /\ batch = << >>

LapicIrq ==
    /\ ~raced
    /\ armed # NONE /\ now >= armed
    /\ armed' = NONE
    /\ pending' = TRUE
    /\ UNCHANGED <<now, pnext, deadline, kind, count, pfree, ptimer, polls, heap,
                   batch, stall, mainvars>>

Expired(p) == now >= deadline[p]

(* Mutant: the test that asks whether the next node expired asks the node   *)
(* itself instead.                                                         *)
Collected_one_late ==
    LET ptr[k \in 1 .. CallNr] == IF k = 1 THEN ptimer ELSE pnext[ptr[k - 1]]
        Taken(k) == \A i \in 1 .. k - 1 : pnext[ptr[i]] # NULL /\ Expired(ptr[i])
        last == CHOOSE k \in 1 .. CallNr :
                    Taken(k) /\ (k < CallNr => ~Taken(k + 1))
    IN  [k \in 1 .. last |-> ptr[k]]

(* The first CallNr timers at most, in list order, as far as they expired.  *)
Collected ==
    LET ptr[k \in 1 .. CallNr] == IF k = 1 THEN ptimer ELSE pnext[ptr[k - 1]]
        Taken(k) == \A i \in 1 .. k - 1 : pnext[ptr[i]] # NULL /\ Expired(pnext[ptr[i]])
        last == CHOOSE k \in 1 .. CallNr :
                    Taken(k) /\ (k < CallNr => ~Taken(k + 1))
    IN  [k \in 1 .. last |-> ptr[k]]

(* Mutant: the local timer is not armed for the timers that remain. *)
run_hrtimer_softirq_unarmed ==
    /\ ~raced /\ pending /\ batch = << >>
    /\ pending' = FALSE
    /\ IF ptimer = NULL \/ ~Expired(ptimer)
       THEN /\ stall' = IF ptimer # NULL /\ armed = NONE THEN "early" ELSE stall
            /\ UNCHANGED <<batch, ptimer>>
       ELSE /\ batch' = Collected
            /\ ptimer' = pnext[Collected[Len(Collected)]]
            /\ stall' = "no"
    /\ UNCHANGED <<now, pnext, deadline, kind, count, pfree, polls, heap, armed, mainvars>>

(* run_hrtimer_softirq up to its loop over paramarr: nothing if the head    *)
(* has not expired; else the expired timers leave the list and the local    *)
(* timer is armed for the new head, by an unsigned difference.  stall notes *)
(* an interrupt that was used up before the head's deadline, and a batch    *)
(* that had no room for all that expired, with a timer that counts.         *)
run_hrtimer_softirq ==
    /\ ~raced /\ pending /\ batch = << >>
    /\ pending' = FALSE
    /\ IF ptimer = NULL \/ ~Expired(ptimer)
       THEN /\ stall' = IF ptimer # NULL /\ armed = NONE THEN "early" ELSE stall
            /\ UNCHANGED <<batch, ptimer, armed>>
       ELSE LET rest == pnext[Collected[Len(Collected)]]
            IN  /\ batch' = Collected
                /\ ptimer' = rest
                /\ armed' = IF rest = NULL THEN armed
                            ELSE set_next_event((deadline[rest] - now) % Word)
                /\ stall' = IF rest # NULL /\ Expired(rest) /\ tscdl THEN "overfull" ELSE "no"
    /\ UNCHANGED <<now, pnext, deadline, kind, count, pfree, polls, heap, mainvars>>

(* The node set_timeout_nsec_cb takes: of the pool, else of the heap, else  *)
(* none.                                                                   *)
CbNode == IF pfree # NULL THEN pfree
          ELSE IF heap # {} THEN CHOOSE h \in heap : TRUE ELSE NULL

(* set_timeout_nsec_cb of the tick, called while the node p is handled: the *)
(* node q goes on the list of timers, and left is what follows p once       *)
(* free_poll has put it in front of the pool.                              *)
set_timeout_nsec_cb(p, q, left) ==
    LET dl == [deadline EXCEPT ![q] = now + Period]
    IN  /\ heap' = heap \ {q}
        /\ pnext' = [Linked(q, dl) EXCEPT ![p] = left]
        /\ count' = [count EXCEPT ![p] = @ - 1, ![q] = 1]
        /\ kind' = [kind EXCEPT ![q] = "tick"]
        /\ add_timer(Period, q, dl)

(* timer_cb for the tick: msec_callback sets the next tick, without a node  *)
(* in vain, and free_poll puts p in front of what is left of the pool.      *)
TickCb(p) ==
    LET left == IF pfree # NULL THEN pnext[pfree] ELSE NULL
    IN  /\ pfree' = p
        /\ IF CbNode # NULL
           THEN set_timeout_nsec_cb(p, CbNode, left)
           ELSE /\ pnext' = [pnext EXCEPT ![p] = left]
                /\ count' = [count EXCEPT ![p] = @ - 1]
                /\ UNCHANGED <<deadline, kind, ptimer, heap, armed, stall>>
        /\ UNCHANGED polls

(* timer_cb for a poll: thread_add_poll puts it in front of the polls,     *)
(* unless it is the head already.                                          *)
PollCb(p) ==
    /\ pnext' = IF p = polls THEN pnext ELSE [pnext EXCEPT ![p] = polls]
    /\ polls' = p
    /\ count' = [count EXCEPT ![p] = @ - 1]
    /\ UNCHANGED <<deadline, kind, pfree, ptimer, heap, armed, stall>>

(* Its ASSERT that the count is 0 now is part of OneOwner. *)
timer_cb ==
    /\ ~raced /\ batch # << >>
    /\ batch' = Tail(batch)
    /\ IF kind[Head(batch)] = "tick" THEN TickCb(Head(batch)) ELSE PollCb(Head(batch))
    /\ UNCHANGED <<now, pending, mainvars>>

-----------------------------------------------------------------------------
(* The main thread *)

(* set_timeout_nsec_poll(d, ...), called by the loop or by a handler, takes *)
(* the head of the pool, or a node of the heap; it fails without either.    *)
SetTimeout(d) ==
    /\ SoftirqIdle
    /\ mpc \in {"run", "handler"} /\ now < SetBy
    /\ mret' = mpc
    /\ mnsec' = d
    /\ IF pfree # NULL
       THEN mp' = pfree /\ mpc' = "pop" /\ UNCHANGED heap
       ELSE /\ heap # {}
            /\ mp' \in heap /\ heap' = heap \ {mp'} /\ mpc' = "fill"
    /\ UNCHANGED <<now, pnext, deadline, kind, count, pfree, ptimer, polls, armed,
                   pending, batch, walk, cur, tscdl, raced, stall>>

(* Mutant: the node is taken from the pool but the pool keeps it. *)
PopFree_keep ==
    /\ SoftirqIdle
    /\ mpc = "pop" /\ mpc' = "fill"
    /\ UNCHANGED <<now, pnext, deadline, kind, count, pfree, ptimer, polls, heap, armed,
                   pending, batch, mret, mp, mnsec, walk, cur, tscdl, raced, stall>>

(* The store is stale when the tick took mp, the head that was read, in     *)
(* between.                                                                *)
PopFree ==
    /\ SoftirqIdle
    /\ mpc = "pop" /\ mpc' = "fill"
    /\ pfree' = pnext[mp]
    /\ raced' = (pfree # mp)
    /\ UNCHANGED <<now, pnext, deadline, kind, count, ptimer, polls, heap, armed,
                   pending, batch, mret, mp, mnsec, walk, cur, tscdl, stall>>

Fill ==
    /\ SoftirqIdle
    /\ mpc = "fill" /\ mpc' = "add"
    /\ deadline' = [deadline EXCEPT ![mp] = now + mnsec]
    /\ kind' = [kind EXCEPT ![mp] = "poll"]
    /\ UNCHANGED <<now, pnext, count, pfree, ptimer, polls, heap, armed,
                   pending, batch, mret, mp, mnsec, walk, cur, tscdl, raced, stall>>

AddTimer ==
    /\ SoftirqIdle
    /\ mpc = "add" /\ mpc' = mret
    /\ pnext' = Linked(mp, deadline)
    /\ count' = [count EXCEPT ![mp] = 1]
    /\ add_timer(mnsec, mp, deadline)
    /\ mp' = NULL
    /\ UNCHANGED <<now, kind, pfree, polls, heap, pending, batch, mret, mnsec, walk, cur,
                   tscdl, raced>>

(* can_main_run takes the polls. *)
can_main_run ==
    /\ SoftirqIdle
    /\ mpc = "run" /\ walk = NULL /\ polls # NULL
    /\ walk' = polls
    /\ polls' = NULL
    /\ UNCHANGED <<now, listvars, pending, batch, mpc, mret, mp, mnsec, cur, tscdl, raced>>

(* do_poll_head goes to the next poll, whose handler timeout_poll runs the  *)
(* callback.  A timer that is being walked is set by nobody, so nothing    *)
(* comes between the read of its link and the store.                       *)
do_poll_head ==
    /\ SoftirqIdle
    /\ mpc = "run" /\ walk # NULL
    /\ mpc' = "handler"
    /\ cur' = walk
    /\ walk' = pnext[walk]
    /\ pnext' = [pnext EXCEPT ![walk] = NULL]
    /\ UNCHANGED <<now, deadline, kind, count, pfree, ptimer, polls, heap, armed,
                   pending, batch, mret, mp, mnsec, tscdl, raced, stall>>

(* The callback is over; free_poll links the node to the pool and then the  *)
(* pool to it, which is stale when the tick used the pool in between.       *)
FreeLink ==
    /\ SoftirqIdle
    /\ mpc = "handler" /\ mpc' = "free"
    /\ pnext' = [pnext EXCEPT ![cur] = pfree]
    /\ UNCHANGED <<now, deadline, kind, count, pfree, ptimer, polls, heap, armed,
                   pending, batch, mret, mp, mnsec, walk, cur, tscdl, raced, stall>>

FreeHead ==
    /\ SoftirqIdle
    /\ mpc = "free" /\ mpc' = "run"
    /\ pfree' = cur
    /\ cur' = NULL
    /\ raced' = (pfree # pnext[cur])
    /\ UNCHANGED <<now, pnext, deadline, kind, count, ptimer, polls, heap, armed,
                   pending, batch, mret, mp, mnsec, walk, tscdl, stall>>

(* Time passes, also while a timer is being set. *)
Clock ==
    /\ ~raced
    /\ now < IF mpc \in {"pop", "fill", "add"} THEN SetBy ELSE MaxTime
    /\ now' = now + 1
    /\ UNCHANGED <<listvars, polls, pending, batch, mainvars>>

-----------------------------------------------------------------------------
(* After init_hrtimer and init_irq_call: the first node holds the first     *)
(* tick, the other nodes of timerbuf are the pool, in order.               *)
FirstTick == CHOOSE n \in Buf : \A m \in Buf : n <= m

NextInBuf(n) ==
    IF \A m \in Buf : m <= n THEN NULL
    ELSE CHOOSE m \in Buf : n < m /\ \A k \in Buf : n < k => m <= k

Init ==
    /\ now = 0
    /\ pnext = [n \in Nodes |-> IF n \in Heap \cup {FirstTick} THEN NULL ELSE NextInBuf(n)]
    /\ deadline = [n \in Nodes |-> IF n = FirstTick THEN Period ELSE 0]
    /\ kind = [n \in Nodes |-> "tick"]
    /\ count = [n \in Nodes |-> IF n = FirstTick THEN 1 ELSE 0]
    /\ pfree = NextInBuf(FirstTick)
    /\ ptimer = FirstTick
    /\ polls = NULL
    /\ heap = Heap
    /\ tscdl \in BOOLEAN /\ raced = FALSE /\ stall = "no"
    /\ armed = set_next_event(Period)
    /\ pending = FALSE
    /\ batch = << >>
    /\ mpc = "run" /\ mret = "run"
    /\ mp = NULL /\ mnsec = 0 /\ walk = NULL /\ cur = NULL

SoftirqStep == run_hrtimer_softirq \/ timer_cb

SetStep == PopFree \/ Fill \/ AddTimer

PollStep == can_main_run \/ do_poll_head \/ FreeLink \/ FreeHead

Next ==
    \/ Clock
    \/ LapicIrq
    \/ SoftirqStep
    \/ \E d \in Delays : SetTimeout(d)
    \/ SetStep
    \/ PollStep

Spec == Init /\ [][Next]_vars

(* Time passes, an armed local timer fires once its time has come, the      *)
(* softirq runs to its end, and the main thread goes on with what it has    *)
(* begun and looks at its polls again and again; it need not set timers.    *)
Fairness ==
    /\ WF_vars(Clock) /\ WF_vars(LapicIrq) /\ WF_vars(SoftirqStep)
    /\ WF_vars(SetStep) /\ SF_vars(PollStep)

FairSpec == Spec /\ Fairness

-----------------------------------------------------------------------------
(* Properties *)

TypeOK ==
    /\ now \in 0 .. MaxTime
    /\ pnext \in [Nodes -> Nodes \cup {NULL}]
    /\ deadline \in [Nodes -> Nat]
    /\ kind \in [Nodes -> {"tick", "poll"}]
    /\ count \in [Nodes -> Int]
    /\ {pfree, ptimer, polls, mp, walk, cur} \subseteq Nodes \cup {NULL}
    /\ heap \subseteq Heap
    /\ armed \in Nat \cup {NONE}
    /\ pending \in BOOLEAN
    /\ batch \in Seq(Nodes)
    /\ mpc \in {"run", "pop", "fill", "add", "handler", "free"}
    /\ mret \in {"run", "handler"}
    /\ mnsec \in Delays \cup {0}
    /\ {tscdl, raced} \subseteq BOOLEAN
    /\ stall \in {"no", "early", "overfull"}

(* The k-th node of the list that starts at h. *)
Walk(h, k) ==
    LET ptr[i \in 0 .. k] == IF i = 0 THEN h
                             ELSE IF ptr[i - 1] = NULL THEN NULL ELSE pnext[ptr[i - 1]]
    IN  ptr[k]

On(n, h) == \E k \in 0 .. Cardinality(Nodes) - 1 : Walk(h, k) = n

Ends(h) == Walk(h, Cardinality(Nodes)) = NULL

(* The places a node can be: the heap, the pool, the timers, the polls      *)
(* before and after can_main_run took them, the batch of the softirq, the   *)
(* main thread's p or its handler.  While p is being taken it still counts  *)
(* as the pool's.                                                          *)
Places(n) ==
    {<<"heap", n>> : h \in {n} \cap heap}
    \cup {<<"list", h>> : h \in {g \in {pfree, ptimer, polls, walk} \ {NULL} : On(n, g)}}
    \cup {<<"batch", i>> : i \in {j \in DOMAIN batch : batch[j] = n}}
    \cup {<<"mp", n>> : h \in {n} \cap (IF mpc \in {"fill", "add"} THEN {mp} ELSE {})}
    \cup {<<"cur", n>> : h \in {n} \cap {cur}}

(* No timer is lost, freed twice or handed out twice: every list ends and   *)
(* every node is in exactly one place, though one field links all lists,    *)
(* and the ASSERT of timer_cb holds, which counts how often one was set.    *)
(* The only way to break this is the store of a stale head of the pool      *)
(* (timer.c:139, 47), when the tick ran between the main thread's look at   *)
(* the pool and its store and did not leave the pool as it was.             *)
OneOwner ==
    ~raced => /\ \A h \in {pfree, ptimer, polls, walk} : Ends(h)
              /\ \A n \in Nodes : Cardinality(Places(n)) = 1
              /\ batch # << >> => count[Head(batch)] = 1

(* A callback never runs before its deadline: whatever left the list of     *)
(* timers had expired.                                                     *)
NeverEarly ==
    \A n \in Nodes : n \in {batch[i] : i \in DOMAIN batch}
                        \/ On(n, polls) \/ On(n, walk) \/ n = cur => Expired(n)

(* The longest delay anyone asks for. *)
MaxDelay == CHOOSE d \in Delays \cup {Period} : \A e \in Delays \cup {Period} : e <= d

(* While there are timers, either the softirq is about to look at them or   *)
(* the local timer is armed, and not further away than the longest delay.   *)
(* There are two ways only for the timers to stall, until one is set that   *)
(* goes first: an interrupt before the head's deadline is used up without   *)
(* arming the timer again, which lapic_next_event alone causes, and more    *)
(* timers expired than the softirq has room for, so that the difference to  *)
(* the next deadline wraps (timer.c:191).                                  *)
ArmedForFirst ==
    /\ ptimer # NULL => \/ pending
                        \/ armed # NONE /\ armed <= now + MaxDelay
                        \/ stall # "no" \/ raced
    /\ tscdl => stall # "early"

(* A timer the main thread set is called once it is due, as the test of     *)
(* test.c that sets one expects: it leaves the list, and its poll is not    *)
(* lost on the way, unless the pool is corrupted or the timers stall in one *)
(* of the ways ArmedForFirst names.                                        *)
TimerFires ==
    \A n \in Nodes :
        (On(n, ptimer) /\ kind[n] = "poll") ~> (cur = n \/ raced \/ stall # "no")
=============================================================================
