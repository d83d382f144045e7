------------------------------- MODULE NetTx -------------------------------
(***************************************************************************)
(* Sending packets: lwip_tx_func (module/net/virtio/main.c) takes a         *)
(* reference to the pbuf and queues it; the reference is given back when    *)
(* the card has returned the packet and somebody reads the queue.  That is  *)
(* the next packet to be sent, if more than Slack descriptors are in use,   *)
(* or tx_poll.  From the card's interrupt to tx_poll it takes the softirq   *)
(* NET_TX and its flag canrun_tx (kernel/net.c), which the softirq NET_RX   *)
(* clears as well.                                                         *)
(*                                                                         *)
(* How the queue asks for interrupts is VirtIntr, which this module is      *)
(* shown to implement for the transmit queue; the names of the indices are  *)
(* the same.  virtio_net_send_packets queues with interrupts off, tx_poll   *)
(* reads with interrupts on.  Softirqs run on top of the main thread.       *)
(***************************************************************************)
EXTENDS Integers, Sequences, FiniteSetsExt

CONSTANTS
    Pbufs,     \* the pbufs lwIP has
    Lengths,   \* descriptors of a packet, the one of the header included
    Num,       \* q->num
    Slack,     \* 4: virtio_to_queue reads the queue first when more are in use
    Word,      \* 2^16: the range of the indices
    LoopMax,   \* 10: the bound of the loops in run_net_tx_softirq and _rx_
    MaxRef     \* bound: references to all pbufs

ASSUME TxAssumption ==
    /\ "none" \notin Pbufs
    /\ Num \in Nat \ {0, 1} /\ Word \in Nat /\ Word >= 2 * Num
    /\ Lengths \subseteq 2 .. Num
    /\ {Slack, MaxRef} \subseteq Nat /\ LoopMax \in Nat \ {0, 1}

NoPacket == [p |-> "none", n |-> 0]
Packets == [p : Pbufs, n : Lengths]

VARIABLES
    own,            \* lwIP has a reference of its own
    ref,            \* pbuf->ref
    refused,        \* history: packets of a pbuf that virtio_to_queue refused
    sending,        \* the packet virtio_net_send_packets is queueing
    taken,          \* the packet virtio_from_queue has taken
    avail, used,    \* the packets the card has, and those it returned
    free_num,
    used_idx, last_used_idx, no_interrupt, used_event, signalled, irq,  \* as in VirtIntr
    canrun_tx, canrun_rx,
    pending, mask,  \* softirqs raised, and those __do_softirq has still to run
    loop,           \* the local variable of the softirq that runs
    poll,           \* tx_poll is on the list of the main thread
    rx_asked,       \* the receive queue's interrupt is asked for
    pc,             \* where the main thread is
    event_idx,      \* VIRTIO_RING_F_EVENT_IDX is negotiated
    cut, muted, dropped  \* history, as in VirtIntr

queuevars == <<avail, used, free_num>>
intrvars == <<used_idx, last_used_idx, no_interrupt, used_event, signalled, irq>>
refvars == <<own, ref, refused>>
softvars == <<canrun_tx, canrun_rx, pending, mask, loop>>
notes == <<cut, muted, dropped>>
vars == <<refvars, sending, taken, queuevars, intrvars, softvars, poll, rx_asked, pc, event_idx,
          notes>>

Inc(i) == (i + 1) % Word

InSoftirq == pending # {} \/ mask # {}

(* Interrupts are off while a packet is queued. *)
Masked == sending # NoPacket

At(l) == ~InSoftirq /\ pc = l

Refs == MapThenSumSet(LAMBDA p : ref[p], Pbufs)

-----------------------------------------------------------------------------
(* lwIP, in the main thread *)

pbuf_alloc(p) ==
    /\ At("idle")
    /\ ref[p] = 0 /\ Refs < MaxRef
    /\ own' = [own EXCEPT ![p] = TRUE]
    /\ ref' = [ref EXCEPT ![p] = 1]
    /\ UNCHANGED <<refused, sending, taken, queuevars, intrvars, softvars, poll, rx_asked, pc,
                   event_idx, notes>>

pbuf_free(p) ==
    /\ At("idle")
    /\ own[p]
    /\ own' = [own EXCEPT ![p] = FALSE]
    /\ ref' = [ref EXCEPT ![p] = @ - 1]
    /\ UNCHANGED <<refused, sending, taken, queuevars, intrvars, softvars, poll, rx_asked, pc,
                   event_idx, notes>>

(* virtio_net_send_packets clears the flag of the receive queue, not of the   *)
(* transmit queue; a card with the event index ignores it.  virtio_to_queue *)
(* decides whether to read the queue first.                                *)
SendOf(p, n) ==
    /\ At("idle")
    /\ own[p] /\ Refs < MaxRef
    /\ sending' = [p |-> p, n |-> n]
    /\ IF free_num + Slack < Num
       THEN pc' = "read" /\ dropped' = FALSE
       ELSE pc' = "queue" /\ UNCHANGED dropped
    /\ rx_asked' = (rx_asked \/ ~event_idx)
    /\ UNCHANGED <<own, refused, taken, queuevars, intrvars, softvars, poll, event_idx, cut,
                   muted>>

(* Mutant: no reference is taken. *)
lwip_tx_func_noref(p, n) == SendOf(p, n) /\ UNCHANGED ref

(* lwip_tx_func takes a reference and calls virtio_net_send_packets. *)
lwip_tx_func(p, n) == SendOf(p, n) /\ ref' = [ref EXCEPT ![p] = @ + 1]

(* The rest of virtio_to_queue.  A packet that is refused keeps its         *)
(* reference.                                                              *)
virtio_to_queue ==
    /\ At("queue")
    /\ IF free_num - sending.n <= 0
       THEN /\ refused' = [refused EXCEPT ![sending.p] = @ + 1]
            /\ UNCHANGED <<avail, free_num>>
       ELSE /\ avail' = Append(avail, sending)
            /\ free_num' = free_num - sending.n
            /\ UNCHANGED refused
    /\ sending' = NoPacket
    /\ pc' = "idle"
    /\ UNCHANGED <<own, ref, taken, used, intrvars, softvars, poll, rx_asked, event_idx, notes>>

-----------------------------------------------------------------------------
(* Reading the queue, from virtio_to_queue or from tx_poll *)

tx_poll_callback ==
    /\ At("idle") /\ poll
    /\ poll' = FALSE
    /\ pc' = "read"
    /\ dropped' = FALSE
    /\ UNCHANGED <<refvars, sending, taken, queuevars, intrvars, softvars, rx_asked, event_idx, cut,
                   muted>>

virtio_from_queue ==
    /\ At("read")
    /\ IF used = << >>
       THEN /\ pc' = IF Masked THEN "queue" ELSE "idle"
            /\ muted' = (~event_idx /\ no_interrupt)
            /\ UNCHANGED <<taken, used, free_num, last_used_idx>>
       ELSE /\ pc' = "enable"
            /\ taken' = Head(used)
            /\ used' = Tail(used)
            /\ free_num' = free_num + Head(used).n
            /\ last_used_idx' = Inc(last_used_idx)
            /\ UNCHANGED muted
    /\ UNCHANGED <<refvars, sending, avail, used_idx, no_interrupt, used_event, signalled, irq,
                   softvars, poll, rx_asked, event_idx, cut, dropped>>

virtio_queue_enable_intr ==
    /\ At("enable")
    /\ pc' = "event"
    /\ no_interrupt' = FALSE
    /\ UNCHANGED <<refvars, sending, taken, queuevars, used_idx, last_used_idx, used_event,
                   signalled, irq, softvars, poll, rx_asked, event_idx, notes>>

(* The index is published, and tx_queue_callback gives the reference back. *)
tx_queue_callback ==
    /\ At("event")
    /\ pc' = "read"
    /\ used_event' = IF no_interrupt THEN used_event ELSE last_used_idx
    /\ ref' = [ref EXCEPT ![taken.p] = @ - 1]
    /\ taken' = NoPacket
    /\ cut' = (cut /\ no_interrupt)
    /\ UNCHANGED <<own, refused, sending, queuevars, used_idx, last_used_idx, no_interrupt,
                   signalled, irq, softvars, poll, rx_asked, event_idx, muted, dropped>>

-----------------------------------------------------------------------------
(* The card *)

(* It sends a packet and returns its descriptors, in any order. *)
DeviceUse(i) ==
    /\ i \in DOMAIN avail
    /\ Len(used) < Num - 1
    /\ (used_idx - signalled) % Word < Num - 1
    /\ used' = Append(used, avail[i])
    /\ avail' = SubSeq(avail, 1, i - 1) \o SubSeq(avail, i + 1, Len(avail))
    /\ used_idx' = Inc(used_idx)
    /\ UNCHANGED <<refvars, sending, taken, free_num, last_used_idx, no_interrupt, used_event,
                   signalled, irq, softvars, poll, rx_asked, pc, event_idx, notes>>

InterruptDue ==
    IF event_idx THEN (used_idx - used_event - 1) % Word < (used_idx - signalled) % Word
                ELSE ~no_interrupt

DeviceSignal ==
    /\ signalled # used_idx
    /\ signalled' = used_idx
    /\ irq' = (irq \/ InterruptDue)
    /\ UNCHANGED <<refvars, sending, taken, queuevars, used_idx, last_used_idx, no_interrupt,
                   used_event, softvars, poll, rx_asked, pc, event_idx, notes>>

-----------------------------------------------------------------------------
(* Interrupts *)

(* Mutant: the flag is not set. *)
irq_handler_send_unflagged ==
    /\ irq /\ ~Masked
    /\ irq' = FALSE
    /\ no_interrupt' = TRUE
    /\ pending' = pending \cup {"tx"}
    /\ UNCHANGED <<refvars, sending, taken, queuevars, used_idx, last_used_idx, used_event,
                   signalled, canrun_tx, canrun_rx, mask, loop, poll, rx_asked, pc, event_idx,
                   notes>>

(* The interrupt may arrive wherever a packet is not being queued: after    *)
(* virtio_from_queue has cleared the flag, and in the softirq NET_RX too.   *)
(* run_net_tx sets canrun_tx and raises the softirq.                        *)
irq_handler_send ==
    /\ irq /\ ~Masked
    /\ irq' = FALSE
    /\ no_interrupt' = TRUE
    /\ canrun_tx' = TRUE
    /\ pending' = pending \cup {"tx"}
    /\ cut' = (cut \/ (event_idx /\ pc = "event"))
    /\ UNCHANGED <<refvars, sending, taken, queuevars, used_idx, last_used_idx, used_event,
                   signalled, canrun_rx, mask, loop, poll, rx_asked, pc, event_idx, muted,
                   dropped>>

(* The receive queue does not interrupt again before the main thread read it. *)
irq_handler_receive ==
    /\ rx_asked /\ ~Masked
    /\ rx_asked' = FALSE
    /\ canrun_rx' = TRUE
    /\ pending' = pending \cup {"rx"}
    /\ UNCHANGED <<refvars, sending, taken, queuevars, intrvars, canrun_tx, mask, loop, poll, pc,
                   event_idx, notes>>

rx_poll_callback ==
    /\ At("idle") /\ ~rx_asked
    /\ rx_asked' = TRUE
    /\ UNCHANGED <<refvars, sending, taken, queuevars, intrvars, softvars, poll, pc, event_idx,
                   notes>>

-----------------------------------------------------------------------------
(* Softirqs: NET_TX before NET_RX, and another pass while some are pending.  *)
(* That a pass need not be the last one's successor but may be left to the   *)
(* tasklet thread, which runs on top of the main thread too, is in Sched.    *)

do_softirq ==
    /\ mask = {} /\ pending # {}
    /\ mask' = pending
    /\ pending' = {}
    /\ UNCHANGED <<refvars, sending, taken, queuevars, intrvars, canrun_tx, canrun_rx, loop, poll,
                   rx_asked, pc, event_idx, notes>>

SoftirqEnds(s) == mask' = mask \ {s} /\ loop' = 0

(* Mutant: the driver's callback is not called. *)
run_net_tx_softirq_deaf ==
    /\ "tx" \in mask
    /\ canrun_tx' = FALSE
    /\ SoftirqEnds("tx")
    /\ UNCHANGED <<refvars, sending, taken, queuevars, intrvars, canrun_rx, pending, poll, rx_asked,
                   pc, event_idx, notes>>

(* Only the first round calls tx_callback, which adds tx_poll: p stays at   *)
(* the end of the list of drivers.                                         *)
run_net_tx_softirq ==
    /\ "tx" \in mask
    /\ IF canrun_tx /\ loop + 1 < LoopMax
       THEN /\ canrun_tx' = FALSE
            /\ poll' = (poll \/ loop = 0)
            /\ loop' = loop + 1
            /\ UNCHANGED mask
       ELSE SoftirqEnds("tx") /\ UNCHANGED <<canrun_tx, poll>>
    /\ UNCHANGED <<refvars, sending, taken, queuevars, intrvars, canrun_rx, pending, rx_asked,
                   pc, event_idx, notes>>

(* canrun_rx stays set, and every round clears the other flag; this drops    *)
(* the request of an interrupt that NET_TX has not seen yet.                *)
run_net_rx_softirq ==
    /\ "rx" \in mask /\ "tx" \notin mask
    /\ IF canrun_rx /\ loop + 1 < LoopMax
       THEN /\ canrun_tx' = FALSE
            /\ loop' = loop + 1
            /\ dropped' = (dropped \/ (canrun_tx /\ "tx" \in pending /\ ~poll))
            /\ UNCHANGED mask
       ELSE SoftirqEnds("rx") /\ UNCHANGED <<canrun_tx, dropped>>
    /\ UNCHANGED <<refvars, sending, taken, queuevars, intrvars, canrun_rx, pending, poll, rx_asked,
                   pc, event_idx, cut, muted>>

-----------------------------------------------------------------------------
Init ==
    /\ own = [p \in Pbufs |-> FALSE]
    /\ ref = [p \in Pbufs |-> 0]
    /\ refused = [p \in Pbufs |-> 0]
    /\ sending = NoPacket /\ taken = NoPacket
    /\ avail = << >> /\ used = << >> /\ free_num = Num
    /\ used_idx = 0 /\ last_used_idx = 0 /\ used_event = 0 /\ signalled = 0
    /\ no_interrupt = FALSE /\ irq = FALSE
    /\ canrun_tx = FALSE /\ canrun_rx = FALSE
    /\ pending = {} /\ mask = {} /\ loop = 0
    /\ poll = FALSE /\ rx_asked = TRUE /\ pc = "idle"
    /\ event_idx \in BOOLEAN
    /\ cut = FALSE /\ muted = FALSE /\ dropped = FALSE

CallStep ==
    virtio_to_queue \/ virtio_from_queue \/ virtio_queue_enable_intr \/ tx_queue_callback

SoftirqStep == do_softirq \/ run_net_tx_softirq \/ run_net_rx_softirq

Next ==
    \/ \E p \in Pbufs : pbuf_alloc(p) \/ pbuf_free(p)
    \/ \E p \in Pbufs : \E n \in Lengths : lwip_tx_func(p, n)
    \/ tx_poll_callback \/ rx_poll_callback
    \/ CallStep
    \/ irq_handler_send \/ irq_handler_receive
    \/ SoftirqStep
    \/ \E i \in 1 .. Num : DeviceUse(i)
    \/ DeviceSignal

Spec == Init /\ [][Next]_vars

(* The main thread finishes a call it has begun, however often it is        *)
(* interrupted, and runs a poll that is on its list; softirqs go on; the    *)
(* card sends the oldest packet some time, and its pending interrupt is      *)
(* taken.  Nobody need send or receive another packet.                     *)
FairSpec ==
    /\ Spec
    /\ SF_vars(CallStep) /\ SF_vars(tx_poll_callback) /\ WF_vars(SoftirqStep)
    /\ SF_vars(DeviceUse(1)) /\ WF_vars(DeviceSignal) /\ SF_vars(irq_handler_send)

-----------------------------------------------------------------------------
(* Properties *)

TypeOK ==
    /\ own \in [Pbufs -> BOOLEAN]
    /\ ref \in [Pbufs -> 0 .. MaxRef]
    /\ refused \in [Pbufs -> 0 .. MaxRef]
    /\ {sending, taken} \subseteq Packets \cup {NoPacket}
    /\ avail \in Seq(Packets) /\ used \in Seq(Packets)
    /\ free_num \in 0 .. Num
    /\ {used_idx, last_used_idx, used_event, signalled} \subseteq 0 .. Word - 1
    /\ {no_interrupt, irq, canrun_tx, canrun_rx, poll, rx_asked} \subseteq BOOLEAN
    /\ pending \subseteq {"tx", "rx"} /\ mask \subseteq {"tx", "rx"}
    /\ loop \in 0 .. LoopMax - 1
    /\ pc \in {"idle", "queue", "read", "enable", "event"}
    /\ {event_idx, cut, muted, dropped} \subseteq BOOLEAN

One(b) == IF b THEN 1 ELSE 0

In(seq, p) == Cardinality({i \in DOMAIN seq : seq[i].p = p})

(* A pbuf has as many references as lwIP, the packet being queued, the      *)
(* queue and the packet just taken from it account for, however often it    *)
(* was queued: the card never sends from one that was freed, none is freed  *)
(* twice, and only a refused packet leaves a reference behind for good.     *)
RefsExact ==
    \A p \in Pbufs :
        ref[p] = One(own[p]) + One(sending.p = p) + One(taken.p = p)
                 + In(avail, p) + In(used, p) + refused[p]

(* tx_poll is on the list, or the softirq that will put it there is on its   *)
(* way and finds the flag set.                                             *)
TxPolled == poll \/ (canrun_tx /\ "tx" \in pending \cup mask)

Intr == INSTANCE VirtIntr WITH
            poll <- TxPolled,
            pc <- IF pc = "queue" THEN "idle" ELSE pc

(* The transmit queue implements VirtIntr, wherever interrupts arrive: what *)
(* happens between the interrupt and the poll, in the softirq and its flag, *)
(* is that the poll is queued, or that NET_RX dropped the request, and in   *)
(* no other way is one lost or invented.                                   *)
Implements == Intr!Spec

(* A pbuf that lwIP has freed goes back to its pool, once the card has sent *)
(* it, even if nothing is ever sent again, except where VirtIntr's Unasked   *)
(* says that the driver failed to ask for the interrupt or to answer it.    *)
Reclaimed ==
    \A p \in Pbufs : ~own[p] ~> (ref[p] = refused[p] \/ own[p] \/ Intr!Unasked)
=============================================================================
