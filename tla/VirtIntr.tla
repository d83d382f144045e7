------------------------------ MODULE VirtIntr ------------------------------
(***************************************************************************)
(* When the driver reads a virtqueue: the receive queue of the network card *)
(* (libs/libvirtio/virtio.c, module/net/virtio/virtio_net.c).  The device   *)
(* interrupts as the driver asks it to, by the flag                         *)
(* VRING_AVAIL_F_NO_INTERRUPT or, when VIRTIO_RING_F_EVENT_IDX is           *)
(* negotiated, by the used index at which it wants to be interrupted.  The  *)
(* handler sets the flag and has the main thread poll the queue; every      *)
(* entry the poll takes clears the flag and publishes the next index.       *)
(*                                                                         *)
(* The interrupt may arrive anywhere.  Three history variables note where    *)
(* the driver fails to ask for the next interrupt, or to answer one.        *)
(*                                                                         *)
(* Only the counts matter here; what the entries hold and that at most      *)
(* Num - 1 of them are unread is the subject of VirtQueue.                  *)
(***************************************************************************)
EXTENDS Integers

CONSTANTS
    Num,       \* q->num
    Word       \* 2^16: the range of the indices

ASSUME NumAssumption ==
    /\ Num \in Nat \ {0, 1} /\ Word \in Nat /\ Word >= 2 * Num

Index == 0 .. Word - 1

VARIABLES
    used_idx,       \* the device's index: how many it returned
    last_used_idx,  \* how many the driver read
    no_interrupt,   \* VRING_AVAIL_F_NO_INTERRUPT in avail->flags
    used_event,     \* *q->used_event
    signalled,      \* used_idx when the device last decided about an interrupt
    irq,            \* its interrupt is pending
    poll,           \* rx_poll is on the main thread's list
    pc,             \* where the main thread is
    event_idx,      \* VIRTIO_RING_F_EVENT_IDX is negotiated
    cut,            \* history, with the event index: an interrupt after the flag
                    \* was cleared kept the index from being published
    muted,          \* history, without it: the last read left the flag set
    dropped         \* history: the request of the poll was lost since the last read

notes == <<cut, muted, dropped>>
vars == <<used_idx, last_used_idx, no_interrupt, used_event, signalled, irq, poll, pc,
          event_idx, notes>>

Inc(i) == (i + 1) % Word

Unread == (used_idx - last_used_idx) % Word

-----------------------------------------------------------------------------
(* The driver *)

(* rx_poll_callback, run by the main thread, calls virtio_read_queue. *)
rx_poll_callback ==
    /\ pc = "idle" /\ poll
    /\ poll' = FALSE
    /\ pc' = "read"
    /\ dropped' = FALSE
    /\ UNCHANGED <<used_idx, last_used_idx, no_interrupt, used_event, signalled, irq, cut,
                   muted, event_idx>>

(* virtio_to_queue may read the queue first, when buffers are refilled. *)
ReadBeforeRefill ==
    /\ pc = "idle"
    /\ pc' = "read"
    /\ dropped' = FALSE
    /\ UNCHANGED <<used_idx, last_used_idx, no_interrupt, used_event, signalled, irq, poll, cut,
                   muted, event_idx>>

(* virtio_net_send_packets enables the interrupt of the receive queue. *)
SendEnablesIntr ==
    /\ pc = "idle" /\ no_interrupt
    /\ no_interrupt' = FALSE
    /\ UNCHANGED <<used_idx, last_used_idx, used_event, signalled, irq, poll, pc, notes,
                   event_idx>>

(* virtio_from_queue takes an entry; without one, virtio_read_queue ends,   *)
(* and the flag and the index stay what they are.                          *)
virtio_from_queue ==
    /\ pc = "read"
    /\ IF Unread = 0
       THEN pc' = "idle" /\ muted' = (~event_idx /\ no_interrupt) /\ UNCHANGED last_used_idx
       ELSE pc' = "enable" /\ last_used_idx' = Inc(last_used_idx) /\ UNCHANGED muted
    /\ UNCHANGED <<used_idx, no_interrupt, used_event, signalled, irq, poll, cut, dropped,
                   event_idx>>

virtio_queue_enable_intr ==
    /\ pc = "enable" /\ pc' = "event"
    /\ no_interrupt' = FALSE
    /\ UNCHANGED <<used_idx, last_used_idx, used_event, signalled, irq, poll, notes, event_idx>>

(* Mutant: the index published is the one before the entry just taken. *)
EventToStore_old == (last_used_idx - 1) % Word

EventToStore == last_used_idx

(* The next index is published unless the flag says otherwise by now. *)
StoreUsedEvent ==
    /\ pc = "event" /\ pc' = "read"
    /\ used_event' = IF no_interrupt THEN used_event ELSE EventToStore
    /\ cut' = (cut /\ no_interrupt)
    /\ UNCHANGED <<used_idx, last_used_idx, no_interrupt, signalled, irq, poll, muted, dropped,
                   event_idx>>

(* Mutant: the handler sets the flag and has nobody poll the queue. *)
irq_handler_receive_quiet ==
    /\ irq
    /\ irq' = FALSE
    /\ no_interrupt' = TRUE
    /\ cut' = (cut \/ (event_idx /\ pc = "event"))
    /\ UNCHANGED <<used_idx, last_used_idx, used_event, signalled, poll, pc, muted, dropped,
                   event_idx>>

(* irq_handler_receive sets the flag and, by the softirq, adds rx_poll. *)
irq_handler_receive ==
    /\ irq
    /\ irq' = FALSE
    /\ no_interrupt' = TRUE
    /\ poll' = TRUE
    /\ cut' = (cut \/ (event_idx /\ pc = "event"))
    /\ UNCHANGED <<used_idx, last_used_idx, used_event, signalled, pc, muted, dropped,
                   event_idx>>

(* Transmit queue only: run_net_rx_softirq clears the flag that             *)
(* irq_handler_send set, before the softirq NET_TX looked at it, and        *)
(* tx_poll is never queued.                                                *)
PollDropped ==
    /\ poll
    /\ poll' = FALSE
    /\ dropped' = TRUE
    /\ UNCHANGED <<used_idx, last_used_idx, no_interrupt, used_event, signalled, irq, pc, cut,
                   muted, event_idx>>

-----------------------------------------------------------------------------
(* The device *)

(* The device returns an entry.  It decides about an interrupt before it    *)
(* has returned a ring full of them.                                       *)
DeviceUse ==
    /\ Unread < Num - 1
    /\ (used_idx - signalled) % Word < Num - 1
    /\ used_idx' = Inc(used_idx)
    /\ UNCHANGED <<last_used_idx, no_interrupt, used_event, signalled, irq, poll, pc, notes,
                   event_idx>>

(* With the event index the interrupt is due if that index was passed since *)
(* the last decision, else if the flag is clear.                           *)
InterruptDue ==
    IF event_idx THEN (used_idx - used_event - 1) % Word < (used_idx - signalled) % Word
                ELSE ~no_interrupt

DeviceSignal ==
    /\ signalled # used_idx
    /\ signalled' = used_idx
    /\ irq' = (irq \/ InterruptDue)
    /\ UNCHANGED <<used_idx, last_used_idx, no_interrupt, used_event, poll, pc, notes,
                   event_idx>>

-----------------------------------------------------------------------------
Init ==
    /\ used_idx = 0 /\ last_used_idx = 0 /\ used_event = 0 /\ signalled = 0
    /\ no_interrupt = FALSE /\ irq = FALSE
    /\ poll = FALSE /\ pc = "idle"
    /\ event_idx \in BOOLEAN
    /\ cut = FALSE /\ muted = FALSE /\ dropped = FALSE

ReadStep == virtio_from_queue \/ virtio_queue_enable_intr \/ StoreUsedEvent

Next ==
    \/ rx_poll_callback
    \/ ReadBeforeRefill
    \/ SendEnablesIntr
    \/ ReadStep
    \/ irq_handler_receive
    \/ PollDropped
    \/ DeviceUse
    \/ DeviceSignal

Spec == Init /\ [][Next]_vars

(* The main thread reads on and runs its poll; a pending interrupt is taken *)
(* between some two of its instructions; the device decides about an        *)
(* interrupt after it returned entries.  Nobody has to send or to refill,   *)
(* and nothing more need be received.                                      *)
Fairness ==
    /\ SF_vars(rx_poll_callback) /\ WF_vars(ReadStep)
    /\ SF_vars(irq_handler_receive) /\ WF_vars(DeviceSignal)

FairSpec == Spec /\ Fairness

-----------------------------------------------------------------------------
(* Properties *)

TypeOK ==
    /\ {used_idx, last_used_idx, used_event, signalled} \subseteq Index
    /\ no_interrupt \in BOOLEAN /\ irq \in BOOLEAN /\ poll \in BOOLEAN
    /\ pc \in {"idle", "read", "enable", "event"}
    /\ event_idx \in BOOLEAN /\ cut \in BOOLEAN /\ muted \in BOOLEAN /\ dropped \in BOOLEAN

(* Nobody is on the way to read the queue. *)
Quiet == pc = "idle" /\ ~poll /\ ~irq /\ signalled = used_idx

(* The driver has failed to ask for an interrupt, or to answer one.  With   *)
(* the event index, the only way to fail is the interrupt between           *)
(* virtio.c:526 and 527, until the next index is published; by the flag, a  *)
(* read that finds nothing and leaves the flag as the handler set it, until *)
(* the next read.  A request of tx_poll may be dropped by the softirq of    *)
(* the receive side (net.c:95).                                            *)
Unasked == cut \/ muted \/ dropped

(* No returned entry is forgotten: when no interrupt is pending or due and  *)
(* no poll is queued or running, every entry has been read, wherever        *)
(* interrupts arrived, except in the three cases of Unasked.                *)
NothingForgotten == Quiet => Unread = 0 \/ Unasked

(* What the device returned is read in the end, which is what the event     *)
(* index, or the flag, is for, except in the three cases of Unasked.        *)
UsedIsRead ==
    \A i \in Index :
        (used_idx = i /\ last_used_idx # i) ~> (last_used_idx = i \/ Unasked)
=============================================================================
