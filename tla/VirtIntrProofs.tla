--------------------------- MODULE VirtIntrProofs ---------------------------
(***************************************************************************)
(* What TLAPS proves of VirtIntr, for every size of the queue and range of  *)
(* the indices.                                                            *)
(*                                                                         *)
(* NothingForgotten is not inductive: the state from which the device       *)
(* returns an entry and does not interrupt has to be excluded.  That state  *)
(* is described by how far the device is past the next entry and past its   *)
(* last decision.                                                          *)
(***************************************************************************)
EXTENDS VirtIntr, TLAPS

(* How far index a is ahead of index b. *)
Ahead(a, b) == (a - b) % Word

(* The device never is a whole ring ahead. *)
RingInv == Ahead(used_idx, last_used_idx) < Num /\ Ahead(used_idx, signalled) < Num

(* The index published is the one of the next entry, except inside          *)
(* virtio_from_queue, unless an interrupt kept it from being published.     *)
EventInv ==
    /\ event_idx /\ pc \in {"idle", "read"} => used_event = last_used_idx \/ cut
    /\ event_idx /\ pc = "event" => ~no_interrupt \/ cut

(* When nobody is on the way to read the queue, the device has decided      *)
(* about no unread entry, and its next decision will be an interrupt.       *)
Asked ==
    pc = "idle" /\ ~poll /\ ~irq /\ ~Unasked =>
        /\ Ahead(used_idx, last_used_idx) <= Ahead(used_idx, signalled)
        /\ ~event_idx => ~no_interrupt

Inv == TypeOK /\ RingInv /\ EventInv /\ Asked

-----------------------------------------------------------------------------
(* The distance of two indices, by cases. *)
LEMMA AheadValue ==
    ASSUME NEW a \in Index, NEW b \in Index
    PROVE  /\ Ahead(a, b) = IF a >= b THEN a - b ELSE a - b + Word
           /\ Ahead(a, b) \in Index
  BY NumAssumption DEF Ahead, Index

(* The next index is an index, and one further ahead, short of a turn.      *)
LEMMA IncAhead ==
    ASSUME NEW a \in Index, NEW b \in Index, Ahead(a, b) < Word - 1
    PROVE  Inc(a) \in Index /\ Ahead(Inc(a), b) = Ahead(a, b) + 1
  <1>1. Inc(a) = IF a = Word - 1 THEN 0 ELSE a + 1
    BY NumAssumption DEF Inc, Index
  <1>2. Inc(a) \in Index
    BY <1>1, NumAssumption DEF Index
  <1>3. Ahead(a, b) = IF a >= b THEN a - b ELSE a - b + Word
    BY AheadValue
  <1>4. Ahead(Inc(a), b) = IF Inc(a) >= b THEN Inc(a) - b ELSE Inc(a) - b + Word
    BY <1>2, AheadValue
  <1> QED
    BY <1>1, <1>2, <1>3, <1>4, NumAssumption DEF Index

(* Reading one entry brings the driver one nearer to the device. *)
LEMMA IncBehind ==
    ASSUME NEW a \in Index, NEW b \in Index, Ahead(a, b) > 0
    PROVE  Inc(b) \in Index /\ Ahead(a, Inc(b)) = Ahead(a, b) - 1
  <1>1. Inc(b) = IF b = Word - 1 THEN 0 ELSE b + 1
    BY NumAssumption DEF Inc, Index
  <1>2. Inc(b) \in Index
    BY <1>1, NumAssumption DEF Index
  <1>3. Ahead(a, b) = IF a >= b THEN a - b ELSE a - b + Word
    BY AheadValue
  <1>4. Ahead(a, Inc(b)) = IF a >= Inc(b) THEN a - Inc(b) ELSE a - Inc(b) + Word
    BY <1>2, AheadValue
  <1> QED
    BY <1>1, <1>2, <1>3, <1>4, NumAssumption DEF Index

(* The device's test for an interrupt, on an entry from the published index *)
(* on: it subtracts one more than the distance of the two indices.          *)
LEMMA AheadPast ==
    ASSUME NEW a \in Index, NEW b \in Index, Ahead(a, b) > 0
    PROVE  (a - b - 1) % Word = Ahead(a, b) - 1
  <1>1. a - b - 1 \in -Word .. Word - 1 /\ Word \in Nat \ {0}
    BY NumAssumption DEF Index
  <1>2. (a - b - 1) % Word = IF a - b - 1 >= 0 THEN a - b - 1 ELSE a - b - 1 + Word
    BY <1>1
  <1>3. Ahead(a, b) = IF a >= b THEN a - b ELSE a - b + Word
    BY AheadValue
  <1> QED
    BY <1>2, <1>3, NumAssumption DEF Index

(* Two indices are nowhere apart only if they are the same. *)
LEMMA AheadZero ==
    ASSUME NEW a \in Index, NEW b \in Index
    PROVE  Ahead(a, b) = 0 <=> a = b
  <1>1. Ahead(a, b) = IF a >= b THEN a - b ELSE a - b + Word
    BY AheadValue
  <1> QED
    BY <1>1, NumAssumption DEF Index

-----------------------------------------------------------------------------
(* A queue nobody used satisfies the invariant. *)
LEMMA InitInv == Init => Inv
  <1> SUFFICES ASSUME Init
               PROVE  Inv
    OBVIOUS
  <1>1. 0 \in Index /\ Num \in Nat /\ Num > 1
    BY NumAssumption DEF Index
  <1>2. TypeOK
    <2>1. /\ no_interrupt \in BOOLEAN /\ irq \in BOOLEAN /\ poll \in BOOLEAN
          /\ event_idx \in BOOLEAN /\ cut \in BOOLEAN /\ muted \in BOOLEAN /\ dropped \in BOOLEAN
      BY DEF Init
    <2> QED
      BY <1>1, <2>1 DEF Init, TypeOK
  <1>3. Ahead(0, 0) = 0
    BY <1>1, AheadZero
  <1>4. RingInv /\ Asked
    BY <1>1, <1>3 DEF Init, RingInv, Asked
  <1>5. EventInv
    BY DEF Init, EventInv
  <1> QED
    BY <1>2, <1>4, <1>5 DEF Inv

(* Every step keeps the types, with the event index or without, and         *)
(* wherever the interrupt arrives.                                         *)
LEMMA TypeNext == TypeOK /\ [Next]_vars => TypeOK'
  <1> SUFFICES ASSUME TypeOK, [Next]_vars
               PROVE  TypeOK'
    OBVIOUS
  <1>1. \A i \in Index : Inc(i) \in Index
    BY NumAssumption DEF Inc, Index
  <1>2. {used_idx', last_used_idx', used_event', signalled'} \subseteq Index
    BY <1>1 DEF TypeOK, Next, ReadStep, rx_poll_callback, ReadBeforeRefill, SendEnablesIntr,
       virtio_from_queue, virtio_queue_enable_intr, StoreUsedEvent, EventToStore,
       irq_handler_receive, PollDropped, DeviceUse, DeviceSignal, vars
  <1>3. pc' \in {"idle", "read", "enable", "event"}
    BY DEF TypeOK, Next, ReadStep, rx_poll_callback, ReadBeforeRefill, SendEnablesIntr,
       virtio_from_queue, virtio_queue_enable_intr, StoreUsedEvent,
       irq_handler_receive, PollDropped, DeviceUse, DeviceSignal, vars
  <1>4. no_interrupt' \in {no_interrupt, TRUE, FALSE} /\ poll' \in {poll, TRUE, FALSE}
    BY DEF Next, ReadStep, rx_poll_callback, ReadBeforeRefill, SendEnablesIntr,
       virtio_from_queue, virtio_queue_enable_intr, StoreUsedEvent,
       irq_handler_receive, PollDropped, DeviceUse, DeviceSignal, vars
  <1>notes. /\ event_idx' = event_idx /\ cut' \in BOOLEAN
         /\ dropped' \in {dropped, TRUE, FALSE}
         /\ muted' \in BOOLEAN
    BY DEF TypeOK, Next, ReadStep, rx_poll_callback, ReadBeforeRefill, SendEnablesIntr,
       virtio_from_queue, virtio_queue_enable_intr, StoreUsedEvent,
       irq_handler_receive, PollDropped, DeviceUse, DeviceSignal, vars, notes
  <1>kept. event_idx' \in BOOLEAN /\ cut' \in BOOLEAN /\ dropped' \in BOOLEAN /\ muted' \in BOOLEAN
    BY <1>notes DEF TypeOK
  <1>5. irq' \in BOOLEAN
    <2>1. CASE DeviceSignal
      BY <2>1 DEF DeviceSignal
    <2>2. CASE irq' \in {irq, FALSE}
      BY <2>2 DEF TypeOK
    <2> QED
      BY <2>1, <2>2 DEF Next, ReadStep, rx_poll_callback, ReadBeforeRefill, SendEnablesIntr,
       virtio_from_queue, virtio_queue_enable_intr, StoreUsedEvent,
       irq_handler_receive, PollDropped, DeviceUse, vars
  <1>6. no_interrupt' \in BOOLEAN /\ poll' \in BOOLEAN
    BY <1>4 DEF TypeOK
  <1> QED
    BY <1>2, <1>3, <1>kept, <1>5, <1>6 DEF TypeOK

(* Every step keeps the invariant, in either mode and wherever interrupts   *)
(* arrive.                                                                 *)
LEMMA NextInv ==
    ASSUME Inv, [Next]_vars
    PROVE  Inv'
  <1> USE DEF Inv
  <1>0. TypeOK'
    BY TypeNext
  <1>1. /\ used_idx \in Index /\ last_used_idx \in Index
        /\ used_event \in Index /\ signalled \in Index
        /\ Num \in Nat /\ Word \in Nat /\ Word >= 2 * Num /\ Num > 1
    BY NumAssumption DEF TypeOK, Index
  <1>nat. Ahead(used_idx, last_used_idx) \in Nat /\ Ahead(used_idx, signalled) \in Nat
    <2>1. Index \subseteq Nat
      BY DEF Index
    <2>2. Ahead(used_idx, last_used_idx) \in Index /\ Ahead(used_idx, signalled) \in Index
      BY <1>1, AheadValue
    <2> QED
      BY <2>1, <2>2
  <1>2. CASE rx_poll_callback
    BY <1>0, <1>2 DEF rx_poll_callback, RingInv, EventInv, Asked
  <1>3. CASE ReadBeforeRefill
    BY <1>0, <1>3 DEF ReadBeforeRefill, RingInv, EventInv, Asked
  <1>4. CASE SendEnablesIntr
    <2>1. /\ pc' = pc /\ ~no_interrupt'
          /\ UNCHANGED <<used_idx, last_used_idx, used_event, signalled, irq, poll, event_idx,
                         cut, muted, dropped>>
      BY <1>4 DEF SendEnablesIntr, notes
    <2>2. Unasked' <=> Unasked
      BY <2>1 DEF Unasked
    <2>3. RingInv' /\ EventInv'
      BY <2>1 DEF RingInv, EventInv
    <2>4. Asked'
      BY <2>1, <2>2 DEF Asked
    <2> QED
      BY <1>0, <2>3, <2>4
  <1>5. CASE virtio_from_queue
    <2>1. CASE Unread = 0
      <3>1. /\ pc = "read" /\ pc' = "idle" /\ muted' = (~event_idx /\ no_interrupt)
            /\ UNCHANGED <<used_idx, last_used_idx, no_interrupt, used_event, signalled, irq, poll,
                           cut, dropped, event_idx>>
        BY <1>5, <2>1 DEF virtio_from_queue
      <3>2. Ahead(used_idx, last_used_idx) = 0
        BY <2>1 DEF Unread, Ahead
      <3>3. Ahead(used_idx, signalled) \in Nat
        BY <1>1, AheadValue DEF Index
      <3>4. Ahead(used_idx', last_used_idx') <= Ahead(used_idx', signalled')
        BY <3>1, <3>2, <3>3
      <3>5. ~Unasked' /\ ~event_idx' => ~no_interrupt'
        BY <3>1 DEF Unasked
      <3>6. Asked'
        BY <3>4, <3>5 DEF Asked
      <3>7. RingInv' /\ EventInv'
        BY <3>1 DEF RingInv, EventInv
      <3> QED
        BY <1>0, <3>6, <3>7
    <2>2. CASE Unread # 0
      <3>1. /\ pc' = "enable" /\ last_used_idx' = Inc(last_used_idx)
            /\ UNCHANGED <<used_idx, signalled>>
        BY <1>5, <2>2 DEF virtio_from_queue
      <3>2. Ahead(used_idx, last_used_idx) \in Nat /\ Ahead(used_idx, last_used_idx) > 0
        BY <1>1, <2>2, AheadValue DEF Unread, Ahead, Index
      <3>3. Ahead(used_idx, last_used_idx') = Ahead(used_idx, last_used_idx) - 1
        BY <1>1, <3>1, <3>2, IncBehind
      <3>4. RingInv'
        BY <1>1, <3>1, <3>2, <3>3 DEF RingInv
      <3> QED
        BY <1>0, <3>1, <3>4 DEF EventInv, Asked
    <2> QED
      BY <2>1, <2>2
  <1>6. CASE virtio_queue_enable_intr
    BY <1>0, <1>6 DEF virtio_queue_enable_intr, RingInv, EventInv, Asked
  <1>7. CASE StoreUsedEvent
    <2>1. /\ pc = "event" /\ pc' = "read"
          /\ used_event' = IF no_interrupt THEN used_event ELSE last_used_idx
          /\ cut' = (cut /\ no_interrupt)
          /\ UNCHANGED <<used_idx, last_used_idx, signalled, event_idx>>
      BY <1>7 DEF StoreUsedEvent, EventToStore
    <2>2. CASE no_interrupt
      <3>1. event_idx => cut
        BY <2>1, <2>2 DEF EventInv
      <3> QED
        BY <1>0, <2>1, <2>2, <3>1 DEF RingInv, EventInv, Asked
    <2>3. CASE ~no_interrupt
      BY <1>0, <2>1, <2>3 DEF RingInv, EventInv, Asked
    <2> QED
      BY <2>2, <2>3
  <1>8. CASE irq_handler_receive
    <2>1. /\ poll' /\ cut' = (cut \/ (event_idx /\ pc = "event"))
          /\ UNCHANGED <<used_idx, last_used_idx, used_event, signalled, pc, event_idx>>
      BY <1>8 DEF irq_handler_receive
    <2>2. EventInv'
      BY <2>1 DEF EventInv
    <2> QED
      BY <1>0, <2>1, <2>2 DEF RingInv, Asked
  <1>9. CASE DeviceUse
    <2>1. /\ used_idx' = Inc(used_idx)
          /\ UNCHANGED <<last_used_idx, no_interrupt, used_event, signalled, irq, poll, pc,
                         event_idx, cut, muted, dropped>>
          /\ Ahead(used_idx, last_used_idx) < Num - 1
          /\ Ahead(used_idx, signalled) < Num - 1
      BY <1>9 DEF DeviceUse, Unread, Ahead, notes
    <2>2. /\ Ahead(used_idx, last_used_idx) \in Nat
          /\ Ahead(used_idx, signalled) \in Nat
      BY <1>nat
    <2>3. /\ Ahead(used_idx', last_used_idx) = Ahead(used_idx, last_used_idx) + 1
          /\ Ahead(used_idx', signalled) = Ahead(used_idx, signalled) + 1
      BY <1>1, <2>1, <2>2, IncAhead
    <2>4. RingInv'
      BY <1>1, <2>1, <2>2, <2>3 DEF RingInv
    <2>5. /\ Unasked' <=> Unasked
          /\ EventInv'
      BY <2>1 DEF Unasked, EventInv
    <2>6. Asked'
      <3> SUFFICES ASSUME pc = "idle", ~poll, ~irq, ~Unasked
                   PROVE  /\ Ahead(used_idx', last_used_idx) <= Ahead(used_idx', signalled)
                          /\ ~event_idx => ~no_interrupt
        BY <2>1, <2>5 DEF Asked
      <3> QED
        BY <2>2, <2>3 DEF Asked
    <2> QED
      BY <1>0, <2>4, <2>5, <2>6
  <1>10. CASE DeviceSignal
    <2>1. /\ signalled # used_idx /\ signalled' = used_idx
          /\ UNCHANGED <<used_idx, last_used_idx, no_interrupt, used_event, poll, pc,
                         event_idx, cut, muted, dropped>>
          /\ (irq \/ InterruptDue) => irq'
      BY <1>10 DEF DeviceSignal, notes
    <2>2. Ahead(used_idx, used_idx) = 0
      BY <1>1, AheadZero
    <2>3. RingInv'
      BY <1>1, <2>1, <2>2 DEF RingInv
    <2>4. /\ Unasked' <=> Unasked
          /\ EventInv'
      BY <2>1 DEF Unasked, EventInv
    <2>5. ASSUME pc = "idle", ~poll, ~irq, ~Unasked, Ahead(used_idx, last_used_idx) # 0
          PROVE  InterruptDue
      <3>1. CASE event_idx
        <4>1. used_event = last_used_idx
          BY <2>5, <3>1 DEF Unasked, EventInv
        <4>2. /\ Ahead(used_idx, used_event) \in Nat /\ Ahead(used_idx, signalled) \in Nat
              /\ Ahead(used_idx, used_event) > 0
          BY <1>nat, <2>5, <4>1
        <4>3. (used_idx - used_event - 1) % Word = Ahead(used_idx, used_event) - 1
          BY <1>1, <4>2, AheadPast
        <4>4. Ahead(used_idx, used_event) <= Ahead(used_idx, signalled)
          BY <2>5, <4>1 DEF Asked
        <4> QED
          BY <3>1, <4>2, <4>3, <4>4 DEF InterruptDue, Ahead
      <3>2. CASE ~event_idx
        BY <2>5, <3>2 DEF Asked, InterruptDue
      <3> QED
        BY <3>1, <3>2
    <2>6. Asked'
      <3> SUFFICES ASSUME pc' = "idle", ~poll', ~irq', ~Unasked'
                   PROVE  /\ Ahead(used_idx', last_used_idx') <= Ahead(used_idx', signalled')
                          /\ ~event_idx' => ~no_interrupt'
        BY DEF Asked
      <3>1. pc = "idle" /\ ~poll /\ ~irq /\ ~Unasked /\ ~InterruptDue
        BY <2>1, <2>4
      <3>2. Ahead(used_idx, last_used_idx) = 0
        BY <2>5, <3>1
      <3>3. ~event_idx' => ~no_interrupt'
        BY <2>1, <3>1 DEF Asked
      <3> QED
        BY <2>1, <2>2, <3>2, <3>3
    <2> QED
      BY <1>0, <2>3, <2>4, <2>6
  <1>11. CASE PollDropped
    <2>1. /\ dropped'
          /\ UNCHANGED <<used_idx, last_used_idx, no_interrupt, used_event, signalled, pc, cut,
                         event_idx>>
      BY <1>11 DEF PollDropped
    <2>2. Unasked'
      BY <2>1 DEF Unasked
    <2> QED
      BY <1>0, <2>1, <2>2 DEF RingInv, EventInv, Asked
  <1>12. CASE UNCHANGED vars
    <2>1. UNCHANGED <<used_idx, last_used_idx, no_interrupt, used_event, signalled, irq, poll, pc,
                      event_idx, cut, muted, dropped>>
      BY <1>12 DEF vars, notes
    <2>2. Unasked' <=> Unasked
      BY <2>1 DEF Unasked
    <2> QED
      BY <1>0, <2>1, <2>2 DEF RingInv, EventInv, Asked
  <1> QED
    BY <1>2, <1>3, <1>4, <1>5, <1>6, <1>7, <1>8, <1>9, <1>10, <1>11, <1>12 DEF Next, ReadStep

-----------------------------------------------------------------------------
(* The indices stay indices and the flags flags, in either mode. *)
THEOREM TypeCorrect == Spec => []TypeOK
  <1>1. Init => TypeOK
    BY InitInv DEF Inv
  <1> QED
    BY <1>1, TypeNext, PTL DEF Spec

(* With the event index or without it, and wherever interrupts arrive, no   *)
(* entry is left unread when nobody is on the way to read it, except in the *)
(* three cases of Unasked: what irq_handler_receive, rx_poll_callback and   *)
(* virtio_from_queue together owe to whoever waits for a packet.            *)
THEOREM NothingIsForgotten == Spec => []NothingForgotten
  <1>1. Inv => NothingForgotten
    <2> SUFFICES ASSUME Inv, Quiet, ~Unasked
                 PROVE  Unread = 0
      BY DEF NothingForgotten
    <2>1. used_idx \in Index /\ last_used_idx \in Index
      BY DEF Inv, TypeOK
    <2>2. Ahead(used_idx, last_used_idx) <= Ahead(used_idx, signalled)
      BY DEF Quiet, Inv, Asked
    <2>3. Ahead(used_idx, signalled) = 0
      BY <2>1, AheadZero DEF Quiet
    <2>4. Ahead(used_idx, last_used_idx) \in Nat
      BY <2>1, AheadValue, NumAssumption DEF Index
    <2> QED
      BY <2>2, <2>3, <2>4 DEF Ahead, Unread
  <1>2. Inv /\ [Next]_vars => Inv'
    BY NextInv
  <1> QED
    BY <1>1, <1>2, InitInv, PTL DEF Spec
=============================================================================
