---------------------------- MODULE NetRxProofs ----------------------------
(***************************************************************************)
(* What TLAPS proves of NetRx, for every number of buffers that is a        *)
(* multiple of four and every Slack.  BuffersConserved is not inductive by  *)
(* itself: poll_callback and virtio_net_refill_rx_queue overwrite batch and *)
(* topost when they begin, which loses nothing only because both are used  *)
(* up whenever their handler is left, and a refill stays within the half of *)
(* the buffers only because what it has still to queue was counted in.     *)
(***************************************************************************)
EXTENDS NetRx, TLAPS

(* Outside its handler a local list is empty; what is in the queue and what *)
(* will be put there fit in half of the buffers; virtio_to_queue reads the  *)
(* queue only with a buffer in hand.                                       *)
HandlerInv ==
    /\ pc # "give" => batch = 0
    /\ pc \notin {"post", "postread"} => topost = 0
    /\ in_rx + topost <= Buf \div 2
    /\ pc = "postread" => topost > 0

(* TypeOK in two parts: the lists of polls, and the counts. *)
PollsOK ==
    /\ polls \in [1 .. NR_POLL_LVL -> Pollers \cup {NULL}]
    /\ heads \in [1 .. NR_POLL_LVL -> Pollers \cup {NULL}]
    /\ pnext \in [Pollers -> Pollers \cup {NULL}]
    /\ lvl \in 1 .. NR_POLL_LVL
    /\ cur \in Pollers \cup {NULL}
    /\ pc = "unlink" => cur \in Pollers
    /\ pc \in Pollers \cup {"top", "walk", "unlink", "give", "post", "postread"}
    /\ irq \in BOOLEAN /\ starved \in BOOLEAN
    /\ vncut \in {"no", "off", "late"}

CountsOK ==
    /\ ring \in Nat /\ used \in Nat /\ recv \in Nat /\ batch \in Nat
    /\ free \in Nat /\ topost \in Nat /\ in_rx \in Nat

Inv == PollsOK /\ CountsOK /\ BuffersConserved /\ HandlerInv

-----------------------------------------------------------------------------
(* Half of the buffers is a number of buffers. *)
LEMMA HalfBuf == Buf \in Nat /\ Buf \div 2 \in Nat /\ Buf \div 2 <= Buf
  BY BufAssumption

(* thread_add_poll keeps the heads and the links well typed, on whichever   *)
(* list and however often the poll is there already.                       *)
LEMMA AddPollType ==
    ASSUME PollsOK, NEW p \in Pollers, NEW l \in 1 .. NR_POLL_LVL, thread_add_poll(p, l)
    PROVE  /\ polls' \in [1 .. NR_POLL_LVL -> Pollers \cup {NULL}]
           /\ pnext' \in [Pollers -> Pollers \cup {NULL}]
  BY DEF PollsOK, thread_add_poll

(* What init_virtio_net leaves satisfies the invariant. *)
LEMMA InitInv == Init => Inv
  <1> SUFFICES ASSUME Init
               PROVE  Inv
    OBVIOUS
  <1>1. PollsOK
    <2>1. irq \in BOOLEAN /\ starved \in BOOLEAN
      BY DEF Init
    <2>2. /\ pc \in Pollers \cup {"top", "walk", "unlink", "give", "post", "postread"}
          /\ pc # "unlink" /\ cur \in Pollers \cup {NULL} /\ vncut \in {"no", "off", "late"}
      BY DEF Init
    <2>3. /\ polls \in [1 .. NR_POLL_LVL -> Pollers \cup {NULL}]
          /\ heads \in [1 .. NR_POLL_LVL -> Pollers \cup {NULL}]
          /\ pnext \in [Pollers -> Pollers \cup {NULL}]
      BY DEF Init
    <2>4. lvl \in 1 .. NR_POLL_LVL
      BY DEF Init, NR_POLL_LVL
    <2> QED
      BY <2>1, <2>2, <2>3, <2>4 DEF PollsOK
  <1>2. CountsOK /\ BuffersConserved /\ HandlerInv
    BY HalfBuf DEF Init, CountsOK, BuffersConserved, HandlerInv
  <1> QED
    BY <1>1, <1>2 DEF Inv

(* A round of virtio_read_queue keeps the invariant wherever it is called   *)
(* from: rx_poll_callback, or virtio_to_queue inside a refill.              *)
LEMMA ReadOne ==
    ASSUME Inv, used > 0, rx_queue_callback,
           UNCHANGED <<pc, heads, lvl, cur, ring, batch, free, topost, irq, starved>>
    PROVE  Inv'
  <1>1. thread_add_poll("vn", NET_RX) /\ "vn" \in Pollers /\ NET_RX \in 1 .. NR_POLL_LVL
    BY DEF rx_queue_callback, Pollers, NET_RX, NR_POLL_LVL
  <1>2. /\ polls' \in [1 .. NR_POLL_LVL -> Pollers \cup {NULL}]
        /\ pnext' \in [Pollers -> Pollers \cup {NULL}]
    BY <1>1, AddPollType DEF Inv
  <1>3. PollsOK'
    BY <1>2 DEF Inv, PollsOK, rx_queue_callback
  <1>4. used' = used - 1 /\ recv' = recv + 1 /\ in_rx' = in_rx - 1
    BY DEF rx_queue_callback
  <1>5. CountsOK' /\ BuffersConserved' /\ HandlerInv'
    BY <1>4, HalfBuf DEF Inv, CountsOK, BuffersConserved, HandlerInv
  <1> QED
    BY <1>3, <1>5 DEF Inv

(* Every step keeps the invariant: one case per action. *)
LEMMA NextInv == Inv /\ [Next]_vars => Inv'
  <1> SUFFICES ASSUME Inv, [Next]_vars
               PROVE  Inv'
    OBVIOUS
  <1> USE HalfBuf DEF Inv, PollsOK, CountsOK, BuffersConserved, HandlerInv
  <1>1. CASE can_main_run
    BY <1>1 DEF can_main_run, NR_POLL_LVL
  <1>2. CASE do_poll_head
    <2>1. CASE heads[lvl] # NULL
      <3>1. heads[lvl] \in Pollers
        BY <2>1
      <3> QED
        BY <1>2, <2>1, <3>1 DEF do_poll_head
    <2>2. CASE heads[lvl] = NULL
      BY <1>2, <2>2 DEF do_poll_head, NR_POLL_LVL
    <2> QED
      BY <2>1, <2>2
  <1>12. CASE CancelLoop
    <2>1. cur \in Pollers /\ pc' = cur
      BY <1>12 DEF CancelLoop
    <2>2. pnext' \in [Pollers -> Pollers \cup {NULL}]
      BY <1>12 DEF CancelLoop
    <2>3. PollsOK'
      BY <1>12, <2>1, <2>2 DEF CancelLoop, Pollers
    <2> QED
      BY <1>12, <2>1, <2>3 DEF CancelLoop, Pollers
  <1>3. CASE Receive
    BY <1>3 DEF Receive, pollvars
  <1>4. CASE rx_callback
    <2>1. "rx" \in Pollers /\ NET_RX \in 1 .. NR_POLL_LVL
      BY DEF Pollers, NET_RX, NR_POLL_LVL
    <2>2. /\ polls' \in [1 .. NR_POLL_LVL -> Pollers \cup {NULL}]
          /\ pnext' \in [Pollers -> Pollers \cup {NULL}]
      BY <1>4, <2>1, AddPollType DEF rx_callback
    <2>3. irq' \in BOOLEAN
      BY <1>4 DEF rx_callback
    <2>4. UNCHANGED <<heads, lvl, cur, pc, ring, used, recv, batch, free, topost, in_rx, vncut,
                      starved>>
      BY <1>4 DEF rx_callback
    <2>5. PollsOK'
      BY <2>2, <2>3, <2>4
    <2> QED
      BY <2>4, <2>5
  <1>5. CASE rx_poll_callback
    <2>1. CASE used > 0
      <3>1. UNCHANGED <<pc, heads, lvl, cur, ring, batch, free, topost, irq, starved>> /\ rx_queue_callback
        BY <1>5, <2>1 DEF rx_poll_callback
      <3> QED
        BY <2>1, <3>1, ReadOne
    <2>2. CASE ~(used > 0) /\ NeedsRefill
      <3>1. "fill" \in Pollers /\ HIGH \in 1 .. NR_POLL_LVL
        BY DEF Pollers, HIGH, NR_POLL_LVL
      <3> QED
        BY <1>5, <2>2, <3>1, AddPollType DEF rx_poll_callback
    <2>3. CASE ~(used > 0) /\ ~NeedsRefill
      BY <1>5, <2>3 DEF rx_poll_callback
    <2> QED
      BY <2>1, <2>2, <2>3
  <1>6. CASE TakeRecv
    BY <1>6 DEF TakeRecv, pollvars
  <1>7. CASE GiveToInet
    BY <1>7 DEF GiveToInet, pollvars
  <1>8. CASE TakeFree
    <2>1. RefillCount \in 0 .. free /\ in_rx + RefillCount <= Buf \div 2
      BY DEF RefillCount
    <2> QED
      BY <1>8, <2>1 DEF TakeFree, pollvars, Pollers
  <1>9. CASE PostNext
    <2>1. CASE topost = 0
      BY <1>9, <2>1 DEF PostNext, pollvars
    <2>2. CASE topost # 0 /\ ring + used > Slack
      <3>1. pc' = "postread" /\ UNCHANGED <<polls, heads, pnext, lvl, cur, ring, used, recv,
                                            batch, free, topost, in_rx, irq, vncut, starved>>
        BY <1>9, <2>2 DEF PostNext, pollvars
      <3>2. PollsOK'
        BY <3>1
      <3> QED
        BY <1>9, <2>2, <3>1, <3>2 DEF PostNext
    <2>3. CASE topost # 0 /\ ~(ring + used > Slack)
      <3>1. starved' \in BOOLEAN /\ UNCHANGED irq
        BY <1>9, <2>3 DEF PostNext, Post
      <3>2. UNCHANGED <<polls, heads, pnext, lvl, cur, pc, vncut>>
        BY <1>9, <2>3 DEF PostNext, pollvars
      <3>3. PollsOK'
        BY <3>1, <3>2
      <3> QED
        BY <1>9, <2>3, <3>2, <3>3 DEF PostNext, Post
    <2> QED
      BY <2>1, <2>2, <2>3
  <1>10. CASE PostRead
    <2>1. CASE used > 0
      <3>1. UNCHANGED <<pc, heads, lvl, cur, ring, batch, free, topost, irq, starved>> /\ rx_queue_callback
        BY <1>10, <2>1 DEF PostRead
      <3> QED
        BY <2>1, <3>1, ReadOne
    <2>2. CASE ~(used > 0)
      <3>1. starved' \in BOOLEAN /\ UNCHANGED irq
        BY <1>10, <2>2 DEF PostRead, Post
      <3>2. pc' = "post" /\ UNCHANGED <<polls, heads, pnext, lvl, cur, vncut>>
        BY <1>10, <2>2 DEF PostRead
      <3>3. PollsOK'
        BY <3>1, <3>2
      <3> QED
        BY <1>10, <2>2, <3>2, <3>3 DEF PostRead, Post
    <2> QED
      BY <2>1, <2>2
  <1>11. CASE UNCHANGED vars
    BY <1>11 DEF vars
  <1> QED
    BY <1>1, <1>2, <1>3, <1>4, <1>5, <1>6, <1>7, <1>8, <1>9, <1>10, <1>11, <1>12
    DEF Next, MainStep

(* Every count of buffers stays between none and BUF_PACKETS, and the polls *)
(* and their links are polls of this driver or NULL.                       *)
THEOREM TypeCorrect == Spec => []TypeOK
  <1>1. Inv => TypeOK
    BY HalfBuf DEF Inv, PollsOK, CountsOK, BuffersConserved, TypeOK
  <1> QED
    BY <1>1, InitInv, NextInv, PTL DEF Spec

(* No buffer is lost or used twice by the three polls, however interrupts   *)
(* and virtio_to_queue interleave with them, and in_rx is exact.            *)
THEOREM NoBufferLost == Spec => []BuffersConserved
  <1>1. Inv => BuffersConserved
    BY DEF Inv
  <1> QED
    BY <1>1, InitInv, NextInv, PTL DEF Spec
=============================================================================
