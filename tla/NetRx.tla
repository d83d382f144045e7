------------------------------- MODULE NetRx -------------------------------
(***************************************************************************)
(* Receiving packets: the polls of the main thread (kernel/kthread.c) and   *)
(* the three polls of the network driver that pass the receive buffers      *)
(* round (module/net/virtio/virtio_net.c).  rx_poll reads the queue into    *)
(* recv_list, vn_poll gives that list to inet and frees the buffers, and    *)
(* fill_rx_poll offers free buffers to the card again.  rx_poll and vn_poll *)
(* share one list; fill_rx_poll is on the list of the highest level, which  *)
(* is walked first.                                                        *)
(*                                                                         *)
(* Buffers are counted.  The card is external; it interrupts after every    *)
(* packet, as it may, since asking it not to is only advice.               *)
(***************************************************************************)
EXTENDS Integers, FiniteSets

CONSTANTS
    Buf,      \* BUF_PACKETS
    Slack     \* 4: virtio_to_queue reads the queue first when more are in use

ASSUME BufAssumption ==
    Buf \in Nat \ {0} /\ Buf % 4 = 0 /\ Slack \in Nat

HIGH   == 1       \* POLL_LVL_HIGH
NET_RX == 2       \* POLL_LVL_NET_RX; the levels between have no polls here
NR_POLL_LVL == 2

Pollers == {"rx", "vn", "fill"}
NULL    == "null"

VARIABLES
    polls,   \* thread_struct.polls: the head of each level
    pnext,   \* poll_cb.pnext
    heads,   \* can_main_run: the heads it took, and how far each was walked
    lvl,     \* the level it walks
    cur,     \* phead of do_poll_head between its two accesses to pnext
    pc,      \* "top", "walk", "unlink", or where in a handler the main thread is
    ring,    \* buffers the card has
    used,    \* buffers it filled that were not read
    recv,    \* recv_list
    batch,   \* poll_list of poll_callback
    free,    \* free_list
    topost,  \* buffers virtio_net_refill_rx_queue has still to queue
    in_rx,   \* the driver's count of the buffers in the queue
    irq,     \* the card's interrupt is pending
    vncut,   \* history: do_poll_head cut polls off the list ("off"), vn_poll was
             \* added again ("late"), recv_list was taken since ("no")
    starved  \* history: while vn_poll was "off" or "late" a refill found
             \* free_list empty, and no buffer was queued since

vars == <<polls, pnext, heads, lvl, cur, pc, ring, used, recv, batch, free, topost, in_rx, irq,
          vncut, starved>>

pollvars == <<polls, pnext, heads, lvl, cur>>

-----------------------------------------------------------------------------
(* kernel/kthread.c *)

(* Mutant: a poll that is added takes the place of the head. *)
thread_add_poll_over(p, l) ==
    /\ pnext' = [pnext EXCEPT ![p] = NULL]
    /\ polls' = [polls EXCEPT ![l] = p]

(* thread_add_poll: in front of the list, unless it is in front already. *)
thread_add_poll(p, l) ==
    /\ pnext' = IF polls[l] = p THEN pnext ELSE [pnext EXCEPT ![p] = polls[l]]
    /\ polls' = [polls EXCEPT ![l] = p]

(* can_main_run takes all lists at once. *)
can_main_run ==
    /\ pc = "top"
    /\ pc' = "walk"
    /\ heads' = polls
    /\ polls' = [l \in 1 .. NR_POLL_LVL |-> NULL]
    /\ lvl' = 1
    /\ UNCHANGED <<pnext, cur, ring, used, recv, batch, free, topost, in_rx, irq, vncut, starved>>

(* do_poll_head looks where the list goes on after the next poll, or the    *)
(* list of this level is at its end.                                       *)
do_poll_head ==
    /\ pc = "walk"
    /\ IF heads[lvl] # NULL
       THEN /\ pc' = "unlink"
            /\ cur' = heads[lvl]
            /\ heads' = [heads EXCEPT ![lvl] = pnext[heads[lvl]]]
            /\ UNCHANGED lvl
       ELSE /\ pc' = IF lvl = NR_POLL_LVL THEN "top" ELSE "walk"
            /\ lvl' = IF lvl = NR_POLL_LVL THEN 1 ELSE lvl + 1
            /\ UNCHANGED <<heads, cur>>
    /\ UNCHANGED <<polls, pnext, ring, used, recv, batch, free, topost, in_rx, irq, vncut, starved>>

(* It clears the link ("cancel loop") and calls the handler.  An interrupt  *)
(* in between has added the poll again if the link is another one by now:   *)
(* what was on the list behind it is cut off.                              *)
CancelLoop ==
    /\ pc = "unlink"
    /\ pc' = cur
    /\ pnext' = [pnext EXCEPT ![cur] = NULL]
    /\ cur' = NULL
    /\ vncut' = IF pnext[cur] \in {heads[lvl], NULL} THEN vncut ELSE "off"
    /\ UNCHANGED <<polls, heads, lvl, ring, used, recv, batch, free, topost, in_rx, irq, starved>>

-----------------------------------------------------------------------------
(* The card and its interrupt *)

Receive ==
    /\ ring > 0
    /\ ring' = ring - 1 /\ used' = used + 1
    /\ irq' = TRUE
    /\ UNCHANGED <<pollvars, pc, recv, batch, free, topost, in_rx, vncut, starved>>

(* irq_handler_receive raises the softirq, whose rx_callback adds rx_poll.  *)
rx_callback ==
    /\ irq
    /\ irq' = FALSE
    /\ thread_add_poll("rx", NET_RX)
    /\ UNCHANGED <<heads, lvl, cur, pc, ring, used, recv, batch, free, topost, in_rx, vncut,
                   starved>>

-----------------------------------------------------------------------------
(* The handlers *)

(* Mutant: the buffer that was read is still counted. *)
rx_queue_callback_counted ==
    /\ used' = used - 1
    /\ recv' = recv + 1
    /\ thread_add_poll("vn", NET_RX)
    /\ vncut' = IF vncut = "off" THEN "late" ELSE vncut
    /\ UNCHANGED in_rx

(* One round of virtio_read_queue: rx_queue_callback puts the packet on     *)
(* recv_list and adds vn_poll.                                             *)
rx_queue_callback ==
    /\ used' = used - 1
    /\ recv' = recv + 1
    /\ thread_add_poll("vn", NET_RX)
    /\ vncut' = IF vncut = "off" THEN "late" ELSE vncut
    /\ in_rx' = in_rx - 1

(* Mutant: the comparison is the wrong way round. *)
NeedsRefill_swapped == in_rx > Buf \div 4

NeedsRefill == in_rx < Buf \div 4

rx_poll_callback ==
    /\ pc = "rx"
    /\ IF used > 0
       THEN rx_queue_callback /\ UNCHANGED pc
       ELSE /\ pc' = "walk"
            /\ IF NeedsRefill THEN thread_add_poll("fill", HIGH)
                              ELSE UNCHANGED <<polls, pnext>>
            /\ UNCHANGED <<used, recv, in_rx, vncut>>
    /\ UNCHANGED <<heads, lvl, cur, ring, batch, free, topost, irq, starved>>

(* poll_callback takes recv_list, *)
TakeRecv ==
    /\ pc = "vn"
    /\ pc' = "give"
    /\ batch' = recv
    /\ recv' = 0
    /\ vncut' = "no"
    /\ UNCHANGED <<pollvars, ring, used, free, topost, in_rx, irq, starved>>

(* gives each packet to inet and frees its buffer. *)
GiveToInet ==
    /\ pc = "give"
    /\ IF batch > 0
       THEN batch' = batch - 1 /\ free' = free + 1 /\ UNCHANGED pc
       ELSE pc' = "walk" /\ UNCHANGED <<batch, free>>
    /\ UNCHANGED <<pollvars, ring, used, recv, topost, in_rx, irq, vncut, starved>>

(* Mutant: free_list is not asked whether it is empty. *)
RefillCount_all == Buf \div 2 - in_rx

(* How many buffers virtio_net_refill_rx_queue takes. *)
RefillCount ==
    LET max == Buf \div 2 - in_rx
    IN  IF free < max THEN free ELSE max

(* It takes them off free_list, *)
TakeFree ==
    /\ pc = "fill"
    /\ pc' = "post"
    /\ topost' = RefillCount
    /\ free' = free - RefillCount
    /\ starved' = (starved \/ (free = 0 /\ vncut # "no"))
    /\ UNCHANGED <<pollvars, ring, used, recv, batch, in_rx, irq, vncut>>

Post ==
    /\ topost' = topost - 1
    /\ ring' = ring + 1
    /\ in_rx' = in_rx + 1
    /\ starved' = FALSE

(* and queues each, *)
PostNext ==
    /\ pc = "post"
    /\ IF topost = 0
       THEN pc' = "walk" /\ UNCHANGED <<topost, ring, in_rx, starved>>
       ELSE IF ring + used > Slack
       THEN pc' = "postread" /\ UNCHANGED <<topost, ring, in_rx, starved>>
       ELSE Post /\ UNCHANGED pc
    /\ UNCHANGED <<pollvars, used, recv, batch, free, irq, vncut>>

(* for which virtio_to_queue may read the queue first. *)
PostRead ==
    /\ pc = "postread"
    /\ IF used > 0
       THEN rx_queue_callback /\ UNCHANGED <<pc, ring, topost, starved>>
       ELSE Post /\ pc' = "post" /\ UNCHANGED <<polls, pnext, used, recv, vncut>>
    /\ UNCHANGED <<heads, lvl, cur, batch, free, irq>>

-----------------------------------------------------------------------------
(* After init_virtio_net, which fills the queue for the first time. *)
Init ==
    /\ polls = [l \in 1 .. NR_POLL_LVL |-> NULL]
    /\ pnext = [p \in Pollers |-> NULL]
    /\ heads = [l \in 1 .. NR_POLL_LVL |-> NULL]
    /\ lvl = 1 /\ cur = NULL /\ pc = "top" /\ vncut = "no" /\ starved = FALSE
    /\ ring = Buf \div 2 /\ in_rx = Buf \div 2
    /\ free = Buf - Buf \div 2
    /\ used = 0 /\ recv = 0 /\ batch = 0 /\ topost = 0
    /\ irq = FALSE

MainStep ==
    \/ can_main_run \/ do_poll_head \/ CancelLoop
    \/ rx_poll_callback \/ TakeRecv \/ GiveToInet
    \/ TakeFree \/ PostNext \/ PostRead

Next == Receive \/ rx_callback \/ MainStep

Spec == Init /\ [][Next]_vars

(* The main thread runs, and an interrupt that is pending is taken before   *)
(* it has gone round its loop for ever.  No packet need come.               *)
FairSpec == Spec /\ WF_vars(MainStep) /\ SF_vars(rx_callback)

-----------------------------------------------------------------------------
(* Properties *)

TypeOK ==
    /\ polls \in [1 .. NR_POLL_LVL -> Pollers \cup {NULL}]
    /\ heads \in [1 .. NR_POLL_LVL -> Pollers \cup {NULL}]
    /\ pnext \in [Pollers -> Pollers \cup {NULL}]
    /\ lvl \in 1 .. NR_POLL_LVL
    /\ cur \in Pollers \cup {NULL}
    /\ pc \in Pollers \cup {"top", "walk", "unlink", "give", "post", "postread"}
    /\ {ring, used, recv, batch, free, topost, in_rx} \subseteq 0 .. Buf
    /\ irq \in BOOLEAN /\ starved \in BOOLEAN
    /\ vncut \in {"no", "off", "late"}

(* No buffer is lost or used twice, and in_rx counts the ones in the queue, *)
(* of which there are never more than BUF_PACKETS / 2.                      *)
BuffersConserved ==
    /\ ring + used + recv + batch + free + topost = Buf
    /\ in_rx = ring + used /\ in_rx <= Buf \div 2

(* A received packet is given to inet, though rx_poll and vn_poll are added *)
(* again, by the interrupt and by each other, to a list that is being       *)
(* walked.  The only way to lose vn_poll while recv_list holds packets is   *)
(* an interrupt between the read and the store of kthread.c:372-373, which  *)
(* puts rx_poll in front of it for the store to cut off; the packets then   *)
(* wait for another one to be received.                                    *)
Delivered == (recv > 0) ~> (recv = 0 \/ vncut = "off")

(* The card is not left without buffers for good, though a refill may find  *)
(* free_list empty and is asked for only when a packet was read.  The only  *)
(* exception follows from the same interrupt: while vn_poll is late, all    *)
(* buffers may gather on recv_list, the last refill finds free_list empty,  *)
(* and with no buffer in the queue nothing asks for another.               *)
Refilled == (ring = 0) ~> (ring > 0 \/ starved)
=============================================================================
