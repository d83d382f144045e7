---------------------------- MODULE NetTxProofs ----------------------------
(***************************************************************************)
(* What TLAPS proves of NetTx, for every set of pbufs, every size of the    *)
(* queue and every bound of the loops in the softirqs: that references are  *)
(* exact, that the transmit queue implements VirtIntr, and, from that and   *)
(* the theorem about VirtIntr, that no packet the card has sent is forgotten.*)
(***************************************************************************)
EXTENDS NetTx, FiniteSetTheorems, SequenceTheorems, TLAPS

-----------------------------------------------------------------------------
(* References *)

(* A packet is being queued exactly while virtio_net_send_packets runs, and *)
(* one was taken exactly between the two halves of virtio_from_queue.       *)
CallInv ==
    /\ avail \in Seq(Packets) /\ used \in Seq(Packets)
    /\ sending \in Packets \cup {NoPacket} /\ taken \in Packets \cup {NoPacket}
    /\ pc \in {"idle", "queue", "read", "enable", "event"}
    /\ pc = "idle" => sending = NoPacket
    /\ pc = "queue" => sending # NoPacket
    /\ taken # NoPacket <=> pc \in {"enable", "event"}

CountInv ==
    /\ own \in [Pbufs -> BOOLEAN]
    /\ ref \in [Pbufs -> Int] /\ refused \in [Pbufs -> Nat]

RefInv == CallInv /\ CountInv /\ RefsExact

(* The softirqs: one that ran a round has queued tx_poll. *)
SoftInv ==
    /\ loop \in Nat
    /\ mask = {} => loop = 0
    /\ "tx" \in mask /\ loop > 0 => poll
    /\ poll \in BOOLEAN /\ dropped \in BOOLEAN

(* The indices say how many packets wait to be read. *)
UnreadInv ==
    /\ used_idx \in 0 .. Word - 1 /\ last_used_idx \in 0 .. Word - 1
    /\ used \in Seq(Packets) /\ Len(used) < Num
    /\ (used_idx - last_used_idx) % Word = Len(used)

-----------------------------------------------------------------------------
(* How often a pbuf is in a queue *)

(* The places of pbuf p in a queue. *)
Places(seq, p) == {i \in DOMAIN seq : seq[i].p = p}

(* They are finitely many, and counted. *)
LEMMA PlacesFinite ==
    ASSUME NEW seq \in Seq(Packets), NEW p
    PROVE  IsFiniteSet(Places(seq, p)) /\ In(seq, p) = Cardinality(Places(seq, p)) /\ In(seq, p) \in Nat
  <1>1. DOMAIN seq = 1 .. Len(seq) /\ Len(seq) \in Nat
    OBVIOUS
  <1>2. IsFiniteSet(1 .. Len(seq))
    BY <1>1, FS_Interval
  <1>3. Places(seq, p) \in SUBSET (1 .. Len(seq))
    BY <1>1 DEF Places
  <1>4. IsFiniteSet(Places(seq, p))
    BY <1>2, <1>3, FS_Subset
  <1>5. In(seq, p) = Cardinality(Places(seq, p))
    BY DEF In, Places
  <1> QED
    BY <1>4, <1>5, FS_CardinalityType

(* Queueing a packet adds one place of its pbuf. *)
LEMMA InAppend ==
    ASSUME NEW seq \in Seq(Packets), NEW x \in Packets, NEW p
    PROVE  In(Append(seq, x), p) = In(seq, p) + One(x.p = p)
  <1>1. /\ Append(seq, x) \in Seq(Packets) /\ Len(seq) \in Nat
        /\ Len(Append(seq, x)) = Len(seq) + 1
        /\ \A i \in 1 .. Len(seq) : Append(seq, x)[i] = seq[i]
        /\ Append(seq, x)[Len(seq) + 1] = x
    OBVIOUS
  <1>2. DOMAIN Append(seq, x) = 1 .. Len(seq) + 1 /\ DOMAIN seq = 1 .. Len(seq)
    BY <1>1
  <1>3. /\ In(Append(seq, x), p) = Cardinality(Places(Append(seq, x), p))
        /\ In(seq, p) = Cardinality(Places(seq, p)) /\ IsFiniteSet(Places(seq, p))
        /\ In(seq, p) \in Nat
    BY <1>1, PlacesFinite
  <1>4. CASE x.p = p
    <2>1. Places(Append(seq, x), p) = Places(seq, p) \cup {Len(seq) + 1}
      BY <1>1, <1>2, <1>4 DEF Places
    <2>2. Len(seq) + 1 \notin Places(seq, p)
      BY <1>1, <1>2 DEF Places
    <2>3. Cardinality(Places(seq, p) \cup {Len(seq) + 1}) = Cardinality(Places(seq, p)) + 1
      BY <1>3, <2>2, FS_AddElement
    <2> QED
      BY <1>4, <1>3, <2>1, <2>3 DEF One
  <1>5. CASE x.p # p
    <2>1. Places(Append(seq, x), p) = Places(seq, p)
      BY <1>1, <1>2, <1>5 DEF Places
    <2> QED
      BY <1>5, <1>3, <2>1 DEF One
  <1> QED
    BY <1>4, <1>5

(* A queue from which place i was taken has one place less of the pbuf that *)
(* was there, and as many of the others.                                   *)
LEMMA InWithout ==
    ASSUME NEW seq \in Seq(Packets), NEW i \in 1 .. Len(seq), NEW rest \in Seq(Packets), NEW p,
           Len(rest) = Len(seq) - 1,
           \A j \in 1 .. Len(rest) : rest[j] = IF j < i THEN seq[j] ELSE seq[j + 1]
    PROVE  In(rest, p) = In(seq, p) - One(seq[i].p = p)
  <1> DEFINE f == [j \in Places(rest, p) |-> IF j < i THEN j ELSE j + 1]
             T == Places(seq, p) \ {i}
  <1>1. /\ DOMAIN seq = 1 .. Len(seq) /\ DOMAIN rest = 1 .. Len(rest)
        /\ Len(seq) \in Nat /\ Len(rest) \in Nat
    OBVIOUS
  <1>2. \A j \in Places(rest, p) : f[j] \in T
    BY <1>1 DEF Places
  <1>3. \A j, k \in Places(rest, p) : f[j] = f[k] => j = k
    BY <1>1 DEF Places
  <1>4. \A k \in T : \E j \in Places(rest, p) : f[j] = k
    <2> SUFFICES ASSUME NEW k \in T
                 PROVE  \E j \in Places(rest, p) : f[j] = k
      OBVIOUS
    <2>1. CASE k < i
      <3>1. k \in Places(rest, p)
        BY <1>1, <2>1 DEF Places
      <3> QED
        BY <2>1, <3>1
    <2>2. CASE k > i
      <3>1. k - 1 \in Places(rest, p) /\ ~(k - 1 < i)
        BY <1>1, <2>2 DEF Places
      <3>2. f[k - 1] = k - 1 + 1
        BY <3>1
      <3>3. k \in Int
        BY <1>1 DEF Places
      <3> QED
        BY <3>1, <3>2, <3>3
    <2>3. k \in 1 .. Len(seq) /\ k # i
      BY <1>1 DEF Places
    <2> QED
      BY <2>1, <2>2, <2>3
  <1>5. f \in Bijection(Places(rest, p), T)
    BY <1>2, <1>3, <1>4 DEF Bijection, Injection, Surjection, IsInjective
  <1> HIDE DEF f, T
  <1>6. Cardinality(T) = In(rest, p)
    <2>1. ExistsBijection(Places(rest, p), T)
      BY <1>5 DEF ExistsBijection
    <2>2. IsFiniteSet(Places(rest, p)) /\ In(rest, p) = Cardinality(Places(rest, p))
      BY PlacesFinite
    <2> QED
      BY <2>1, <2>2, FS_Bijection
  <1>7. Cardinality(T) = In(seq, p) - One(seq[i].p = p)
    <2>1. i \in Places(seq, p) <=> seq[i].p = p
      BY <1>1 DEF Places
    <2>2. In(seq, p) = Cardinality(Places(seq, p)) /\ IsFiniteSet(Places(seq, p)) /\ In(seq, p) \in Nat
      BY PlacesFinite
    <2>3. Cardinality(T) = IF i \in Places(seq, p) THEN Cardinality(Places(seq, p)) - 1
                                                   ELSE Cardinality(Places(seq, p))
      BY <2>2, FS_RemoveElement DEF T
    <2> QED
      BY <2>1, <2>2, <2>3 DEF One
  <1> QED
    BY <1>6, <1>7

(* Reading the queue takes the place of its first packet. *)
LEMMA InTail ==
    ASSUME NEW seq \in Seq(Packets), seq # << >>, NEW p
    PROVE  /\ Head(seq) \in Packets /\ Tail(seq) \in Seq(Packets)
           /\ In(Tail(seq), p) = In(seq, p) - One(Head(seq).p = p)
  <1>1. /\ Head(seq) \in Packets /\ Tail(seq) \in Seq(Packets) /\ Head(seq) = seq[1]
        /\ Len(seq) \in Nat /\ 1 \in 1 .. Len(seq) /\ Len(Tail(seq)) = Len(seq) - 1
        /\ \A i \in 1 .. Len(Tail(seq)) : Tail(seq)[i] = seq[i + 1]
    <2>1. /\ Head(seq) \in Packets /\ Tail(seq) \in Seq(Packets)
          /\ Len(Tail(seq)) = Len(seq) - 1
          /\ \A i \in 1 .. Len(Tail(seq)) : Tail(seq)[i] = seq[i + 1]
      BY HeadTailProperties
    <2>2. Head(seq) = seq[1] /\ Len(seq) \in Nat /\ 1 \in 1 .. Len(seq)
      OBVIOUS
    <2> QED
      BY <2>1, <2>2
  <1>2. \A j \in 1 .. Len(Tail(seq)) : Tail(seq)[j] = IF j < 1 THEN seq[j] ELSE seq[j + 1]
    BY <1>1
  <1>3. In(Tail(seq), p) = In(seq, p) - One(seq[1].p = p)
    <2> DEFINE rest == Tail(seq)
    <2>1. /\ rest \in Seq(Packets) /\ Len(rest) = Len(seq) - 1
          /\ \A j \in 1 .. Len(rest) : rest[j] = IF j < 1 THEN seq[j] ELSE seq[j + 1]
      BY <1>1, <1>2
    <2> HIDE DEF rest
    <2>2. In(rest, p) = In(seq, p) - One(seq[1].p = p)
      BY <1>1, <2>1, InWithout
    <2> QED
      BY <2>2 DEF rest
  <1> QED
    BY <1>1, <1>3

(* The card may return any of the packets it has. *)
LEMMA InRemoved ==
    ASSUME NEW seq \in Seq(Packets), NEW i \in DOMAIN seq, NEW p
    PROVE  LET rest == SubSeq(seq, 1, i - 1) \o SubSeq(seq, i + 1, Len(seq))
           IN  rest \in Seq(Packets) /\ In(rest, p) = In(seq, p) - One(seq[i].p = p)
  <1> DEFINE a == SubSeq(seq, 1, i - 1)
             b == SubSeq(seq, i + 1, Len(seq))
             rest == a \o b
  <1>1. Len(seq) \in Nat /\ DOMAIN seq = 1 .. Len(seq) /\ i \in 1 .. Len(seq)
    OBVIOUS
  <1>2. /\ a \in Seq(Packets) /\ Len(a) = i - 1
        /\ \A j \in 1 .. i - 1 : a[j] = seq[j]
    BY <1>1, SubSeqProperties
  <1>3. /\ b \in Seq(Packets) /\ Len(b) = Len(seq) - i
        /\ \A j \in 1 .. Len(seq) - i : b[j] = seq[i + j]
    BY <1>1, SubSeqProperties
  <1> HIDE DEF a, b
  <1>4. /\ rest \in Seq(Packets) /\ Len(rest) = Len(a) + Len(b)
        /\ \A j \in 1 .. Len(a) + Len(b) : rest[j] = IF j <= Len(a) THEN a[j] ELSE b[j - Len(a)]
    BY <1>2, <1>3, ConcatProperties
  <1> HIDE DEF rest
  <1>5. Len(rest) = Len(seq) - 1
    BY <1>1, <1>2, <1>3, <1>4
  <1>6. ASSUME NEW j \in 1 .. Len(rest)
        PROVE  rest[j] = IF j < i THEN seq[j] ELSE seq[j + 1]
    <2>1. CASE j < i
      BY <1>1, <1>2, <1>3, <1>4, <1>5, <2>1
    <2>2. CASE ~(j < i)
      <3>1. rest[j] = b[j - (i - 1)] /\ j - (i - 1) \in 1 .. Len(seq) - i
        BY <1>1, <1>2, <1>3, <1>4, <1>5, <2>2
      <3>2. i + (j - (i - 1)) = j + 1
        BY <1>1, <1>5
      <3> QED
        BY <1>3, <2>2, <3>1, <3>2
    <2> QED
      BY <2>1, <2>2
  <1>7. In(rest, p) = In(seq, p) - One(seq[i].p = p)
    <2>1. \A j \in 1 .. Len(rest) : rest[j] = IF j < i THEN seq[j] ELSE seq[j + 1]
      BY <1>6
    <2>2. rest \in Seq(Packets)
      BY <1>4
    <2> QED
      BY <1>1, <1>5, <2>1, <2>2, InWithout
  <1> QED
    BY <1>4, <1>7 DEF rest, a, b

-----------------------------------------------------------------------------
(* References are exact *)

(* The marker for no packet is no packet, and names no pbuf. *)
LEMMA NoPacketFacts ==
    /\ NoPacket \notin Packets /\ NoPacket.p \notin Pbufs
    /\ \A x \in Packets : x.p \in Pbufs /\ x.n \in Lengths
  <1>1. NoPacket.p = "none" /\ "none" \notin Pbufs
    BY TxAssumption DEF NoPacket
  <1>2. \A x \in Packets : x.p \in Pbufs /\ x.n \in Lengths
    BY DEF Packets
  <1> QED
    BY <1>1, <1>2

(* No pbuf exists at first. *)
LEMMA RefInit == Init => RefInv
  <1> SUFFICES ASSUME Init
               PROVE  RefInv
    OBVIOUS
  <1>1. CallInv
    BY DEF Init, CallInv
  <1>2. CountInv
    BY DEF Init, CountInv
  <1>3. << >> \in Seq(Packets)
    OBVIOUS
  <1>4. \A p : In(<< >>, p) = 0
    BY FS_EmptySet DEF In
  <1>5. RefsExact
    BY <1>4, NoPacketFacts DEF Init, RefsExact, One
  <1> QED
    BY <1>1, <1>2, <1>5 DEF RefInv

(* One is 0 or 1. *)
LEMMA OneType == \A b : One(b) \in 0 .. 1
  BY DEF One

(* RefsExact for one pbuf, with the numbers it adds up. *)
Balance(q) ==
    /\ In(avail, q) \in Nat /\ In(used, q) \in Nat /\ refused[q] \in Nat
    /\ One(own[q]) \in 0 .. 1 /\ One(sending.p = q) \in 0 .. 1 /\ One(taken.p = q) \in 0 .. 1
    /\ ref[q] \in Int
    /\ ref[q] = One(own[q]) + One(sending.p = q) + One(taken.p = q)
                + In(avail, q) + In(used, q) + refused[q]

(* RefsExact says so of every pbuf. *)
LEMMA RefNumbers ==
    ASSUME RefInv, NEW q \in Pbufs
    PROVE  Balance(q)
  BY PlacesFinite, OneType DEF RefInv, CallInv, CountInv, RefsExact, Balance

(* Every step keeps the references exact. *)
LEMMA RefNext == RefInv /\ [Next]_vars => RefInv'
  <1> SUFFICES ASSUME RefInv, [Next]_vars
               PROVE  RefInv'
    OBVIOUS
  <1> USE DEF RefInv, CallInv, CountInv, At
  <1>1. ASSUME NEW p \in Pbufs, pbuf_alloc(p)
        PROVE  RefInv'
    <2>1. /\ ref[p] = 0 /\ ref' = [ref EXCEPT ![p] = 1] /\ own' = [own EXCEPT ![p] = TRUE]
          /\ UNCHANGED <<refused, sending, taken, avail, used, pc>>
      BY <1>1 DEF pbuf_alloc, queuevars
    <2>2. CallInv'
      BY <2>1
    <2>3. own' \in [Pbufs -> BOOLEAN]
      BY <2>1
    <2>4. ref' \in [Pbufs -> Int] /\ refused' \in [Pbufs -> Nat]
      BY <2>1
    <2>5. One(own[p]) = 0
      <3>1. ref[p] = 0 /\ Balance(p)
        BY <2>1, RefNumbers
      <3> QED
        BY ONLY <3>1 DEF Balance
    <2>6. own'[p] /\ \A q \in Pbufs \ {p} : own'[q] = own[q]
      BY <2>1
    <2>7. RefsExact'
      <3> SUFFICES ASSUME NEW q \in Pbufs
                   PROVE  ref'[q] = One(own'[q]) + One(sending.p = q) + One(taken.p = q)
                                    + In(avail, q) + In(used, q) + refused[q]
        BY <2>1 DEF RefsExact
      <3>1. CASE q # p
        <4>1. ref'[q] = ref[q] /\ own'[q] = own[q] /\ Balance(q)
          BY <2>1, <2>6, <3>1, RefNumbers
        <4> QED
          BY ONLY <4>1 DEF Balance
      <3>2. CASE q = p
        <4>1. One(own'[p]) = 1
          BY <2>6 DEF One
        <4>2. ref'[p] = 1 /\ ref[p] = 0
          BY <2>1
        <4>3. Balance(p)
          BY RefNumbers
        <4> QED
          BY ONLY <2>5, <3>2, <4>1, <4>2, <4>3 DEF Balance
      <3> QED
        BY <3>1, <3>2
    <2> QED
      BY <2>2, <2>3, <2>4, <2>7
  <1>2. ASSUME NEW p \in Pbufs, pbuf_free(p)
        PROVE  RefInv'
    <2>1. /\ own[p] /\ ref' = [ref EXCEPT ![p] = @ - 1] /\ own' = [own EXCEPT ![p] = FALSE]
          /\ UNCHANGED <<refused, sending, taken, avail, used, pc>>
      BY <1>2 DEF pbuf_free, queuevars
    <2>2. CallInv'
      BY <2>1
    <2>3. own' \in [Pbufs -> BOOLEAN]
      BY <2>1
    <2>4. ref' \in [Pbufs -> Int] /\ refused' \in [Pbufs -> Nat]
      BY <2>1
    <2>5. ~own'[p] /\ \A q \in Pbufs \ {p} : own'[q] = own[q]
      BY <2>1
    <2>6. RefsExact'
      <3> SUFFICES ASSUME NEW q \in Pbufs
                   PROVE  ref'[q] = One(own'[q]) + One(sending.p = q) + One(taken.p = q)
                                    + In(avail, q) + In(used, q) + refused[q]
        BY <2>1 DEF RefsExact
      <3>1. CASE q # p
        <4>1. ref'[q] = ref[q] /\ own'[q] = own[q] /\ Balance(q)
          BY <2>1, <2>5, <3>1, RefNumbers
        <4> QED
          BY ONLY <4>1 DEF Balance
      <3>2. CASE q = p
        <4>1. One(own[p]) = 1 /\ One(own'[p]) = 0
          BY <2>1, <2>5 DEF One
        <4>2. ref'[p] = ref[p] - 1
          BY <2>1
        <4>3. Balance(p)
          BY RefNumbers
        <4> QED
          BY ONLY <3>2, <4>1, <4>2, <4>3 DEF Balance
      <3> QED
        BY <3>1, <3>2
    <2> QED
      BY <2>2, <2>3, <2>4, <2>6
  <1>3. ASSUME NEW p \in Pbufs, NEW n \in Lengths, lwip_tx_func(p, n)
        PROVE  RefInv'
    <2>1. /\ pc = "idle" /\ pc' \in {"read", "queue"} /\ sending' = [p |-> p, n |-> n]
          /\ ref' = [ref EXCEPT ![p] = @ + 1]
          /\ UNCHANGED <<own, refused, taken, avail, used>>
      BY <1>3 DEF lwip_tx_func, SendOf, queuevars
    <2>2. sending' \in Packets /\ sending'.p = p /\ sending = NoPacket
      BY <2>1 DEF Packets
    <2>3. CallInv'
      BY <2>1, <2>2, NoPacketFacts
    <2>4. CountInv'
      BY <2>1
    <2>5. RefsExact'
      <3> SUFFICES ASSUME NEW q \in Pbufs
                   PROVE  ref'[q] = One(own[q]) + One(sending'.p = q) + One(taken.p = q)
                                    + In(avail, q) + In(used, q) + refused[q]
        BY <2>1 DEF RefsExact
      <3>1. One(sending.p = q) = 0 /\ One(sending'.p = q) = IF q = p THEN 1 ELSE 0
        BY <2>2, NoPacketFacts DEF One
      <3>2. ref'[q] = IF q = p THEN ref[q] + 1 ELSE ref[q]
        BY <2>1
      <3>3. Balance(q)
        BY RefNumbers
      <3> QED
        BY ONLY <3>1, <3>2, <3>3 DEF Balance
    <2> QED
      BY <2>3, <2>4, <2>5
  <1>4. CASE tx_poll_callback
    <2>1. UNCHANGED <<own, ref, refused, sending, taken, avail, used>> /\ pc = "idle" /\ pc' = "read"
      BY <1>4 DEF tx_poll_callback, refvars, queuevars
    <2> QED
      BY <2>1 DEF RefsExact
  <1>5. CASE virtio_to_queue
    <2>1. /\ pc = "queue" /\ pc' = "idle" /\ sending' = NoPacket
          /\ UNCHANGED <<own, ref, taken, used>>
      BY <1>5 DEF virtio_to_queue
    <2>2. sending \in Packets /\ sending.p \in Pbufs
      BY <2>1, NoPacketFacts
    <2>3. \A q \in Pbufs : One(sending'.p = q) = 0
      BY <2>1, NoPacketFacts DEF One
    <2>4. CASE free_num - sending.n <= 0
      <3>1. refused' = [refused EXCEPT ![sending.p] = @ + 1] /\ avail' = avail
        BY <1>5, <2>4 DEF virtio_to_queue
      <3>2. CallInv' /\ CountInv'
        BY <2>1, <2>2, <3>1
      <3>3. RefsExact'
        <4> SUFFICES ASSUME NEW q \in Pbufs
                     PROVE  ref[q] = One(own[q]) + One(sending'.p = q) + One(taken.p = q)
                                     + In(avail, q) + In(used, q) + refused'[q]
          BY <2>1, <3>1 DEF RefsExact
        <4>1. refused'[q] = refused[q] + One(sending.p = q)
          BY <2>2, <3>1 DEF One
        <4>2. Balance(q) /\ One(sending'.p = q) = 0
          BY <2>3, RefNumbers
        <4> QED
          BY ONLY <4>1, <4>2 DEF Balance
      <3> QED
        BY <3>2, <3>3
    <2>5. CASE ~(free_num - sending.n <= 0)
      <3>1. avail' = Append(avail, sending) /\ refused' = refused
        BY <1>5, <2>5 DEF virtio_to_queue
      <3>2. CallInv' /\ CountInv'
        BY <2>1, <2>2, <3>1
      <3>3. RefsExact'
        <4> SUFFICES ASSUME NEW q \in Pbufs
                     PROVE  ref[q] = One(own[q]) + One(sending'.p = q) + One(taken.p = q)
                                     + In(avail', q) + In(used, q) + refused[q]
          BY <2>1, <3>1 DEF RefsExact
        <4>1. In(avail', q) = In(avail, q) + One(sending.p = q)
          BY <2>2, <3>1, InAppend
        <4>2. Balance(q) /\ One(sending'.p = q) = 0
          BY <2>3, RefNumbers
        <4> QED
          BY ONLY <4>1, <4>2 DEF Balance
      <3> QED
        BY <3>2, <3>3
    <2> QED
      BY <2>4, <2>5
  <1>6. CASE virtio_from_queue
    <2>1. pc = "read" /\ taken = NoPacket /\ UNCHANGED <<own, ref, refused, sending, avail>>
      BY <1>6 DEF virtio_from_queue, refvars
    <2>2. CASE used = << >>
      <3>1. UNCHANGED <<taken, used>> /\ pc' = IF sending # NoPacket THEN "queue" ELSE "idle"
        BY <1>6, <2>2 DEF virtio_from_queue, Masked
      <3> QED
        BY <2>1, <3>1 DEF RefsExact
    <2>3. CASE used # << >>
      <3>1. taken' = Head(used) /\ used' = Tail(used) /\ pc' = "enable"
        BY <1>6, <2>3 DEF virtio_from_queue
      <3>2. taken' \in Packets /\ used' \in Seq(Packets)
        BY <2>3, <3>1, InTail
      <3>3. CallInv' /\ CountInv'
        BY <2>1, <3>1, <3>2, NoPacketFacts
      <3>4. RefsExact'
        <4> SUFFICES ASSUME NEW q \in Pbufs
                     PROVE  ref[q] = One(own[q]) + One(sending.p = q) + One(taken'.p = q)
                                     + In(avail, q) + In(used', q) + refused[q]
          BY <2>1 DEF RefsExact
        <4>1. In(used', q) = In(used, q) - One(taken'.p = q)
          BY <2>3, <3>1, InTail
        <4>2. One(taken.p = q) = 0
          BY <2>1, NoPacketFacts DEF One
        <4>3. Balance(q) /\ One(taken'.p = q) \in 0 .. 1
          BY RefNumbers, OneType
        <4> QED
          BY ONLY <4>1, <4>2, <4>3 DEF Balance
      <3> QED
        BY <3>3, <3>4
    <2> QED
      BY <2>2, <2>3
  <1>7. CASE virtio_queue_enable_intr
    <2>1. UNCHANGED <<own, ref, refused, sending, taken, avail, used>> /\ pc = "enable" /\ pc' = "event"
      BY <1>7 DEF virtio_queue_enable_intr, refvars, queuevars
    <2> QED
      BY <2>1 DEF RefsExact
  <1>8. CASE tx_queue_callback
    <2>1. /\ pc = "event" /\ pc' = "read" /\ taken' = NoPacket
          /\ ref' = [ref EXCEPT ![taken.p] = @ - 1]
          /\ UNCHANGED <<own, refused, sending, avail, used>>
      BY <1>8 DEF tx_queue_callback, queuevars
    <2>2. taken \in Packets /\ taken.p \in Pbufs
      BY <2>1, NoPacketFacts
    <2>3. CallInv' /\ CountInv'
      BY <2>1, <2>2
    <2>4. RefsExact'
      <3> SUFFICES ASSUME NEW q \in Pbufs
                   PROVE  ref'[q] = One(own[q]) + One(sending.p = q) + One(taken'.p = q)
                                    + In(avail, q) + In(used, q) + refused[q]
        BY <2>1 DEF RefsExact
      <3>1. One(taken'.p = q) = 0
        BY <2>1, NoPacketFacts DEF One
      <3>2. ref'[q] = ref[q] - One(taken.p = q)
        BY <2>1, <2>2 DEF One
      <3>3. Balance(q)
        BY RefNumbers
      <3> QED
        BY ONLY <3>1, <3>2, <3>3 DEF Balance
    <2> QED
      BY <2>3, <2>4
  <1>9. ASSUME NEW i \in 1 .. Num, DeviceUse(i)
        PROVE  RefInv'
    <2>1. /\ i \in DOMAIN avail /\ used' = Append(used, avail[i])
          /\ avail' = SubSeq(avail, 1, i - 1) \o SubSeq(avail, i + 1, Len(avail))
          /\ UNCHANGED <<own, ref, refused, sending, taken, pc>>
      BY <1>9 DEF DeviceUse, refvars
    <2>2. avail[i] \in Packets
      BY <2>1
    <2>3. avail' \in Seq(Packets) /\ \A q : In(avail', q) = In(avail, q) - One(avail[i].p = q)
      BY <2>1, InRemoved
    <2>4. used' \in Seq(Packets) /\ \A q : In(used', q) = In(used, q) + One(avail[i].p = q)
      BY <2>1, <2>2, InAppend
    <2>5. CallInv' /\ CountInv'
      BY <2>1, <2>3, <2>4
    <2>6. RefsExact'
      <3> SUFFICES ASSUME NEW q \in Pbufs
                   PROVE  ref[q] = One(own[q]) + One(sending.p = q) + One(taken.p = q)
                                   + In(avail', q) + In(used', q) + refused[q]
        BY <2>1 DEF RefsExact
      <3>1. Balance(q) /\ One(avail[i].p = q) \in 0 .. 1
        BY RefNumbers, OneType
      <3>2. /\ In(avail', q) = In(avail, q) - One(avail[i].p = q)
            /\ In(used', q) = In(used, q) + One(avail[i].p = q)
        BY <2>3, <2>4
      <3> QED
        BY ONLY <3>1, <3>2 DEF Balance
    <2> QED
      BY <2>5, <2>6
  <1>10. CASE UNCHANGED <<own, ref, refused, sending, taken, avail, used, pc>>
    BY <1>10 DEF RefsExact
  <1> QED
    BY <1>1, <1>2, <1>3, <1>4, <1>5, <1>6, <1>7, <1>8, <1>9, <1>10
    DEF Next, CallStep, SoftirqStep, rx_poll_callback, irq_handler_send, irq_handler_receive,
        do_softirq, run_net_tx_softirq, run_net_rx_softirq, DeviceSignal, vars, refvars, queuevars

(* pbuf->ref counts exactly who holds the pbuf, at every moment between      *)
(* lwip_tx_func and tx_queue_callback, whatever the card returns first and   *)
(* however often a pbuf is queued.                                          *)
THEOREM ReferencesExact == Spec => []RefsExact
  <1>1. RefInv => RefsExact
    BY DEF RefInv
  <1> QED
    BY <1>1, RefInit, RefNext, PTL DEF Spec

-----------------------------------------------------------------------------
(* The transmit queue implements VirtIntr *)

(* The index after the last is one further ahead of the driver's, short of  *)
(* a turn; the driver's next one is one less behind.                        *)
LEMMA IncUnread ==
    ASSUME NEW a \in 0 .. Word - 1, NEW b \in 0 .. Word - 1
    PROVE  /\ Inc(a) \in 0 .. Word - 1
           /\ (a - b) % Word < Word - 1 => (Inc(a) - b) % Word = ((a - b) % Word) + 1
           /\ (a - b) % Word > 0 => (a - Inc(b)) % Word = ((a - b) % Word) - 1
  <1>0. Word \in Nat /\ Word > 1
    BY TxAssumption
  <1>1. \A i \in 0 .. Word - 1 : Inc(i) = IF i = Word - 1 THEN 0 ELSE i + 1
    BY <1>0 DEF Inc
  <1>2. \A i, j \in 0 .. Word - 1 : (i - j) % Word = IF i >= j THEN i - j ELSE i - j + Word
    BY <1>0
  <1>3. Inc(a) \in 0 .. Word - 1 /\ Inc(b) \in 0 .. Word - 1
    BY <1>0, <1>1
  <1>4. (a - b) % Word < Word - 1 => (Inc(a) - b) % Word = ((a - b) % Word) + 1
    <2>1. /\ (a - b) % Word = IF a >= b THEN a - b ELSE a - b + Word
          /\ (Inc(a) - b) % Word = IF Inc(a) >= b THEN Inc(a) - b ELSE Inc(a) - b + Word
          /\ Inc(a) = IF a = Word - 1 THEN 0 ELSE a + 1
      BY <1>1, <1>2, <1>3
    <2> QED
      BY <1>0, <2>1
  <1>5. (a - b) % Word > 0 => (a - Inc(b)) % Word = ((a - b) % Word) - 1
    <2>1. /\ (a - b) % Word = IF a >= b THEN a - b ELSE a - b + Word
          /\ (a - Inc(b)) % Word = IF a >= Inc(b) THEN a - Inc(b) ELSE a - Inc(b) + Word
          /\ Inc(b) = IF b = Word - 1 THEN 0 ELSE b + 1
      BY <1>1, <1>2, <1>3
    <2> QED
      BY <1>0, <2>1
  <1> QED
    BY <1>3, <1>4, <1>5

(* The indices keep saying how many packets wait. *)
LEMMA UnreadNext == RefInv /\ UnreadInv /\ [Next]_vars => UnreadInv'
  <1> SUFFICES ASSUME RefInv, UnreadInv, [Next]_vars
               PROVE  UnreadInv'
    OBVIOUS
  <1>0. Word \in Nat /\ Num \in Nat /\ Num < Word - 1 /\ Len(used) \in Nat
    BY TxAssumption DEF UnreadInv
  <1>1. CASE virtio_from_queue
    <2>1. CASE used = << >>
      BY <1>1, <2>1 DEF virtio_from_queue, UnreadInv
    <2>2. CASE used # << >>
      <3>1. /\ used' = Tail(used) /\ last_used_idx' = Inc(last_used_idx) /\ used_idx' = used_idx
        BY <1>1, <2>2 DEF virtio_from_queue
      <3>2. used' \in Seq(Packets) /\ Len(used') = Len(used) - 1 /\ Len(used) > 0
        BY <2>2, <3>1, HeadTailProperties DEF UnreadInv
      <3>3. /\ last_used_idx' \in 0 .. Word - 1
            /\ (used_idx - last_used_idx) % Word > 0 =>
                  (used_idx - last_used_idx') % Word = ((used_idx - last_used_idx) % Word) - 1
        BY <3>1, IncUnread DEF UnreadInv
      <3>4. (used_idx - last_used_idx) % Word = Len(used) /\ Len(used) < Num
        BY DEF UnreadInv
      <3>5. (used_idx - last_used_idx') % Word = Len(used') /\ Len(used') < Num
        BY <1>0, <3>2, <3>3, <3>4
      <3> QED
        BY <3>1, <3>2, <3>3, <3>5 DEF UnreadInv
    <2> QED
      BY <2>1, <2>2
  <1>2. ASSUME NEW i \in 1 .. Num, DeviceUse(i)
        PROVE  UnreadInv'
    <2>1. /\ i \in DOMAIN avail /\ used' = Append(used, avail[i])
          /\ used_idx' = Inc(used_idx) /\ last_used_idx' = last_used_idx
          /\ Len(used) < Num - 1
      BY <1>2 DEF DeviceUse
    <2>2. avail[i] \in Packets
      BY <2>1 DEF RefInv, CallInv
    <2>3. used' \in Seq(Packets) /\ Len(used') = Len(used) + 1
      BY <2>1, <2>2, AppendProperties DEF UnreadInv
    <2>4. /\ used_idx' \in 0 .. Word - 1
          /\ (used_idx - last_used_idx) % Word < Word - 1 =>
                (used_idx' - last_used_idx) % Word = ((used_idx - last_used_idx) % Word) + 1
      BY <2>1, IncUnread DEF UnreadInv
    <2> QED
      BY <1>0, <2>1, <2>3, <2>4 DEF UnreadInv
  <1>3. CASE UNCHANGED <<used, used_idx, last_used_idx>>
    BY <1>3 DEF UnreadInv
  <1> QED
    BY <1>1, <1>2, <1>3
    DEF Next, CallStep, SoftirqStep, pbuf_alloc, pbuf_free, lwip_tx_func, SendOf, tx_poll_callback,
        virtio_to_queue, virtio_queue_enable_intr, tx_queue_callback,
        rx_poll_callback, irq_handler_send, irq_handler_receive,
        do_softirq, run_net_tx_softirq, run_net_rx_softirq, DeviceSignal, vars, queuevars, intrvars

(* A softirq that ran a round has queued tx_poll, and nobody takes it off   *)
(* the list before the softirq ends.                                       *)
LEMMA SoftNext ==
    ASSUME SoftInv, [Next]_vars
    PROVE  SoftInv'
  <1>0. dropped' \in BOOLEAN
    <2>1. CASE run_net_rx_softirq
      BY <2>1 DEF run_net_rx_softirq, SoftInv
    <2>2. CASE dropped' = dropped \/ dropped' = FALSE
      BY <2>2 DEF SoftInv
    <2> QED
      BY <2>1, <2>2 DEF Next, CallStep, SoftirqStep, pbuf_alloc, pbuf_free, lwip_tx_func, SendOf,
         tx_poll_callback, virtio_to_queue, virtio_from_queue, virtio_queue_enable_intr,
         tx_queue_callback, rx_poll_callback, irq_handler_send, irq_handler_receive, do_softirq,
         run_net_tx_softirq, DeviceUse, DeviceSignal, vars, notes
  <1>1. poll' \in BOOLEAN
    <2>1. CASE run_net_tx_softirq
      <3>1. poll' = (poll \/ loop = 0) \/ poll' = poll
        BY <2>1 DEF run_net_tx_softirq
      <3> QED
        BY <3>1 DEF SoftInv
    <2>2. CASE poll' = poll \/ poll' = FALSE
      BY <2>2 DEF SoftInv
    <2> QED
      BY <2>1, <2>2 DEF Next, CallStep, SoftirqStep, pbuf_alloc, pbuf_free, lwip_tx_func, SendOf,
         tx_poll_callback, virtio_to_queue, virtio_from_queue, virtio_queue_enable_intr,
         tx_queue_callback, rx_poll_callback, irq_handler_send, irq_handler_receive, do_softirq,
         run_net_rx_softirq, DeviceUse, DeviceSignal, vars
  <1>2. CASE UNCHANGED <<loop, mask, pending, poll>>
    BY <1>0, <1>2 DEF SoftInv
  <1>3. CASE tx_poll_callback
    BY <1>0, <1>1, <1>3 DEF tx_poll_callback, At, InSoftirq, SoftInv, softvars
  <1>4. CASE irq_handler_send
    <2>1. UNCHANGED <<loop, mask, poll>>
      BY <1>4 DEF irq_handler_send
    <2> QED
      BY <1>0, <2>1 DEF SoftInv
  <1>5. CASE irq_handler_receive
    <2>1. UNCHANGED <<loop, mask, poll>>
      BY <1>5 DEF irq_handler_receive
    <2> QED
      BY <1>0, <2>1 DEF SoftInv
  <1>6. CASE do_softirq
    <2>1. mask = {} /\ mask' = pending /\ pending' = {} /\ UNCHANGED <<loop, poll>>
      BY <1>6 DEF do_softirq
    <2> QED
      BY <1>0, <2>1 DEF SoftInv
  <1>7. CASE run_net_tx_softirq
    <2>1. CASE canrun_tx /\ loop + 1 < LoopMax
      <3>1. /\ "tx" \in mask /\ loop' = loop + 1 /\ UNCHANGED <<mask, pending>>
            /\ poll' = (poll \/ loop = 0)
        BY <1>7, <2>1 DEF run_net_tx_softirq
      <3>2. loop = 0 \/ loop > 0
        BY DEF SoftInv
      <3>3. poll'
        BY <3>1, <3>2 DEF SoftInv
      <3> QED
        BY <1>0, <1>1, <3>1, <3>3 DEF SoftInv
    <2>2. CASE ~(canrun_tx /\ loop + 1 < LoopMax)
      <3>1. mask' = mask \ {"tx"} /\ loop' = 0 /\ UNCHANGED <<pending, poll>>
        BY <1>7, <2>2 DEF run_net_tx_softirq, SoftirqEnds
      <3> QED
        BY <1>0, <3>1 DEF SoftInv
    <2> QED
      BY <2>1, <2>2
  <1>8. CASE run_net_rx_softirq
    <2>1. CASE canrun_rx /\ loop + 1 < LoopMax
      <3>1. /\ "rx" \in mask /\ "tx" \notin mask /\ loop' = loop + 1
            /\ UNCHANGED <<mask, pending, poll>>
        BY <1>8, <2>1 DEF run_net_rx_softirq
      <3> QED
        BY <1>0, <3>1 DEF SoftInv
    <2>2. CASE ~(canrun_rx /\ loop + 1 < LoopMax)
      <3>1. mask' = mask \ {"rx"} /\ loop' = 0 /\ UNCHANGED <<pending, poll>>
        BY <1>8, <2>2 DEF run_net_rx_softirq, SoftirqEnds
      <3> QED
        BY <1>0, <3>1 DEF SoftInv
    <2> QED
      BY <2>1, <2>2
  <1> QED
    BY <1>2, <1>3, <1>4, <1>5, <1>6, <1>7, <1>8
    DEF Next, CallStep, SoftirqStep, pbuf_alloc, pbuf_free, lwip_tx_func, SendOf,
        virtio_to_queue, virtio_from_queue, virtio_queue_enable_intr, tx_queue_callback,
        rx_poll_callback, DeviceUse, DeviceSignal, vars, softvars

(* Init of VirtIntr, and the invariants that its steps need. *)
LEMMA IntrInit == Init => Intr!Init /\ UnreadInv /\ SoftInv
  <1> SUFFICES ASSUME Init
               PROVE  Intr!Init /\ UnreadInv /\ SoftInv
    OBVIOUS
  <1>1. ~TxPolled
    BY DEF Init, TxPolled
  <1>2. TxPolled = FALSE
    BY <1>1 DEF TxPolled
  <1>3. Intr!Init
    BY <1>2 DEF Init, Intr!Init
  <1>4. SoftInv
    BY DEF Init, SoftInv
  <1>5. UnreadInv
    <2>1. 0 % Word = 0 /\ 0 \in 0 .. Word - 1 /\ Num > 0
      BY TxAssumption
    <2> QED
      BY <2>1 DEF Init, UnreadInv
  <1> QED
    BY <1>3, <1>4, <1>5

(* Every step is one of VirtIntr, or changes nothing VirtIntr sees: one case *)
(* per action.                                                             *)
LEMMA IntrNext ==
    ASSUME RefInv, UnreadInv, SoftInv, [Next]_vars
    PROVE  [Intr!Next]_(Intr!vars)
  <1> DEFINE PC == IF pc = "queue" THEN "idle" ELSE pc
  <1> DEFINE Same == UNCHANGED <<event_idx, cut, muted, dropped>>
  <1>0. ASSUME UNCHANGED intrvars, TxPolled' = TxPolled, PC' = PC, Same
        PROVE  UNCHANGED Intr!vars
    BY <1>0 DEF intrvars, Intr!vars, Intr!notes
  <1>1. ASSUME UNCHANGED <<intrvars, softvars, poll>>, PC' = PC, Same
        PROVE  UNCHANGED Intr!vars
    BY <1>0, <1>1 DEF softvars, TxPolled
  <1>2. ASSUME NEW p \in Pbufs, NEW n \in Lengths, lwip_tx_func(p, n)
        PROVE  Intr!ReadBeforeRefill \/ UNCHANGED Intr!vars
    <2>1. /\ pc = "idle" /\ pc' \in {"read", "queue"} /\ UNCHANGED <<intrvars, softvars, poll>>
          /\ UNCHANGED <<event_idx, cut, muted>>
          /\ dropped' = IF pc' = "read" THEN FALSE ELSE dropped
      BY <1>2 DEF lwip_tx_func, SendOf, At
    <2>2. CASE pc' = "queue"
      BY <1>1, <2>1, <2>2
    <2>3. CASE pc' = "read"
      <3>1. TxPolled' = TxPolled
        BY <2>1 DEF TxPolled, softvars
      <3> QED
        BY <2>1, <2>3, <3>1 DEF Intr!ReadBeforeRefill, intrvars
    <2> QED
      BY <2>1, <2>2, <2>3
  <1>3. CASE virtio_to_queue
    BY <1>1, <1>3 DEF virtio_to_queue, At, notes
  <1>4. CASE tx_poll_callback
    <2>1. pc = "idle" /\ pc' = "read" /\ pending = {} /\ mask = {} /\ poll /\ poll' = FALSE
          /\ dropped' = FALSE /\ UNCHANGED <<intrvars, softvars, event_idx, cut, muted>>
      BY <1>4 DEF tx_poll_callback, At, InSoftirq
    <2>2. TxPolled /\ TxPolled' = FALSE
      BY <2>1 DEF TxPolled, softvars
    <2>3. Intr!rx_poll_callback
      BY <2>1, <2>2 DEF Intr!rx_poll_callback, intrvars
    <2> QED
      BY <2>3 DEF Intr!Next
  <1>5. CASE virtio_from_queue
    <2>1. /\ pc = "read" /\ UNCHANGED <<softvars, poll>>
          /\ UNCHANGED <<used_idx, no_interrupt, used_event, signalled, irq, event_idx, cut,
                         dropped>>
      BY <1>5 DEF virtio_from_queue, At
    <2>2. TxPolled' = TxPolled
      BY <2>1 DEF TxPolled, softvars
    <2>3. Intr!Unread = Len(used)
      BY DEF UnreadInv, Intr!Unread
    <2>4. CASE used = << >>
      <3>1. /\ PC' = "idle" /\ last_used_idx' = last_used_idx
            /\ muted' = (~event_idx /\ no_interrupt)
        BY <1>5, <2>4 DEF virtio_from_queue
      <3>2. Intr!Unread = 0
        BY <2>3, <2>4
      <3> QED
        BY <2>1, <2>2, <3>1, <3>2 DEF Intr!virtio_from_queue, Intr!Next, Intr!ReadStep
    <2>5. CASE used # << >>
      <3>1. pc' = "enable" /\ last_used_idx' = Intr!Inc(last_used_idx) /\ muted' = muted
        BY <1>5, <2>5 DEF virtio_from_queue, Inc, Intr!Inc
      <3>2. Intr!Unread # 0
        BY <2>3, <2>5 DEF UnreadInv
      <3> QED
        BY <2>1, <2>2, <3>1, <3>2 DEF Intr!virtio_from_queue, Intr!Next, Intr!ReadStep
    <2> QED
      BY <2>4, <2>5
  <1>6. CASE virtio_queue_enable_intr
    <2>1. /\ pc = "enable" /\ pc' = "event" /\ no_interrupt' = FALSE /\ UNCHANGED <<softvars, poll>>
          /\ UNCHANGED <<used_idx, last_used_idx, used_event, signalled, irq>> /\ Same
      BY <1>6 DEF virtio_queue_enable_intr, At, notes
    <2>2. TxPolled' = TxPolled
      BY <2>1 DEF TxPolled, softvars
    <2> QED
      BY <2>1, <2>2 DEF Intr!virtio_queue_enable_intr, Intr!notes, Intr!Next, Intr!ReadStep
  <1>7. CASE tx_queue_callback
    <2>1. /\ pc = "event" /\ pc' = "read" /\ UNCHANGED <<softvars, poll>>
          /\ used_event' = IF no_interrupt THEN used_event ELSE last_used_idx
          /\ cut' = (cut /\ no_interrupt)
          /\ UNCHANGED <<used_idx, last_used_idx, no_interrupt, signalled, irq, event_idx, muted,
                         dropped>>
      BY <1>7 DEF tx_queue_callback, At
    <2>2. TxPolled' = TxPolled
      BY <2>1 DEF TxPolled, softvars
    <2> QED
      BY <2>1, <2>2 DEF Intr!StoreUsedEvent, Intr!EventToStore, Intr!Next, Intr!ReadStep
  <1>8. ASSUME NEW i \in 1 .. Num, DeviceUse(i)
        PROVE  Intr!DeviceUse
    <2>1. /\ Len(used) < Num - 1 /\ (used_idx - signalled) % Word < Num - 1
          /\ used_idx' = Intr!Inc(used_idx)
          /\ UNCHANGED <<last_used_idx, no_interrupt, used_event, signalled, irq, softvars, poll, pc>>
          /\ Same
      BY <1>8 DEF DeviceUse, Inc, Intr!Inc, notes
    <2>2. TxPolled' = TxPolled
      BY <2>1 DEF TxPolled, softvars
    <2>3. Intr!Unread = Len(used)
      BY DEF UnreadInv, Intr!Unread
    <2> QED
      BY <2>1, <2>2, <2>3 DEF Intr!DeviceUse, Intr!notes
  <1>9. CASE DeviceSignal
    <2>1. /\ signalled # used_idx /\ signalled' = used_idx /\ irq' = (irq \/ Intr!InterruptDue)
          /\ UNCHANGED <<used_idx, last_used_idx, no_interrupt, used_event, softvars, poll, pc>>
          /\ Same
      BY <1>9 DEF DeviceSignal, notes, InterruptDue, Intr!InterruptDue
    <2>2. TxPolled' = TxPolled
      BY <2>1 DEF TxPolled, softvars
    <2> QED
      BY <2>1, <2>2 DEF Intr!DeviceSignal, Intr!notes, Intr!Next
  <1>10. CASE irq_handler_send
    <2>1. /\ irq /\ irq' = FALSE /\ no_interrupt' = TRUE
          /\ cut' = (cut \/ (event_idx /\ pc = "event"))
          /\ UNCHANGED <<used_idx, last_used_idx, used_event, signalled, pc, event_idx, muted,
                         dropped>>
      BY <1>10 DEF irq_handler_send
    <2>2. canrun_tx' = TRUE /\ pending' = pending \cup {"tx"}
      BY <1>10 DEF irq_handler_send
    <2>3. TxPolled' = TRUE
      BY <2>2 DEF TxPolled
    <2> QED
      BY <2>1, <2>3 DEF Intr!irq_handler_receive, Intr!Next
  <1>11. CASE irq_handler_receive
    <2>1. /\ pending' = pending \cup {"rx"} /\ UNCHANGED <<intrvars, canrun_tx, mask, poll, pc>>
          /\ Same
      BY <1>11 DEF irq_handler_receive, notes
    <2>2. TxPolled' = TxPolled
      BY <2>1 DEF TxPolled
    <2> QED
      BY <1>0, <2>1, <2>2
  <1>12. CASE rx_poll_callback
    BY <1>1, <1>12 DEF rx_poll_callback, notes
  <1>13. CASE do_softirq
    <2>1. /\ mask = {} /\ mask' = pending /\ pending' = {}
          /\ UNCHANGED <<intrvars, canrun_tx, poll, pc>> /\ Same
      BY <1>13 DEF do_softirq, notes
    <2>2. TxPolled' = TxPolled
      BY <2>1 DEF TxPolled
    <2> QED
      BY <1>0, <2>1, <2>2
  <1>14. CASE run_net_tx_softirq
    <2>1. "tx" \in mask /\ UNCHANGED <<intrvars, pending, pc>> /\ Same
      BY <1>14 DEF run_net_tx_softirq, notes
    <2>2. loop = 0 \/ poll
      BY <2>1 DEF SoftInv
    <2>3. CASE canrun_tx /\ loop + 1 < LoopMax
      <3>1. TxPolled
        BY <2>1, <2>3 DEF TxPolled
      <3>2. poll' = (poll \/ loop = 0)
        BY <1>14, <2>3 DEF run_net_tx_softirq
      <3>3. TxPolled'
        BY <2>2, <3>2 DEF TxPolled
      <3>4. TxPolled' = TxPolled
        BY <3>1, <3>3 DEF TxPolled
      <3> QED
        BY <1>0, <2>1, <3>4
    <2>4. CASE ~(canrun_tx /\ loop + 1 < LoopMax)
      <3>1. mask' = mask \ {"tx"} /\ UNCHANGED <<canrun_tx, poll>>
        BY <1>14, <2>4 DEF run_net_tx_softirq, SoftirqEnds
      <3>2. canrun_tx => poll
        <4>1. 0 + 1 < LoopMax
          BY TxAssumption
        <4> QED
          BY <2>2, <2>4, <4>1
      <3>3. TxPolled' <=> TxPolled
        BY <2>1, <3>1, <3>2 DEF TxPolled
      <3>4. TxPolled' = TxPolled
        BY <3>3 DEF TxPolled
      <3> QED
        BY <1>0, <2>1, <3>4
    <2> QED
      BY <2>3, <2>4
  <1>15. CASE run_net_rx_softirq
    <2>1. /\ "tx" \notin mask /\ "tx" \notin mask'
          /\ UNCHANGED <<intrvars, pending, poll, pc, event_idx, cut, muted>>
      BY <1>15 DEF run_net_rx_softirq, SoftirqEnds
    <2>2. CASE canrun_rx /\ loop + 1 < LoopMax
      <3>1. /\ canrun_tx' = FALSE
            /\ dropped' = (dropped \/ (canrun_tx /\ "tx" \in pending /\ ~poll))
        BY <1>15, <2>2 DEF run_net_rx_softirq
      <3>2. CASE canrun_tx /\ "tx" \in pending /\ ~poll
        <4>1. TxPolled /\ TxPolled' = FALSE /\ dropped' = TRUE
          BY <2>1, <3>1, <3>2 DEF TxPolled, SoftInv
        <4>2. Intr!PollDropped
          BY <2>1, <4>1 DEF Intr!PollDropped, intrvars
        <4> QED
          BY <4>2 DEF Intr!Next
      <3>3. CASE ~(canrun_tx /\ "tx" \in pending /\ ~poll)
        <4>1. TxPolled' <=> TxPolled
          BY <2>1, <3>1, <3>3 DEF TxPolled
        <4>2. TxPolled' = TxPolled
          BY <4>1 DEF TxPolled
        <4>3. dropped' = dropped
          BY <3>1, <3>3 DEF SoftInv
        <4> QED
          BY <1>0, <2>1, <4>2, <4>3
      <3> QED
        BY <3>2, <3>3
    <2>3. CASE ~(canrun_rx /\ loop + 1 < LoopMax)
      <3>1. UNCHANGED <<canrun_tx, dropped>>
        BY <1>15, <2>3 DEF run_net_rx_softirq
      <3>2. TxPolled' = TxPolled
        BY <2>1, <3>1 DEF TxPolled
      <3> QED
        BY <1>0, <2>1, <3>1, <3>2
    <2> QED
      BY <2>2, <2>3
  <1>16. ASSUME NEW p \in Pbufs, pbuf_alloc(p) \/ pbuf_free(p)
         PROVE  UNCHANGED Intr!vars
    BY <1>1, <1>16 DEF pbuf_alloc, pbuf_free, notes
  <1>17. CASE UNCHANGED vars
    BY <1>1, <1>17 DEF vars, notes
  <1> QED
    BY <1>2, <1>3, <1>4, <1>5, <1>6, <1>7, <1>8, <1>9, <1>10, <1>11, <1>12, <1>13, <1>14, <1>15,
       <1>16, <1>17
    DEF Next, CallStep, SoftirqStep, Intr!Next

(* The transmit queue, with a softirq and its flag between the interrupt    *)
(* and the poll, is a queue of VirtIntr wherever interrupts arrive, with    *)
(* run_net_rx_softirq's loss of the flag as PollDropped.                    *)
THEOREM ImplementsVirtIntr == Spec => Implements
  <1> DEFINE AllInv == RefInv /\ UnreadInv /\ SoftInv
  <1>1. Init => AllInv /\ Intr!Init
    BY RefInit, IntrInit
  <1>2. AllInv /\ [Next]_vars => AllInv'
    BY RefNext, UnreadNext, SoftNext
  <1>3. AllInv /\ [Next]_vars => [Intr!Next]_(Intr!vars)
    BY IntrNext
  <1> HIDE DEF AllInv
  <1> QED
    BY <1>1, <1>2, <1>3, PTL DEF Spec, Implements, Intr!Spec

(* The theorems about VirtIntr, for the transmit queue. *)
IP == INSTANCE VirtIntrProofs WITH
          poll <- TxPolled,
          pc <- IF pc = "queue" THEN "idle" ELSE pc

(* No packet the card has sent is left in the used ring when no interrupt,  *)
(* softirq or tx_poll is on the way that will read it, except in the three  *)
(* cases of Unasked: the theorem about VirtIntr, carried over by the        *)
(* refinement.                                                             *)
THEOREM SentNotForgotten == Spec => []Intr!NothingForgotten
  <1>1. IP!NumAssumption
    BY TxAssumption DEF IP!NumAssumption
  <1>2. IP!Spec => []IP!NothingForgotten
    BY <1>1, IP!NothingIsForgotten DEF IP!NothingIsForgotten
  <1>3. Intr!Init <=> IP!Init
    BY DEF Intr!Init, IP!Init
  <1>4. Intr!Next <=> IP!Next
    BY DEF Intr!Next, IP!Next, Intr!rx_poll_callback, IP!rx_poll_callback,
           Intr!ReadBeforeRefill, IP!ReadBeforeRefill,
           Intr!SendEnablesIntr, IP!SendEnablesIntr, Intr!ReadStep, IP!ReadStep,
           Intr!virtio_from_queue, IP!virtio_from_queue,
           Intr!virtio_queue_enable_intr, IP!virtio_queue_enable_intr,
           Intr!StoreUsedEvent, IP!StoreUsedEvent, Intr!EventToStore, IP!EventToStore,
           Intr!irq_handler_receive, IP!irq_handler_receive,
           Intr!PollDropped, IP!PollDropped, Intr!notes, IP!notes, Intr!DeviceUse, IP!DeviceUse,
           Intr!DeviceSignal, IP!DeviceSignal, Intr!InterruptDue, IP!InterruptDue,
           Intr!Unread, IP!Unread, Intr!Inc, IP!Inc
  <1>5. Intr!NothingForgotten <=> IP!NothingForgotten
    BY DEF Intr!NothingForgotten, IP!NothingForgotten, Intr!Quiet, IP!Quiet,
           Intr!Unread, IP!Unread, Intr!Unasked, IP!Unasked
  <1> QED
    BY <1>2, <1>3, <1>4, <1>5, ImplementsVirtIntr, PTL
    DEF Implements, Intr!Spec, IP!Spec, Intr!vars, IP!vars, Intr!notes, IP!notes
=============================================================================
