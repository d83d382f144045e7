----------------------------- MODULE VirtQueue -----------------------------
(***************************************************************************)
(* The rings of one virtqueue of libs/libvirtio/virtio.c: the descriptor    *)
(* table with its free list, the ring of requests offered to the device and *)
(* the ring the device returns them on.  virtio_to_queue and                *)
(* virtio_read_queue run in the main thread only.  When the main thread     *)
(* reads the queue is the subject of VirtIntr; here it may at any time.     *)
(* The indirect descriptors are left out: dev->threads, below which         *)
(* virtio_to_queue would use them, is never set.                           *)
(*                                                                         *)
(* The device is external and does what the rings' protocol lets it do: it  *)
(* fetches requests in order and returns them in any order.                *)
(***************************************************************************)
EXTENDS Integers, FiniteSets

CONSTANTS
    Num,       \* q->num, the descriptors of the queue
    Word,      \* 2^16: the range of the rings' indices
    Sizes,     \* the numbers of descriptors a request takes
    Bufs,      \* the data pointers of the requests
    NULL,
    Slack,     \* 4: virtio_to_queue reads the queue first when more are in use
    Start,     \* the indices to begin with: the rings have gone round before
    MaxRequests \* bound: the requests queued from there on

ASSUME NumAssumption ==
    /\ Num \in Nat \ {0} /\ \E k \in 0 .. Num : Num = 2^k
    /\ Word \in Nat /\ Word >= 2 * Num /\ Word % Num = 0
    /\ Slack \in Nat
    /\ Start \in 0 .. Word - 1 /\ Start % Num = 0 /\ MaxRequests \in 0 .. Word - 1

ASSUME RequestAssumption ==
    Sizes \subseteq Nat \ {0} /\ NULL \notin Bufs

Desc  == 0 .. Num - 1
Index == 0 .. Word - 1

VARIABLES
    desc,           \* each descriptor's next and whether VRING_DESC_F_NEXT is set
    data,           \* q->data: the pointer of the request that starts there
    free_num, free_head, free_tail,
    last_used,      \* the slot of the used ring to read next
    last_used_idx,  \* how many were read
    avail_idx, avail_ring,
    used_idx, used_ring,
    held,           \* the pointers the driver holds
    request,        \* the request virtio_to_queue reads the queue for, or NULL
    pc,             \* where the main thread is
    fetched,        \* how many requests the device took from the avail ring
    inflight        \* the requests it works on

vars == <<desc, data, free_num, free_head, free_tail, last_used, last_used_idx,
          avail_idx, avail_ring, used_idx, used_ring, held, request, pc,
          fetched, inflight>>

listvars   == <<desc, data, free_num, free_head, free_tail, held>>
availvars  == <<avail_idx, avail_ring>>
usedvars   == <<used_idx, used_ring>>
readvars   == <<last_used, last_used_idx>>
devicevars == <<fetched, inflight>>

Inc(i) == (i + 1) % Word

(* The k-th descriptor from d on in the table t. *)
Follow(t, d, k) ==
    LET f[j \in 0 .. k] == IF j = 0 THEN d ELSE t[f[j - 1]].next
    IN  f[k]

-----------------------------------------------------------------------------
(* virtio_to_queue *)

(* Mutant: the last free descriptor may be taken. *)
NoRoom_exact(n) == free_num - n < 0

(* A request is refused unless it leaves a free descriptor. *)
NoRoom(n) == free_num - n <= 0

(* set_direct_descriptors: the first n descriptors of the free list, the    *)
(* last without its next bit.                                              *)
set_direct_descriptors(n) ==
    LET chain == {Follow(desc, free_head, k) : k \in 0 .. n - 1}
        last  == Follow(desc, free_head, n - 1)
    IN  [d \in Desc |-> IF d \in chain THEN [desc[d] EXCEPT !.more = (d # last)]
                                       ELSE desc[d]]

(* Mutant: the index is advanced before the entry is stored. *)
AvailSlot_late == Inc(avail_idx) % Num

AvailSlot == avail_idx % Num

InBound == (avail_idx - Start) % Word < MaxRequests

Enqueue(n, b) ==
    /\ desc' = set_direct_descriptors(n)
    /\ free_num' = free_num - n
    /\ free_head' = Follow(desc, free_head, n)
    /\ avail_ring' = [avail_ring EXCEPT ![AvailSlot] = free_head]
    /\ data' = [data EXCEPT ![free_head] = b]
    /\ avail_idx' = Inc(avail_idx)
    /\ held' = held \ {b}
    /\ UNCHANGED free_tail

(* virtio_to_queue of n descriptors with the pointer b, up to the read of   *)
(* the queue if there is one; EAGAIN changes nothing.                       *)
virtio_to_queue(n, b) ==
    /\ InBound
    /\ pc = "idle"
    /\ b \in held
    /\ IF free_num + Slack < Num
       THEN /\ pc' = "read"
            /\ request' = [size |-> n, buf |-> b]
            /\ UNCHANGED <<listvars, availvars>>
       ELSE /\ ~NoRoom(n)
            /\ Enqueue(n, b)
            /\ UNCHANGED <<pc, request>>
    /\ UNCHANGED <<usedvars, readvars, devicevars>>

(* The rest of virtio_to_queue, after virtio_read_queue returned. *)
ToQueueAfterRead ==
    /\ pc = "queue"
    /\ pc' = "idle"
    /\ request' = NULL
    /\ IF NoRoom(request.size)
       THEN UNCHANGED <<listvars, availvars>>
       ELSE Enqueue(request.size, request.buf)
    /\ UNCHANGED <<usedvars, readvars, devicevars>>

-----------------------------------------------------------------------------
(* virtio_read_queue *)

(* The poll of the queue: rx_poll_callback or tx_poll_callback. *)
PollQueue ==
    /\ pc = "idle"
    /\ pc' = "read"
    /\ UNCHANGED <<listvars, availvars, usedvars, readvars, request,
                   devicevars>>

NothingUsed == last_used = used_idx % Num

(* The index of the last descriptor of the chain at d: the first without    *)
(* its next bit.                                                           *)
ChainLast(t, d) ==
    LET k == CHOOSE k \in Desc : /\ ~t[Follow(t, d, k)].more
                                 /\ \A j \in 0 .. k - 1 : t[Follow(t, d, j)].more
    IN  [at |-> Follow(t, d, k), count |-> k + 1]

(* Mutant: the tail of the free list is not moved to the returned chain.    *)
FreeChain_tail(d) ==
    LET t    == [desc EXCEPT ![free_tail].next = d]
        last == ChainLast(t, d)
    IN  /\ desc' = [t EXCEPT ![last.at] = [next |-> free_head, more |-> TRUE]]
        /\ free_num' = free_num + last.count
        /\ UNCHANGED <<free_head, free_tail>>

(* The chain at d goes to the end of the free list, which leads back to its *)
(* head.                                                                   *)
FreeChain(d) ==
    LET t    == [desc EXCEPT ![free_tail].next = d]
        last == ChainLast(t, d)
    IN  /\ desc' = [t EXCEPT ![last.at] = [next |-> free_head, more |-> TRUE]]
        /\ free_tail' = last.at
        /\ free_num' = free_num + last.count
        /\ UNCHANGED free_head

UsedElement == used_ring[last_used]

(* Mutant: the slot is not taken modulo the size of the ring. *)
NextSlot_raw == last_used + 1

NextSlot == (last_used + 1) % Num

(* virtio_from_queue up to the return of the pointer, or -1 once nothing    *)
(* more was used.                                                          *)
virtio_from_queue ==
    /\ pc = "read"
    /\ IF NothingUsed
       THEN /\ pc' = IF request = NULL THEN "idle" ELSE "queue"
            /\ UNCHANGED <<listvars, readvars>>
       ELSE /\ UNCHANGED pc
            /\ last_used' = NextSlot
            /\ last_used_idx' = Inc(last_used_idx)
            /\ FreeChain(UsedElement)
            /\ held' = held \cup {data[UsedElement]}
            /\ data' = [data EXCEPT ![UsedElement] = NULL]
    /\ UNCHANGED <<availvars, usedvars, request, devicevars>>

-----------------------------------------------------------------------------
(* The device *)

DeviceFetch ==
    /\ fetched # avail_idx
    /\ fetched' = Inc(fetched)
    /\ inflight' = inflight \cup {avail_ring[fetched % Num]}
    /\ UNCHANGED <<listvars, availvars, usedvars, readvars, request, pc>>

DeviceUse(d) ==
    /\ inflight' = inflight \ {d}
    /\ used_ring' = [used_ring EXCEPT ![used_idx % Num] = d]
    /\ used_idx' = Inc(used_idx)
    /\ UNCHANGED <<listvars, availvars, readvars, request, pc, fetched>>

-----------------------------------------------------------------------------
(* init_phys_queue, or the same queue after some rounds of the rings in     *)
(* which every request was returned before the next.                       *)
Init ==
    /\ desc = [d \in Desc |-> [next |-> (d + 1) % Num, more |-> TRUE]]
    /\ data = [d \in Desc |-> NULL]
    /\ free_num = Num /\ free_head = 0 /\ free_tail = Num - 1
    /\ last_used = 0 /\ last_used_idx = Start
    /\ avail_idx = Start /\ used_idx = Start
    /\ avail_ring = [d \in Desc |-> IF Start = 0 THEN 0 ELSE d]
    /\ used_ring = avail_ring
    /\ held = Bufs
    /\ request = NULL /\ pc = "idle"
    /\ fetched = Start /\ inflight = {}

Next ==
    \/ \E n \in Sizes, p \in Bufs : virtio_to_queue(n, p)
    \/ ToQueueAfterRead
    \/ PollQueue
    \/ virtio_from_queue
    \/ DeviceFetch
    \/ \E d \in inflight : DeviceUse(d)

Spec == Init /\ [][Next]_vars

-----------------------------------------------------------------------------
(* Properties *)

TypeOK ==
    /\ desc \in [Desc -> [next : Desc, more : BOOLEAN]]
    /\ data \in [Desc -> Bufs \cup {NULL}]
    /\ free_num \in 0 .. Num
    /\ {free_head, free_tail, last_used} \subseteq Desc
    /\ {last_used_idx, avail_idx, used_idx, fetched} \subseteq Index
    /\ avail_ring \in [Desc -> Desc] /\ used_ring \in [Desc -> Desc]
    /\ held \subseteq Bufs
    /\ request \in [size : Sizes, buf : Bufs] \cup {NULL}
    /\ pc \in {"idle", "read", "queue"}
    /\ inflight \subseteq Desc

(* The slots of a ring from index i up to index j. *)
Slots(i, j) == {(i + k) % Num : k \in 0 .. ((j - i) % Word) - 1}

Offered == {avail_ring[s] : s \in Slots(fetched, avail_idx)}

Returned == {used_ring[s] : s \in Slots(last_used_idx, used_idx)}

(* A request is where the protocol says and nowhere else: offered and not   *)
(* fetched, with the device, or returned and not read; those are the        *)
(* descriptors that have a data pointer, and the pointers there and the     *)
(* ones the driver holds are all there are.  So every request comes back,   *)
(* once, with the pointer it was queued with.                              *)
RequestsConserved ==
    /\ Cardinality(Offered) = (avail_idx - fetched) % Word
    /\ Cardinality(Returned) = (used_idx - last_used_idx) % Word
    /\ Offered \cap Returned = {} /\ (Offered \cup Returned) \cap inflight = {}
    /\ {d \in Desc : data[d] # NULL} = Offered \cup inflight \cup Returned
    /\ \A d, e \in Desc : data[d] # NULL /\ data[d] = data[e] => d = e
    /\ held = Bufs \ {data[d] : d \in Desc}

(* virtio_from_queue compares indices modulo the size of the ring, which    *)
(* tells "nothing new" from "all returned" only while a descriptor is free. *)
NoAlias == last_used = last_used_idx % Num /\ (NothingUsed <=> used_idx = last_used_idx)

FreeList == {Follow(desc, free_head, k) : k \in 0 .. free_num - 1}

ChainAt(d) ==
    {Follow(desc, d, k) : k \in {i \in Desc : \A j \in 0 .. i - 1 : desc[Follow(desc, d, j)].more}}

(* The assertions of set_direct_descriptors and virtio_from_queue, and what *)
(* they stand for: the free list is free_num descriptors long, has the next *)
(* bits, and ends at free_tail; the chains of the requests end, and share   *)
(* no descriptor with each other or with the free list.                    *)
FreeListExact ==
    LET heads == {d \in Desc : data[d] # NULL}
    IN  /\ free_num > 0
        /\ Cardinality(FreeList) = free_num
        /\ \A d \in FreeList : desc[d].more
        /\ free_tail = Follow(desc, free_head, free_num - 1)
        /\ \A h \in heads : /\ ChainAt(h) \cap FreeList = {}
                            /\ \E d \in ChainAt(h) : ~desc[d].more
                            /\ \A g \in heads \ {h} : ChainAt(g) \cap ChainAt(h) = {}
        /\ FreeList \cup UNION {ChainAt(h) : h \in heads} = Desc
=============================================================================
