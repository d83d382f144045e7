----------------------------- MODULE SlubProofs -----------------------------
(***************************************************************************)
(* What TLAPS proves of Slub, for every set of CPUs, of pages and of sizes: *)
(* that memory has one owner, that the lists of a CPU on which softirqs do  *)
(* not allocate change only under the thread that uses them, that free      *)
(* finds the right index, and that no memory is forgotten.                 *)
(*                                                                         *)
(* A step passes memory on: from a list to a caller, from the page allocator *)
(* to a list.  The invariant is about owners and the room set aside for     *)
(* them, which is what is passed on, and not about the bytes asked for.     *)
(* The second half, from What free goes by on, is about the index that each *)
(* object and each large block claims for its pages.                       *)
(***************************************************************************)
EXTENDS Slub, FiniteSetTheorems, SequenceTheorems, TLAPS

-----------------------------------------------------------------------------
(* Who owns which memory, in the sizes the allocator works with: a caller   *)
(* owns all of the object it asked a part of.                              *)

(* The bytes set aside for a caller that asked for size. *)
Room(size) ==
    IF IsLarge(size) THEN PageCount(size) * PAGE_4K_SIZE ELSE kmalloc_info[kmalloc_slab(size)]

Owner(kind, key, addr, room) == [kind |-> kind, key |-> key, addr |-> addr, room |-> room]

HeldOwner(b) == Owner("held", b, b.addr, Room(b.size))

FreeOwner(page) == Owner("free", page, page * PAGE_4K_SIZE, PAGE_4K_SIZE)

(* The objects of list l, which is the one of index s on CPU c. *)
ListOf(c, s, l) == {Owner("list", <<c, s, i>>, l[i], kmalloc_info[s]) : i \in DOMAIN l}

(* What a context has in hand: an object it frees or memory it prepares. *)
FreeingOwner(x) == Owner("freeing", x, loc[x].addr, kmalloc_info[loc[x].s])

PreparedOwner(x) ==
    Owner("malloc", x, loc[x].addr, IF IsLarge(loc[x].size) THEN Room(loc[x].size) ELSE PAGE_4K_SIZE)

InHand(x) ==
    (IF pc[x] = "link" THEN {FreeingOwner(x)} ELSE {})
        \cup (IF Preparing(x) THEN {PreparedOwner(x)} ELSE {})

HeldOwners == {HeldOwner(b) : b \in held}
FreeOwners == {FreeOwner(page) : page \in free}
ListsOf(c, lists) == UNION {ListOf(c, s, lists[s]) : s \in Indexes}
ListOwners == UNION {ListsOf(c, freehead[c]) : c \in Cpus}
HandOwners == UNION {InHand(x) : x \in Contexts}

Owners == HeldOwners \cup FreeOwners \cup ListOwners \cup HandOwners

Beside(o, p) == o.addr + o.room <= p.addr \/ p.addr + p.room <= o.addr

Apart(P) == \A o, p \in P : o # p => Beside(o, p)

Within(n, o) == o.addr <= n.addr /\ n.addr + n.room <= o.addr + o.room

(* Addresses are numbers and nobody owns nothing. *)
Sane(P) == \A o \in P : o.addr \in Nat /\ o.room \in Nat \ {0}

-----------------------------------------------------------------------------
(* The inductive invariant *)

(* The page or the run of pages behind size bytes at addr. *)
WholePages(addr) == PageOf(addr) \in Pages /\ addr = PageOf(addr) * PAGE_4K_SIZE

LargeBlock(addr, size) ==
    WholePages(addr) /\ Run(PageOf(addr), PageCount(size)) \in blocks

(* The locals of a context fit the place it has reached. *)
LocalsFit(x) ==
    /\ pc[x] \notin {"out", "link"} => loc[x].size \in Sizes
    /\ pc[x] \notin {"out", "link", "tag", "tagwrite"} => ~IsLarge(loc[x].size)
    /\ pc[x] \notin {"out", "link"} /\ ~IsLarge(loc[x].size) => loc[x].s = kmalloc_slab(loc[x].size)
    /\ pc[x] \in {"tag", "tagwrite"} => loc[x].tags # << >>
    /\ pc[x] \in {"tag", "tagwrite"} /\ IsLarge(loc[x].size) => LargeBlock(loc[x].addr, loc[x].size)
    /\ pc[x] \in {"chain", "push"} => WholePages(loc[x].addr)
    /\ pc[x] = "link" => loc[x].s \in Indexes
    /\ pc[x] = "pop" => loc[x].list # << >>

HeldFit == \A b \in held : IsLarge(b.size) => LargeBlock(b.addr, b.size)

(* Where softirqs do not allocate, a list is what its CPU last saw. *)
ListSeen(x) ==
    /\ pc[x] \in {"pop", "push", "link"} => List(x, loc[x].s) = loc[x].list
    /\ pc[x] \in {"tag", "tagwrite"} /\ ~IsLarge(loc[x].size) => List(x, loc[x].s) # << >>
    /\ pc[x] = "reload" => List(x, loc[x].s) # << >>

ListInv == \A c \in Cpus \ SoftirqCpus : ListSeen(<<c, "thread">>)

(* Blocks and free pages share nothing, and are pages there are. *)
HeapInv == Heap!Exclusive /\ \A r \in blocks : Heap!PagesOf(r) \subseteq Pages

Good ==
    /\ \A x \in Contexts : LocalsFit(x)
    /\ HeldFit
    /\ HeapInv
    /\ Apart(Owners)
    /\ ListInv

Inv == TypeOK /\ (damage = "none" => Good)
-----------------------------------------------------------------------------
(* Intervals *)

(* Being beside somebody is mutual. *)
LEMMA BesideSym == ASSUME NEW o, NEW p, Beside(o, p) PROVE Beside(p, o)
  BY DEF Beside

(* What lies inside a piece is beside everything the piece is beside. *)
LEMMA BesideInside ==
    ASSUME NEW n, NEW o, NEW p, Sane({n, o, p}), Within(n, o), Beside(o, p)
    PROVE  Beside(n, p)
  <1>1. /\ n.addr \in Nat /\ n.room \in Nat
        /\ o.addr \in Nat /\ o.room \in Nat
        /\ p.addr \in Nat /\ p.room \in Nat
    BY DEF Sane
  <1> QED
    BY <1>1 DEF Beside, Within

(* What an owner passes on stays apart: the pieces of Old are cut into, or  *)
(* joined by, those of New, and the others stay.                           *)
LEMMA Exchange ==
    ASSUME NEW P, NEW Q, NEW Old, NEW New, Apart(P), Apart(New),
           Q \subseteq (P \ Old) \cup New,
           \A n \in New, p \in P \ Old : Beside(n, p)
    PROVE  Apart(Q)
  <1> SUFFICES ASSUME NEW o \in Q, NEW p \in Q, o # p
               PROVE  Beside(o, p)
    BY DEF Apart
  <1>1. CASE o \in New /\ p \in New
    BY <1>1 DEF Apart
  <1>2. CASE o \in New /\ p \notin New
    BY <1>2
  <1>3. CASE o \notin New /\ p \in New
    BY <1>3, BesideSym
  <1>4. CASE o \notin New /\ p \notin New
    BY <1>4 DEF Apart
  <1> QED
    BY <1>1, <1>2, <1>3, <1>4

(* It is enough that every new piece lies inside an old one. *)
LEMMA Carry ==
    ASSUME NEW P, NEW Q, NEW Old, NEW New, Apart(P), Apart(New), Sane(P), Sane(New),
           Q \subseteq (P \ Old) \cup New, Old \subseteq P,
           \A n \in New : \E o \in Old : Within(n, o)
    PROVE  Apart(Q)
  <1> SUFFICES ASSUME NEW n \in New, NEW p \in P \ Old
               PROVE  Beside(n, p)
    BY Exchange
  <1>1. PICK o \in Old : Within(n, o)
    OBVIOUS
  <1>2. Beside(o, p)
    BY DEF Apart
  <1>3. Sane({n, o, p})
    BY DEF Sane
  <1> QED
    BY <1>1, <1>2, <1>3, BesideInside

-----------------------------------------------------------------------------
(* Sizes *)

(* The sizes of objects, one by one. *)
LEMMA Infos ==
    /\ Indexes = 1 .. 12
    /\ \A s \in Indexes : kmalloc_info[s] \in {96, 192, 8, 16, 32, 64, 128, 256, 512, 1024, 2048, 4096}
  BY DEF Indexes, kmalloc_info

(* Objects are not empty. *)
LEMMA InfoNat == \A s \in Indexes : kmalloc_info[s] \in Nat \ {0}
  BY Infos

(* The index of a size that is not large. *)
LEMMA SlabIndex ==
    ASSUME NEW size \in Sizes, ~IsLarge(size)
    PROVE  kmalloc_slab(size) \in Indexes /\ kmalloc_info[kmalloc_slab(size)] >= size
  <1>1. size \in 1 .. KMALLOC_MAX_CACHE_SIZE
    BY SlubAssumption DEF IsLarge, KMALLOC_MAX_CACHE_SIZE
  <1>2. kmalloc_slab(size) \in {s \in Indexes : kmalloc_info[s] >= size /\ kmalloc_info[s] >= 16}
    BY <1>1, KmallocFits
  <1> QED
    BY <1>2

(* The room set aside is at least what was asked for. *)
LEMMA RoomFits ==
    ASSUME NEW size \in Sizes
    PROVE  /\ Room(size) \in Nat \ {0} /\ Room(size) >= size
           /\ PageCount(size) \in Nat \ {0}
           /\ IsLarge(size) => PageCount(size) > 1
  <1>1. size \in Nat \ {0}
    BY SlubAssumption
  <1>2. PageCount(size) \in Nat \ {0} /\ PageCount(size) * PAGE_4K_SIZE >= size
    BY <1>1 DEF PageCount, PAGE_4K_SIZE
  <1>3. IsLarge(size) => PageCount(size) > 1
    BY <1>1 DEF PageCount, PAGE_4K_SIZE, IsLarge, KMALLOC_MAX_CACHE_SIZE
  <1>4. ~IsLarge(size) => Room(size) \in Nat \ {0} /\ Room(size) >= size
    BY SlabIndex, Infos DEF Room
  <1> QED
    BY <1>1, <1>2, <1>3, <1>4 DEF Room, PAGE_4K_SIZE

(* The objects of a page lie inside it, one behind the other. *)
LEMMA ObjectsInPage ==
    ASSUME NEW page \in Nat, NEW s \in Indexes
    PROVE  /\ Objects(page, s) \in Seq(Nat)
           /\ Len(Objects(page, s)) = PAGE_4K_SIZE \div kmalloc_info[s]
           /\ Len(Objects(page, s)) \in Nat \ {0}
           /\ \A k \in 1 .. Len(Objects(page, s)) :
                  /\ page * PAGE_4K_SIZE <= Objects(page, s)[k]
                  /\ Objects(page, s)[k] + kmalloc_info[s] <= page * PAGE_4K_SIZE + PAGE_4K_SIZE
           /\ \A j, k \in 1 .. Len(Objects(page, s)) :
                  j < k => Objects(page, s)[j] + kmalloc_info[s] <= Objects(page, s)[k]
  <1> DEFINE n == PAGE_4K_SIZE \div kmalloc_info[s]
             e(k) == page * PAGE_4K_SIZE + (k - 1) * kmalloc_info[s]
  <1>1. \A k \in 1 .. n : e(k) \in Nat
    BY Infos DEF PAGE_4K_SIZE
  <1>2. n \in Nat \ {0}
    BY Infos DEF PAGE_4K_SIZE
  <1>3. \A k \in 1 .. n : page * PAGE_4K_SIZE <= e(k) /\ e(k) + kmalloc_info[s] <= page * PAGE_4K_SIZE + PAGE_4K_SIZE
    BY Infos DEF PAGE_4K_SIZE
  <1>4. \A j, k \in 1 .. n : j < k => e(j) + kmalloc_info[s] <= e(k)
    BY Infos DEF PAGE_4K_SIZE
  <1>5. Objects(page, s) = [k \in 1 .. n |-> e(k)]
    BY DEF Objects
  <1> HIDE DEF n, e
  <1>6. Objects(page, s) \in Seq(Nat) /\ Len(Objects(page, s)) = n
    BY <1>1, <1>2, <1>5
  <1>7. \A k \in 1 .. n : Objects(page, s)[k] = e(k)
    BY <1>5
  <1> QED
    BY <1>2, <1>3, <1>4, <1>6, <1>7 DEF n

-----------------------------------------------------------------------------
(* Owners *)

(* Everybody owns something at an address. *)
LEMMA OwnersSane ==
    ASSUME TypeOK, \A x \in Contexts : LocalsFit(x)
    PROVE  Sane(Owners)
  <1>1. Sane(HeldOwners)
    BY RoomFits DEF TypeOK, Sane, HeldOwners, HeldOwner, Owner
  <1>2. Sane(FreeOwners)
    BY SlubAssumption DEF TypeOK, Sane, FreeOwners, FreeOwner, Owner, PAGE_4K_SIZE
  <1>3. ASSUME NEW c \in Cpus, NEW s \in Indexes
        PROVE  Sane(ListOf(c, s, freehead[c][s]))
    <2>1. freehead[c][s] \in Seq(Nat)
      BY <1>3 DEF TypeOK
    <2>2. \A i \in DOMAIN freehead[c][s] : freehead[c][s][i] \in Nat
      BY <2>1
    <2> QED
      BY <1>3, <2>2, Infos DEF Sane, ListOf, Owner
  <1>4. ASSUME NEW x \in Contexts
        PROVE  Sane(InHand(x))
    <2>1. loc[x].addr \in Nat
      BY <1>4 DEF TypeOK, Locals
    <2>2. pc[x] = "link" => Sane({FreeingOwner(x)})
      <3> SUFFICES ASSUME pc[x] = "link"
                   PROVE  Sane({FreeingOwner(x)})
        OBVIOUS
      <3>1. loc[x].s \in Indexes
        BY <1>4 DEF LocalsFit
      <3>2. kmalloc_info[loc[x].s] \in Nat \ {0}
        BY <3>1, Infos
      <3> QED
        BY <2>1, <3>2 DEF Sane, FreeingOwner, Owner
    <2>3. Preparing(x) => Sane({PreparedOwner(x)})
      BY <1>4, <2>1, RoomFits DEF LocalsFit, Sane, PreparedOwner, Preparing, Owner, PAGE_4K_SIZE
    <2> QED
      BY <2>2, <2>3 DEF Sane, InHand
  <1>5. Sane(ListOwners)
    BY <1>3 DEF Sane, ListOwners, ListsOf
  <1>6. Sane(HandOwners)
    BY <1>4 DEF Sane, HandOwners
  <1> QED
    BY <1>1, <1>2, <1>5, <1>6 DEF Sane, Owners

(* The kind of an owner tells where it is from. *)
LEMMA Kinds ==
    /\ \A o \in HeldOwners : o.kind = "held"
    /\ \A o \in FreeOwners : o.kind = "free"
    /\ \A o \in ListOwners : o.kind = "list"
    /\ \A o \in HandOwners : o.kind \in {"freeing", "malloc"}
    /\ \A x \in Contexts : \A o \in InHand(x) : o.key = x /\ o.kind \in {"freeing", "malloc"}
    /\ \A c \in Cpus, s \in Indexes : \A l : \A o \in ListOf(c, s, l) :
           o.kind = "list" /\ o.key[1] = c /\ o.key[2] = s
  <1>1. \A o \in HeldOwners : o.kind = "held"
    BY DEF HeldOwners, HeldOwner, Owner
  <1>2. \A o \in FreeOwners : o.kind = "free"
    BY DEF FreeOwners, FreeOwner, Owner
  <1>3. \A c \in Cpus, s \in Indexes : \A l : \A o \in ListOf(c, s, l) :
           o.kind = "list" /\ o.key[1] = c /\ o.key[2] = s
    BY DEF ListOf, Owner
  <1>4. \A x \in Contexts : \A o \in InHand(x) : o.key = x /\ o.kind \in {"freeing", "malloc"}
    BY DEF InHand, FreeingOwner, PreparedOwner, Owner
  <1>5. \A o \in ListOwners : o.kind = "list"
    BY <1>3 DEF ListOwners, ListsOf
  <1>6. \A o \in HandOwners : o.kind \in {"freeing", "malloc"}
    BY <1>4 DEF HandOwners
  <1> QED
    BY <1>1, <1>2, <1>3, <1>4, <1>5, <1>6

(* Only the context that takes a step changes what contexts have in hand. *)
LEMMA HandStep ==
    ASSUME NEW x \in Contexts, \A y \in Contexts \ {x} : pc'[y] = pc[y] /\ loc'[y] = loc[y]
    PROVE  HandOwners' \subseteq (HandOwners \ InHand(x)) \cup InHand(x)'
  <1>1. ASSUME NEW y \in Contexts \ {x}
        PROVE  InHand(y)' = InHand(y)
    BY <1>1 DEF InHand, FreeingOwner, PreparedOwner, Preparing
  <1>2. ASSUME NEW y \in Contexts \ {x}, NEW o \in InHand(y)
        PROVE  o \in HandOwners /\ o \notin InHand(x)
    BY <1>2, Kinds DEF HandOwners
  <1> SUFFICES ASSUME NEW o, o \in HandOwners', o \notin InHand(x)'
               PROVE  o \in HandOwners \ InHand(x)
    OBVIOUS
  <1>3. PICK y \in Contexts : o \in InHand(y)'
    BY DEF HandOwners
  <1>4. y # x
    BY <1>3
  <1> QED
    BY <1>1, <1>2, <1>3, <1>4

(* Writing one list changes the owners on that list only. *)
LEMMA ListStep ==
    ASSUME TypeOK, NEW x \in Contexts, NEW s \in Indexes, NEW l, SetList(x, s, l)
    PROVE  /\ ListOwners' \subseteq (ListOwners \ ListOf(x[1], s, List(x, s))) \cup ListOf(x[1], s, l)
           /\ ListOf(x[1], s, List(x, s)) \subseteq ListOwners
           /\ freehead'[x[1]][s] = l
           /\ \A c \in Cpus \ {x[1]} : freehead'[c] = freehead[c]
  <1>1. x[1] \in Cpus
    BY SlubAssumption DEF Contexts
  <1>2. \A c \in Cpus, t \in Indexes :
            freehead'[c][t] = IF c = x[1] /\ t = s THEN l ELSE freehead[c][t]
    BY <1>1 DEF TypeOK, SetList, this_cpu
  <1>3. ListOf(x[1], s, List(x, s)) \subseteq ListOwners
    BY <1>1 DEF ListOwners, ListsOf, List, this_cpu
  <1>4. freehead'[x[1]][s] = l
    BY <1>1, <1>2
  <1>5. \A c \in Cpus \ {x[1]} : freehead'[c] = freehead[c]
    BY <1>1 DEF TypeOK, SetList, this_cpu
  <1>6. ASSUME NEW o \in ListOwners', o \notin ListOf(x[1], s, l)
        PROVE  o \in ListOwners \ ListOf(x[1], s, List(x, s))
    <2>1. PICK c \in Cpus, t \in Indexes : o \in ListOf(c, t, freehead'[c][t])
      BY <1>6 DEF ListOwners, ListsOf
    <2>2. ~(c = x[1] /\ t = s)
      BY <1>2, <1>6, <2>1
    <2>3. o \in ListOf(c, t, freehead[c][t])
      BY <1>2, <2>1, <2>2
    <2>4. o \in ListOwners
      BY <2>3 DEF ListOwners, ListsOf
    <2>5. o \notin ListOf(x[1], s, List(x, s))
      BY <1>1, <2>2, <2>3, Kinds
    <2> QED
      BY <2>4, <2>5
  <1> QED
    BY <1>3, <1>4, <1>5, <1>6

-----------------------------------------------------------------------------
(* Steps *)

(* The lists of a CPU without softirqs are one context's. *)
LEMMA OneContext ==
    ASSUME NEW x \in Contexts
    PROVE  x[1] \in Cpus /\ (x[1] \notin SoftirqCpus => x = <<x[1], "thread">>)
  BY SlubAssumption DEF Contexts

(* A step of x leaves the locals and the lists of the others as they were, *)
(* as long as no block is taken back.                                      *)
LEMMA Frame ==
    ASSUME Good, NEW x \in Contexts, blocks \subseteq blocks',
           \A y \in Contexts \ {x} : pc'[y] = pc[y] /\ loc'[y] = loc[y],
           \A c \in Cpus \ {x[1]} : freehead'[c] = freehead[c],
           LocalsFit(x)', x[1] \notin SoftirqCpus => ListSeen(x)'
    PROVE  (\A y \in Contexts : LocalsFit(y)') /\ ListInv'
  <1>1. ASSUME NEW y \in Contexts \ {x}
        PROVE  LocalsFit(y)'
    <2>1. LocalsFit(y) /\ pc'[y] = pc[y] /\ loc'[y] = loc[y]
      BY <1>1 DEF Good
    <2> QED
      BY <2>1 DEF LocalsFit, LargeBlock
  <1>2. ASSUME NEW c \in Cpus \ SoftirqCpus
        PROVE  ListSeen(<<c, "thread">>)'
    <2>1. CASE x = <<c, "thread">>
      BY <1>2, <2>1
    <2>2. CASE x # <<c, "thread">>
      <3> DEFINE y == <<c, "thread">>
      <3>1. y \in Contexts \ {x} /\ c # x[1]
        BY <1>2, <2>2, OneContext DEF Contexts
      <3>2. pc'[y] = pc[y] /\ loc'[y] = loc[y] /\ freehead'[c] = freehead[c]
        BY <1>2, <3>1
      <3>3. ListSeen(y)
        BY <1>2 DEF Good, ListInv
      <3> QED
        BY <3>2, <3>3 DEF ListSeen, List, this_cpu
    <2> QED
      BY <2>1, <2>2
  <1> QED
    BY <1>1, <1>2 DEF ListInv

(* The same with nothing handed on: the locals of x change, no memory does. *)
LEMMA Stay ==
    ASSUME Good, NEW x \in Contexts, UNCHANGED <<freehead, held, free, blocks>>,
           \A y \in Contexts \ {x} : pc'[y] = pc[y] /\ loc'[y] = loc[y],
           InHand(x)' = InHand(x), LocalsFit(x)', x[1] \notin SoftirqCpus => ListSeen(x)'
    PROVE  Good'
  <1>1. (\A y \in Contexts : LocalsFit(y)') /\ ListInv'
    BY Frame
  <1>2. HeldFit' /\ HeapInv'
    BY DEF Good, HeldFit, LargeBlock, HeapInv, Heap!Exclusive, Heap!PagesOf
  <1>3. HandOwners' \subseteq HandOwners
    BY HandStep DEF HandOwners
  <1>4. HeldOwners' = HeldOwners /\ FreeOwners' = FreeOwners /\ ListOwners' = ListOwners
    BY DEF HeldOwners, FreeOwners, ListOwners
  <1>5. Apart(Owners)'
    BY <1>3, <1>4 DEF Good, Apart, Owners
  <1> QED
    BY <1>1, <1>2, <1>5 DEF Good

(* What a step of x does to its locals. *)
LEMMA LocalStep ==
    ASSUME TypeOK, NEW x \in Contexts, NEW l, NEW v, Goto(x, l), loc' = [loc EXCEPT ![x] = v]
    PROVE  /\ pc'[x] = l /\ loc'[x] = v
           /\ \A y \in Contexts \ {x} : pc'[y] = pc[y] /\ loc'[y] = loc[y]
  BY DEF TypeOK, Goto

(* The lists a context works on. *)
LEMMA ListType ==
    ASSUME TypeOK, NEW x \in Contexts, NEW s \in Indexes
    PROVE  List(x, s) \in Seq(Nat) /\ s \in 0 .. LARGE_IDX
  <1>1. List(x, s) \in Seq(Nat)
    BY OneContext DEF TypeOK, List, this_cpu
  <1> QED
    BY <1>1, Infos DEF LARGE_IDX

(* The other half of a page's byte is a page: MaxPage is odd. *)
LEMMA BuddyPage == \A page \in PageNumbers : Buddy(page) \in PageNumbers
  BY SlubAssumption DEF Buddy, PageNumbers

(* A context outside of malloc and free has no locals. *)
LEMMA NoLocalsFit ==
    /\ NoLocals \in Locals
    /\ NoLocals = [size |-> 0, s |-> 0, list |-> << >>, addr |-> 0, tags |-> << >>, bits |-> 0]
  BY DEF Locals, NoLocals, LARGE_IDX

(* __kmalloc looks at the list of its size. *)
LEMMA KmallocStep ==
    ASSUME Inv, damage = "none", NEW x \in Contexts, NEW size \in Sizes, kmalloc(x, size)
    PROVE  Inv'
  <1> DEFINE s == kmalloc_slab(size)
             l == IF List(x, s) = << >> THEN "page" ELSE "pop"
             v == [NoLocals EXCEPT !.size = size, !.s = s, !.list = List(x, s)]
  <1>0. TypeOK /\ Good
    BY DEF Inv
  <1>1. s \in Indexes /\ List(x, s) \in Seq(Nat) /\ s \in 0 .. LARGE_IDX
    BY <1>0, SlabIndex, ListType DEF kmalloc
  <1>2. v \in Locals /\ v.size = size /\ v.s = s /\ v.list = List(x, s)
    <2>1. size \in Nat
      BY SlubAssumption
    <2> HIDE DEF s
    <2> QED
      BY <1>1, <2>1, NoLocalsFit DEF Locals
  <1>3. /\ pc[x] = "out" /\ ~IsLarge(size) /\ Goto(x, l) /\ loc' = [loc EXCEPT ![x] = v]
        /\ UNCHANGED <<page_bits, freehead, heapvars, held, histvars>>
    BY DEF kmalloc, At
  <1> HIDE DEF v
  <1>4. TypeOK'
    BY <1>0, <1>2, <1>3 DEF TypeOK, Goto, heapvars, histvars
  <1>5. /\ pc'[x] = l /\ loc'[x] = v
        /\ \A y \in Contexts \ {x} : pc'[y] = pc[y] /\ loc'[y] = loc[y]
    BY <1>0, <1>3, LocalStep
  <1>6. InHand(x)' = InHand(x)
    BY <1>3, <1>5 DEF InHand, Preparing
  <1>7. LocalsFit(x)'
    BY <1>2, <1>3, <1>5 DEF LocalsFit
  <1>8. ListSeen(x)'
    BY <1>2, <1>3, <1>5 DEF ListSeen, List
  <1>9. Good'
    BY <1>0, <1>3, <1>5, <1>6, <1>7, <1>8, Stay DEF heapvars
  <1> QED
    BY <1>4, <1>9 DEF Inv

(* pfree->pnext = s->freehead. *)
LEMMA ChainStep ==
    ASSUME Inv, damage = "none", NEW x \in Contexts, Chain(x)
    PROVE  Inv'
  <1> DEFINE v == [loc[x] EXCEPT !.list = List(x, loc[x].s)]
  <1>0. TypeOK /\ Good /\ LocalsFit(x)
    BY DEF Inv, Good
  <1>1. /\ pc[x] = "chain" /\ Goto(x, "push") /\ loc' = [loc EXCEPT ![x] = v]
        /\ UNCHANGED <<page_bits, freehead, heapvars, held, histvars>>
    BY DEF Chain, At
  <1>2. loc[x] \in Locals
    BY <1>0 DEF TypeOK
  <1>3. List(x, loc[x].s) \in Seq(Nat)
    BY <1>0, <1>1, SlabIndex, ListType DEF LocalsFit
  <1>4. /\ v \in Locals /\ v.size = loc[x].size /\ v.s = loc[x].s /\ v.addr = loc[x].addr
        /\ v.list = List(x, loc[x].s)
    BY <1>2, <1>3 DEF Locals
  <1> HIDE DEF v
  <1>5. TypeOK'
    BY <1>0, <1>1, <1>4 DEF TypeOK, Goto, heapvars, histvars
  <1>6. /\ pc'[x] = "push" /\ loc'[x] = v
        /\ \A y \in Contexts \ {x} : pc'[y] = pc[y] /\ loc'[y] = loc[y]
    BY <1>0, <1>1, LocalStep
  <1>7. InHand(x)' = InHand(x)
    BY <1>1, <1>4, <1>6 DEF InHand, Preparing, PreparedOwner
  <1>8. LocalsFit(x)'
    BY <1>0, <1>1, <1>4, <1>6 DEF LocalsFit
  <1>9. ListSeen(x)'
    BY <1>1, <1>4, <1>6 DEF ListSeen, List
  <1>10. Good'
    BY <1>0, <1>1, <1>6, <1>7, <1>8, <1>9, Stay DEF heapvars
  <1> QED
    BY <1>5, <1>10 DEF Inv

(* The byte of page_bits is read. *)
LEMMA TagReadStep ==
    ASSUME Inv, damage = "none", NEW x \in Contexts, TagRead(x)
    PROVE  Inv'
  <1> DEFINE v == [loc[x] EXCEPT !.bits = page_bits[Buddy(loc[x].tags[1][1])]]
  <1>0. TypeOK /\ Good /\ LocalsFit(x) /\ (x[1] \notin SoftirqCpus => ListSeen(x))
    BY OneContext DEF Inv, Good, ListInv
  <1>1. /\ pc[x] = "tag" /\ Goto(x, "tagwrite") /\ loc' = [loc EXCEPT ![x] = v]
        /\ UNCHANGED <<page_bits, freehead, heapvars, held, histvars>>
    BY DEF TagRead, At
  <1>2. loc[x] \in Locals /\ loc[x].tags # << >>
    BY <1>0, <1>1 DEF TypeOK, LocalsFit
  <1>3. loc[x].tags[1][1] \in PageNumbers
    BY <1>2 DEF Locals
  <1>4. page_bits[Buddy(loc[x].tags[1][1])] \in 0 .. LARGE_IDX
    BY <1>0, <1>3, BuddyPage DEF TypeOK
  <1>5. /\ v \in Locals /\ v.size = loc[x].size /\ v.s = loc[x].s /\ v.addr = loc[x].addr
        /\ v.tags = loc[x].tags
    <2> DEFINE b == page_bits[Buddy(loc[x].tags[1][1])]
    <2>1. b \in 0 .. LARGE_IDX
      BY <1>4
    <2> HIDE DEF b
    <2>2. v = [loc[x] EXCEPT !.bits = b]
      BY DEF b
    <2> HIDE DEF v
    <2> QED
      BY <1>2, <2>1, <2>2 DEF Locals
  <1> HIDE DEF v
  <1>6. TypeOK'
    BY <1>0, <1>1, <1>5 DEF TypeOK, Goto, heapvars, histvars
  <1>7. /\ pc'[x] = "tagwrite" /\ loc'[x] = v
        /\ \A y \in Contexts \ {x} : pc'[y] = pc[y] /\ loc'[y] = loc[y]
    BY <1>0, <1>1, LocalStep
  <1>8. InHand(x)' = InHand(x)
    BY <1>1, <1>5, <1>7 DEF InHand, Preparing, PreparedOwner
  <1>9. LocalsFit(x)'
    BY <1>0, <1>1, <1>2, <1>5, <1>7 DEF LocalsFit, LargeBlock, heapvars
  <1>10. x[1] \notin SoftirqCpus => ListSeen(x)'
    BY <1>0, <1>1, <1>5, <1>7 DEF ListSeen, List
  <1>11. Good'
    BY <1>0, <1>1, <1>7, <1>8, <1>9, <1>10, Stay DEF heapvars
  <1> QED
    BY <1>6, <1>11 DEF Inv

(* pfree = s->freehead. *)
LEMMA ReloadStep ==
    ASSUME Inv, damage = "none", NEW x \in Contexts, Reload(x)
    PROVE  Inv'
  <1> DEFINE v == [loc[x] EXCEPT !.list = List(x, loc[x].s)]
  <1>0. TypeOK /\ Good /\ LocalsFit(x)
    BY DEF Inv, Good
  <1>1. /\ pc[x] = "reload" /\ Goto(x, "pop") /\ loc' = [loc EXCEPT ![x] = v]
        /\ UNCHANGED <<page_bits, freehead, heapvars, held, lost>>
        /\ damage' = IF List(x, loc[x].s) = << >> THEN "list" ELSE "none"
    BY DEF Reload, At, Broken, histvars
  <1>2. loc[x] \in Locals
    BY <1>0 DEF TypeOK
  <1>3. List(x, loc[x].s) \in Seq(Nat)
    BY <1>0, <1>1, SlabIndex, ListType DEF LocalsFit
  <1>4. v \in Locals /\ v.size = loc[x].size /\ v.s = loc[x].s /\ v.list = List(x, loc[x].s)
    BY <1>2, <1>3 DEF Locals
  <1> HIDE DEF v
  <1>5. TypeOK'
    BY <1>0, <1>1, <1>4 DEF TypeOK, Goto, heapvars
  <1>6. /\ pc'[x] = "pop" /\ loc'[x] = v
        /\ \A y \in Contexts \ {x} : pc'[y] = pc[y] /\ loc'[y] = loc[y]
    BY <1>0, <1>1, LocalStep
  <1>7. InHand(x)' = InHand(x)
    BY <1>1, <1>6 DEF InHand, Preparing
  <1>8. damage' = "none" => LocalsFit(x)'
    BY <1>0, <1>1, <1>4, <1>6 DEF LocalsFit
  <1>9. ListSeen(x)'
    BY <1>1, <1>4, <1>6 DEF ListSeen, List
  <1>10. damage' = "none" => Good'
    BY <1>0, <1>1, <1>6, <1>7, <1>8, <1>9, Stay DEF heapvars
  <1> QED
    BY <1>5, <1>10 DEF Inv

(* Owners stay apart when each part of them is kept or is cut from Old. *)
LEMMA Pass ==
    ASSUME TypeOK, Good, NEW Old, NEW New, Old \subseteq Owners, Sane(New), Apart(New),
           \A n \in New : \E o \in Old : Within(n, o),
           HeldOwners' \subseteq (HeldOwners \ Old) \cup New,
           FreeOwners' \subseteq (FreeOwners \ Old) \cup New,
           ListOwners' \subseteq (ListOwners \ Old) \cup New,
           HandOwners' \subseteq (HandOwners \ Old) \cup New
    PROVE  Apart(Owners)'
  <1>1. Owners' \subseteq (Owners \ Old) \cup New
    BY DEF Owners
  <1>2. Sane(Owners) /\ Apart(Owners)
    BY OwnersSane DEF Good
  <1>3. Apart(Owners')
    BY <1>1, <1>2, Carry
  <1> QED
    BY <1>3 DEF Apart

(* What the page allocator hands out is a run of pages there are. *)
LEMMA RunType ==
    ASSUME TypeOK, NEW n \in Nat \ {0}, NEW page \in Fits(n)
    PROVE  /\ page \in Pages /\ page \in Nat \ {0}
           /\ Run(page, n) \in [addr : Pages, size : 1 .. MaxPage]
           /\ Heap!PagesOf(Run(page, n)) = page .. page + n - 1
           /\ page .. page + n - 1 \subseteq free
  <1>1. page \in Pages /\ page \in 1 .. MaxPage
    BY SlubAssumption DEF Fits
  <1>2. Heap!PagesOf(Run(page, n)) = page .. page + n - 1
    BY DEF Heap!PagesOf, Run
  <1>3. page .. page + n - 1 \subseteq free
    BY <1>2 DEF Fits
  <1>4. page + n - 1 \in 1 .. MaxPage
    <2>1. page + n - 1 \in page .. page + n - 1
      BY <1>1
    <2> QED
      BY <1>3, <2>1, SlubAssumption DEF TypeOK
  <1>5. n \in 1 .. MaxPage
    BY <1>1, <1>4, SlubAssumption
  <1> QED
    BY <1>1, <1>2, <1>3, <1>5 DEF Run

(* The page allocator keeps its promise. *)
LEMMA HeapStep ==
    ASSUME NEW b, TypeOK, HeapInv, Heap!Alloc(b) \/ Heap!Free(b)
    PROVE  HeapInv'
  <1>1. CASE Heap!Alloc(b)
    <2>1. Heap!Exclusive'
      BY <1>1, Zenon DEF HeapInv, Heap!Exclusive, Heap!Alloc
    <2>2. free \subseteq Pages
      BY DEF TypeOK
    <2> QED
      BY <1>1, <2>1, <2>2, Zenon DEF HeapInv, Heap!Alloc
  <1>2. CASE Heap!Free(b)
    <2>1. Heap!Exclusive'
      BY <1>2, Zenon DEF HeapInv, Heap!Exclusive, Heap!Free
    <2> QED
      BY <1>2, <2>1, Zenon DEF HeapInv, Heap!Free
  <1> QED
    BY <1>1, <1>2

(* slub_add_page gets a page: its owner is the context now. *)
LEMMA AddPageStep ==
    ASSUME Inv, damage = "none", NEW x \in Contexts, AddPage(x)
    PROVE  Inv'
  <1>0. TypeOK /\ Good /\ LocalsFit(x)
    BY DEF Inv, Good
  <1>1. PICK page \in Fits(1) :
            /\ Heap!Alloc(Run(page, 1))
            /\ loc' = [loc EXCEPT ![x].addr = page * PAGE_4K_SIZE]
    BY DEF AddPage
  <1> DEFINE v == [loc[x] EXCEPT !.addr = page * PAGE_4K_SIZE]
  <1>2. /\ pc[x] = "page" /\ Goto(x, "chain") /\ loc' = [loc EXCEPT ![x] = v]
        /\ UNCHANGED <<page_bits, freehead, held, histvars>>
    BY <1>1 DEF AddPage, At
  <1>3. /\ page \in Pages /\ page \in Nat \ {0}
        /\ Run(page, 1) \in [addr : Pages, size : 1 .. MaxPage]
        /\ Heap!PagesOf(Run(page, 1)) = {page} /\ page \in free
    BY <1>0, RunType
  <1>4. /\ free' = free \ {page} /\ blocks' = blocks \cup {Run(page, 1)}
    BY <1>1, <1>3 DEF Heap!Alloc
  <1>5. loc[x] \in Locals
    BY <1>0 DEF TypeOK
  <1>6. /\ v \in Locals /\ v.size = loc[x].size /\ v.s = loc[x].s /\ v.addr = page * PAGE_4K_SIZE
    <2>1. \A a \in Nat : LET w == [loc[x] EXCEPT !.addr = a]
                         IN  w \in Locals /\ w.size = loc[x].size /\ w.s = loc[x].s /\ w.addr = a
      BY <1>5 DEF Locals
    <2>2. page * PAGE_4K_SIZE \in Nat
      BY <1>3 DEF PAGE_4K_SIZE
    <2> QED
      BY <2>1, <2>2
  <1> HIDE DEF v
  <1>7. TypeOK'
    BY <1>0, <1>2, <1>3, <1>4, <1>6 DEF TypeOK, Goto, histvars
  <1>8. /\ pc'[x] = "chain" /\ loc'[x] = v
        /\ \A y \in Contexts \ {x} : pc'[y] = pc[y] /\ loc'[y] = loc[y]
    BY <1>0, <1>2, LocalStep
  <1>9. PageOf(v.addr) = page
    BY <1>3, <1>6 DEF PageOf, PAGE_4K_SIZE
  <1>10. LocalsFit(x)'
    BY <1>0, <1>2, <1>3, <1>6, <1>8, <1>9 DEF LocalsFit, WholePages
  <1>11. ListSeen(x)'
    BY <1>8 DEF ListSeen
  <1>12. (\A y \in Contexts : LocalsFit(y)') /\ ListInv'
    BY <1>0, <1>2, <1>4, <1>8, <1>10, <1>11, Frame
  <1>13. HeldFit'
    BY <1>0, <1>2, <1>4 DEF Good, HeldFit, LargeBlock
  <1>14. HeapInv'
    BY <1>0, <1>1, HeapStep DEF Good
  <1>15. Apart(Owners)'
    <2> DEFINE Old == {FreeOwner(page)}
               New == {PreparedOwner(x)'}
    <2>1. Old \subseteq FreeOwners
      BY <1>3 DEF FreeOwners
    <2>2. PreparedOwner(x)' = Owner("malloc", x, page * PAGE_4K_SIZE, PAGE_4K_SIZE)
      BY <1>0, <1>2, <1>6, <1>8 DEF PreparedOwner, LocalsFit
    <2>3. Sane(New) /\ Apart(New) /\ \A n \in New : \E o \in Old : Within(n, o)
      BY <1>3, <2>2 DEF Sane, Apart, Within, Owner, FreeOwner, PAGE_4K_SIZE
    <2>4. HandOwners' \subseteq (HandOwners \ Old) \cup New
      <3>1. InHand(x)' \subseteq New
        BY <1>8 DEF InHand
      <3>2. HandOwners' \subseteq HandOwners \cup InHand(x)'
        BY <1>8, HandStep
      <3> QED
        BY <2>1, <3>1, <3>2, Kinds
    <2>5. FreeOwners' \subseteq (FreeOwners \ Old) \cup New
      BY <1>3, <1>4 DEF FreeOwners, FreeOwner, Owner
    <2>6. HeldOwners' = HeldOwners /\ ListOwners' = ListOwners
      BY <1>2 DEF HeldOwners, ListOwners
    <2>7. HeldOwners \subseteq HeldOwners \ Old /\ ListOwners \subseteq ListOwners \ Old
      BY <2>1, Kinds
    <2>8. Old \subseteq Owners
      BY <2>1 DEF Owners
    <2> HIDE DEF Old, New
    <2> QED
      BY <1>0, <2>3, <2>4, <2>5, <2>6, <2>7, <2>8, Pass
  <1> QED
    BY <1>7, <1>12, <1>13, <1>14, <1>15 DEF Inv, Good

(* Pieces inside pieces that are beside each other. *)
LEMMA BesideInside2 ==
    ASSUME NEW n, NEW m, NEW o, NEW p, Sane({n, m, o, p}), Within(n, o), Within(m, p), Beside(o, p)
    PROVE  Beside(n, m)
  <1>1. Beside(n, p)
    BY BesideInside DEF Sane
  <1>2. Beside(m, n)
    BY <1>1, BesideInside, BesideSym DEF Sane
  <1> QED
    BY <1>2, BesideSym

(* A list stays a list of addresses. *)
LEMMA ListWriteType ==
    ASSUME TypeOK, NEW x \in Contexts, NEW s \in Indexes, NEW l \in Seq(Nat), SetList(x, s, l)
    PROVE  freehead' \in [Cpus -> [Indexes -> Seq(Nat)]]
  BY OneContext DEF TypeOK, SetList, this_cpu

(* What a context has in hand goes to the front of its list, whole or cut   *)
(* into objects.                                                           *)
LEMMA Prepend ==
    ASSUME TypeOK, Good, NEW x \in Contexts, NEW s \in Indexes, NEW front \in Seq(Nat),
           NEW o \in InHand(x), UNCHANGED <<held, free>>,
           \A y \in Contexts \ {x} : pc'[y] = pc[y] /\ loc'[y] = loc[y],
           InHand(x)' = {}, SetList(x, s, front \o List(x, s)),
           \A k \in 1 .. Len(front) :
               o.addr <= front[k] /\ front[k] + kmalloc_info[s] <= o.addr + o.room,
           \A j, k \in 1 .. Len(front) : j < k => front[j] + kmalloc_info[s] <= front[k]
    PROVE  Apart(Owners)'
  <1> DEFINE c == x[1]
             L == List(x, s)
             l == front \o L
             N == Len(front)
             piece(i) == Owner("list", <<c, s, i>>, l[i], kmalloc_info[s])
             was(i) == IF i <= N THEN o ELSE Owner("list", <<c, s, i - N>>, L[i - N], kmalloc_info[s])
             Old == InHand(x) \cup ListOf(c, s, L)
             New == ListOf(c, s, l)
  <1>1. L \in Seq(Nat) /\ N \in Nat /\ l \in Seq(Nat) /\ Len(l) = N + Len(L) /\ DOMAIN l = 1 .. Len(l)
    BY ListType
  <1>2. /\ \A i \in DOMAIN l : i <= N => i \in 1 .. N /\ l[i] = front[i]
        /\ \A i \in DOMAIN l : i > N => i - N \in DOMAIN L /\ l[i] = L[i - N]
        /\ \A i \in DOMAIN l : i \in Nat /\ l[i] \in Nat /\ (i <= N \/ i > N)
    BY <1>1
  <1>3. New = {piece(i) : i \in DOMAIN l}
    BY DEF ListOf
  <1>4. /\ ListOwners' \subseteq (ListOwners \ ListOf(c, s, L)) \cup New
        /\ ListOf(c, s, L) \subseteq ListOwners
    BY ListStep
  <1>5. kmalloc_info[s] \in Nat \ {0} /\ c \in Cpus
    <2>1. c \in Cpus
      BY OneContext
    <2>2. kmalloc_info[s] \in Nat \ {0}
      BY InfoNat
    <2> QED
      BY <2>1, <2>2
  <1>6. Old \subseteq Owners
    BY <1>4 DEF Owners, HandOwners
  <1>7. \A i \in DOMAIN l : was(i) \in Old
    <2>1. ASSUME NEW i \in DOMAIN l, i > N
          PROVE  Owner("list", <<c, s, i - N>>, L[i - N], kmalloc_info[s]) \in ListOf(c, s, L)
      BY <1>2, <2>1 DEF ListOf
    <2>2. \A i \in DOMAIN l : i > N => was(i) \in Old
      BY <1>2, <2>1
    <2>3. \A i \in DOMAIN l : i <= N => was(i) \in Old
      OBVIOUS
    <2> HIDE DEF was, N, l, Old
    <2> QED
      BY <1>2, <2>2, <2>3
  <1>8. Sane(Old)
    BY <1>6, OwnersSane DEF Sane, Good
  <1>9. \A i \in DOMAIN l :
            /\ piece(i).addr = l[i] /\ piece(i).room = kmalloc_info[s]
            /\ i > N => was(i).addr = L[i - N] /\ was(i).room = kmalloc_info[s]
    BY <1>1, <1>2 DEF Owner
  <1>10. \A i \in DOMAIN l : Sane({piece(i)})
    <2> HIDE DEF piece, was, l, L, N
    <2> QED
      BY <1>2, <1>5, <1>9 DEF Sane
  <1>11. \A i \in DOMAIN l : Within(piece(i), was(i))
    <2>1. ASSUME NEW i \in DOMAIN l, i <= N
          PROVE  Within(piece(i), was(i))
      BY <1>2, <1>9, <2>1 DEF Within
    <2>2. ASSUME NEW i \in DOMAIN l, i > N
          PROVE  Within(piece(i), was(i))
      <3>1. piece(i).addr = was(i).addr /\ piece(i).room = was(i).room
        BY <1>2, <1>9, <2>2
      <3>2. piece(i).addr \in Nat /\ piece(i).room \in Nat
        BY <1>2, <1>5, <1>9
      <3> QED
        BY <3>1, <3>2 DEF Within
    <2> HIDE DEF piece, was, l, L, N
    <2> QED
      BY <1>2, <2>1, <2>2
  <1>12. ASSUME NEW i \in DOMAIN l, NEW j \in DOMAIN l, i < j
         PROVE  Beside(piece(i), piece(j))
    <2>1. CASE j <= N
      <3>1. l[i] + kmalloc_info[s] <= l[j]
        BY <1>1, <1>2, <1>12, <2>1
      <3> QED
        BY <1>9, <3>1 DEF Beside
    <2>2. CASE j > N
      <3>1. was(i) # was(j)
        <4>1. CASE i <= N
          <5>1. was(i) = o /\ o.kind \in {"freeing", "malloc"}
            BY <4>1, Kinds
          <5>2. was(j) = Owner("list", <<c, s, j - N>>, L[j - N], kmalloc_info[s])
            BY <1>1, <1>2, <2>2
          <5>3. was(j).kind = "list"
            BY <5>2 DEF Owner
          <5> HIDE DEF was
          <5> QED
            BY <5>1, <5>3
        <4>2. CASE i > N
          BY <1>1, <1>2, <1>12, <2>2, <4>2 DEF Owner
        <4> QED
          BY <1>1, <1>2, <4>1, <4>2
      <3>2. Beside(was(i), was(j))
        BY <1>6, <1>7, <3>1 DEF Good, Apart
      <3>3. Sane({piece(i), piece(j), was(i), was(j)})
        BY <1>7, <1>8, <1>10 DEF Sane
      <3> HIDE DEF piece, was
      <3> QED
        BY <1>11, <3>2, <3>3, BesideInside2
    <2> HIDE DEF piece, was, l, L, N
    <2> QED
      BY <1>2, <2>1, <2>2
  <1> HIDE DEF piece, was, l, N, c, L
  <1>13. Apart(New)
    <2> SUFFICES ASSUME NEW i \in DOMAIN l, NEW j \in DOMAIN l, piece(i) # piece(j)
                 PROVE  Beside(piece(i), piece(j))
      BY <1>3 DEF Apart
    <2>1. i \in Nat /\ j \in Nat /\ i # j
      BY <1>2
    <2> QED
      BY <1>12, <2>1, BesideSym
  <1>14. Sane(New)
    BY <1>3, <1>10 DEF Sane
  <1>15. \A n \in New : \E p \in Old : Within(n, p)
    BY <1>3, <1>7, <1>11
  <1>16. /\ HeldOwners' = HeldOwners /\ FreeOwners' = FreeOwners
         /\ HandOwners' \subseteq HandOwners \ InHand(x)
    BY HandStep DEF HeldOwners, FreeOwners
  <1>17. \A p \in Old : p.kind \in {"freeing", "malloc", "list"}
    BY <1>5, Kinds DEF c
  <1>18. /\ \A p \in HeldOwners \cup FreeOwners : p \notin Old
         /\ \A p \in ListOwners : p \notin InHand(x)
         /\ \A p \in HandOwners : p \notin ListOf(c, s, L)
    BY <1>5, <1>17, Kinds DEF c
  <1> QED
    BY <1>4, <1>6, <1>13, <1>14, <1>15, <1>16, <1>18, Pass DEF c, L

(* s->freehead = addr: the objects of the new page are on the list. *)
LEMMA PushStep ==
    ASSUME Inv, damage = "none", NEW x \in Contexts, Push(x)
    PROVE  Inv'
  <1> DEFINE s == loc[x].s
             page == PageOf(loc[x].addr)
             tags == <<<<page, s>>>>
             v == [loc[x] EXCEPT !.tags = tags]
             l == Objects(page, s) \o loc[x].list
  <1>0. TypeOK /\ Good /\ LocalsFit(x)
    BY DEF Inv, Good
  <1>1. /\ pc[x] = "push" /\ Goto(x, "tag") /\ loc' = [loc EXCEPT ![x] = v]
        /\ UNCHANGED <<page_bits, heapvars, held, lost>> /\ SetList(x, s, l)
        /\ damage' = IF List(x, s) = loc[x].list THEN "none" ELSE "list"
    BY DEF Push, At, Broken, histvars
  <1>2. loc[x] \in Locals
    BY <1>0 DEF TypeOK
  <1>3. s \in Indexes /\ s \in 1 .. LARGE_IDX
    <2>1. s \in Indexes
      BY <1>0, <1>1, SlabIndex DEF LocalsFit
    <2> QED
      BY <2>1, Infos DEF LARGE_IDX
  <1>4. page \in Pages /\ page \in PageNumbers /\ page \in Nat /\ loc[x].addr = page * PAGE_4K_SIZE
    BY <1>0, <1>1, SlubAssumption DEF LocalsFit, WholePages, PageNumbers
  <1>5. tags \in Seq(PageNumbers \X (1 .. LARGE_IDX)) /\ tags # << >>
    BY <1>3, <1>4
  <1> HIDE DEF tags
  <1>6. /\ v \in Locals /\ v.size = loc[x].size /\ v.s = loc[x].s /\ v.addr = loc[x].addr
        /\ v.tags = tags
    BY <1>2, <1>5 DEF Locals
  <1> HIDE DEF v, page
  <1>7. /\ Objects(page, s) \in Seq(Nat) /\ loc[x].list \in Seq(Nat) /\ l \in Seq(Nat) /\ l # << >>
    <2>1. Objects(page, s) \in Seq(Nat) /\ Len(Objects(page, s)) \in Nat \ {0}
      BY <1>3, <1>4, ObjectsInPage
    <2>2. loc[x].list \in Seq(Nat)
      BY <1>2 DEF Locals
    <2> QED
      BY <2>1, <2>2
  <1> HIDE DEF l, s
  <1>8. freehead' \in [Cpus -> [Indexes -> Seq(Nat)]]
    BY <1>0, <1>1, <1>3, <1>7, ListWriteType
  <1>9. TypeOK'
    BY <1>0, <1>1, <1>6, <1>8 DEF TypeOK, Goto, heapvars
  <1>10. /\ pc'[x] = "tag" /\ loc'[x] = v
         /\ \A y \in Contexts \ {x} : pc'[y] = pc[y] /\ loc'[y] = loc[y]
    BY <1>0, <1>1, LocalStep
  <1>11. /\ freehead'[x[1]][s] = l
         /\ \A c \in Cpus \ {x[1]} : freehead'[c] = freehead[c]
    BY <1>0, <1>1, <1>3, ListStep
  <1>12. LocalsFit(x)'
    BY <1>0, <1>1, <1>5, <1>6, <1>10 DEF LocalsFit
  <1>13. ListSeen(x)'
    BY <1>6, <1>7, <1>10, <1>11 DEF ListSeen, List, this_cpu, s
  <1>14. (\A y \in Contexts : LocalsFit(y)') /\ ListInv'
    BY <1>0, <1>1, <1>10, <1>11, <1>12, <1>13, Frame DEF heapvars
  <1>15. HeldFit' /\ HeapInv'
    BY <1>0, <1>1 DEF Good, HeldFit, LargeBlock, HeapInv, Heap!Exclusive, Heap!PagesOf, heapvars
  <1>16. ASSUME damage' = "none"
         PROVE  Apart(Owners)'
    <2>1. l = Objects(page, s) \o List(x, s)
      BY <1>1, <1>16 DEF l, s, page
    <2>2. /\ PreparedOwner(x) \in InHand(x)
          /\ PreparedOwner(x).addr = page * PAGE_4K_SIZE /\ PreparedOwner(x).room = PAGE_4K_SIZE
      BY <1>0, <1>1, <1>4 DEF InHand, Preparing, PreparedOwner, Owner, LocalsFit
    <2>3. InHand(x)' = {}
      BY <1>0, <1>1, <1>6, <1>10 DEF InHand, Preparing, LocalsFit
    <2>4. /\ \A k \in 1 .. Len(Objects(page, s)) :
                 /\ PreparedOwner(x).addr <= Objects(page, s)[k]
                 /\ Objects(page, s)[k] + kmalloc_info[s] <= PreparedOwner(x).addr + PreparedOwner(x).room
          /\ \A j, k \in 1 .. Len(Objects(page, s)) :
                 j < k => Objects(page, s)[j] + kmalloc_info[s] <= Objects(page, s)[k]
      BY <1>3, <1>4, <2>2, ObjectsInPage
    <2>5. SetList(x, s, Objects(page, s) \o List(x, s))
      BY <1>1, <2>1
    <2> QED
      BY <1>0, <1>1, <1>3, <1>7, <1>10, <2>2, <2>3, <2>4, <2>5, Prepend DEF heapvars
  <1> QED
    BY <1>9, <1>14, <1>15, <1>16 DEF Inv, Good

(* free puts the object in front of the list of its size. *)
LEMMA LinkStep ==
    ASSUME Inv, damage = "none", NEW x \in Contexts, Link(x)
    PROVE  Inv'
  <1> DEFINE s == loc[x].s
             front == <<loc[x].addr>>
             l == front \o loc[x].list
  <1>0. TypeOK /\ Good /\ LocalsFit(x)
    BY DEF Inv, Good
  <1>1. /\ pc[x] = "link" /\ Goto(x, "out") /\ loc' = [loc EXCEPT ![x] = NoLocals]
        /\ UNCHANGED <<page_bits, heapvars, held, lost>> /\ SetList(x, s, l)
        /\ damage' = IF List(x, s) = loc[x].list THEN "none" ELSE "list"
    BY DEF Link, At, Broken, histvars
  <1>2. loc[x] \in Locals /\ loc[x].addr \in Nat /\ loc[x].list \in Seq(Nat)
    BY <1>0 DEF TypeOK, Locals
  <1>3. s \in Indexes
    BY <1>0, <1>1 DEF LocalsFit
  <1>4. front \in Seq(Nat) /\ l \in Seq(Nat)
    BY <1>2
  <1>5. /\ Len(front) = 1 /\ front[1] = loc[x].addr
    OBVIOUS
  <1> HIDE DEF l, s, front
  <1>6. freehead' \in [Cpus -> [Indexes -> Seq(Nat)]]
    BY <1>0, <1>1, <1>3, <1>4, ListWriteType
  <1>7. TypeOK'
    BY <1>0, <1>1, <1>6, NoLocalsFit DEF TypeOK, Goto, heapvars
  <1>8. /\ pc'[x] = "out" /\ loc'[x] = NoLocals
        /\ \A y \in Contexts \ {x} : pc'[y] = pc[y] /\ loc'[y] = loc[y]
    BY <1>0, <1>1, LocalStep
  <1>9. \A c \in Cpus \ {x[1]} : freehead'[c] = freehead[c]
    BY <1>0, <1>1, <1>3, ListStep
  <1>10. LocalsFit(x)' /\ ListSeen(x)'
    BY <1>8 DEF LocalsFit, ListSeen
  <1>11. (\A y \in Contexts : LocalsFit(y)') /\ ListInv'
    BY <1>0, <1>1, <1>8, <1>9, <1>10, Frame DEF heapvars
  <1>12. HeldFit' /\ HeapInv'
    BY <1>0, <1>1 DEF Good, HeldFit, LargeBlock, HeapInv, Heap!Exclusive, Heap!PagesOf, heapvars
  <1>13. ASSUME damage' = "none"
         PROVE  Apart(Owners)'
    <2>1. SetList(x, s, front \o List(x, s))
      BY <1>1, <1>13 DEF l
    <2>2. /\ FreeingOwner(x) \in InHand(x)
          /\ FreeingOwner(x).addr = loc[x].addr /\ FreeingOwner(x).room = kmalloc_info[s]
      BY <1>1 DEF InHand, FreeingOwner, Owner, s
    <2>3. InHand(x)' = {}
      BY <1>8 DEF InHand, Preparing
    <2>4. /\ \A k \in 1 .. Len(front) :
                 /\ FreeingOwner(x).addr <= front[k]
                 /\ front[k] + kmalloc_info[s] <= FreeingOwner(x).addr + FreeingOwner(x).room
          /\ \A j, k \in 1 .. Len(front) : j < k => front[j] + kmalloc_info[s] <= front[k]
      BY <1>2, <1>3, <1>5, <2>2, InfoNat
    <2> QED
      BY <1>0, <1>1, <1>3, <1>4, <1>8, <2>1, <2>2, <2>3, <2>4, Prepend DEF heapvars
  <1> QED
    BY <1>7, <1>11, <1>12, <1>13 DEF Inv, Good

(* The first object of a list goes to a caller. *)
LEMMA TakeFirst ==
    ASSUME TypeOK, Good, NEW x \in Contexts, NEW s \in Indexes, NEW b, UNCHANGED free,
           b.addr = Head(List(x, s)), Room(b.size) = kmalloc_info[s], List(x, s) # << >>,
           held' = held \cup {b}, SetList(x, s, Tail(List(x, s))),
           \A y \in Contexts \ {x} : pc'[y] = pc[y] /\ loc'[y] = loc[y],
           InHand(x)' = {}
    PROVE  Apart(Owners)'
  <1> DEFINE c == x[1]
             L == List(x, s)
             was(i) == Owner("list", <<c, s, i>>, L[i], kmalloc_info[s])
             piece(i) == IF i = 1 THEN HeldOwner(b)
                         ELSE Owner("list", <<c, s, i - 1>>, L[i], kmalloc_info[s])
             Old == ListOf(c, s, L)
             New == {piece(i) : i \in DOMAIN L}
  <1>1. /\ L \in Seq(Nat) /\ DOMAIN L = 1 .. Len(L) /\ 1 \in DOMAIN L /\ Head(L) = L[1]
        /\ DOMAIN Tail(L) = 1 .. Len(L) - 1 /\ Len(L) \in Nat
        /\ \A i \in DOMAIN Tail(L) : i + 1 \in DOMAIN L /\ Tail(L)[i] = L[i + 1]
    BY ListType
  <1>2. kmalloc_info[s] \in Nat \ {0}
    BY InfoNat
  <1>3. /\ ListOwners' \subseteq (ListOwners \ Old) \cup ListOf(c, s, Tail(L))
        /\ Old \subseteq ListOwners
    BY ListStep
  <1>4. c \in Cpus
    BY OneContext
  <1>5. Old = {was(i) : i \in DOMAIN L}
    BY DEF ListOf
  <1>6. \A i \in DOMAIN L : /\ was(i).addr = L[i] /\ was(i).room = kmalloc_info[s]
                            /\ piece(i).addr = L[i] /\ piece(i).room = kmalloc_info[s]
                            /\ L[i] \in Nat
    BY <1>1 DEF Owner, HeldOwner
  <1>7. \A i, j \in DOMAIN L : i # j => was(i) # was(j)
    BY <1>1 DEF Owner
  <1>8. ListOf(c, s, Tail(L)) \subseteq New
    <2> SUFFICES ASSUME NEW i \in DOMAIN Tail(L)
                 PROVE  Owner("list", <<c, s, i>>, Tail(L)[i], kmalloc_info[s]) \in New
      BY DEF ListOf
    <2>1. i \in Nat /\ i + 1 # 1 /\ (i + 1) - 1 = i /\ Tail(L)[i] = L[i + 1]
      BY <1>1
    <2>2. piece(i + 1) = Owner("list", <<c, s, (i + 1) - 1>>, L[i + 1], kmalloc_info[s])
      BY <2>1
    <2> HIDE DEF piece
    <2> QED
      BY <1>1, <2>1, <2>2
  <1>9. HeldOwner(b) \in New
    <2>1. piece(1) = HeldOwner(b)
      OBVIOUS
    <2> HIDE DEF piece
    <2> QED
      BY <1>1, <2>1
  <1> HIDE DEF was, piece, L, c, Old, New
  <1>10. Sane(New) /\ \A n \in New : \E o \in Old : Within(n, o)
    BY <1>2, <1>5, <1>6 DEF Sane, Within, New
  <1>11. Apart(New)
    <2> SUFFICES ASSUME NEW i \in DOMAIN L, NEW j \in DOMAIN L, piece(i) # piece(j)
                 PROVE  Beside(piece(i), piece(j))
      BY DEF Apart, New
    <2>1. was(i) # was(j) /\ was(i) \in Owners /\ was(j) \in Owners
      BY <1>3, <1>5, <1>7 DEF Owners
    <2>2. Beside(was(i), was(j))
      BY <2>1 DEF Good, Apart
    <2> QED
      BY <1>6, <2>2 DEF Beside
  <1>12. HeldOwners' \subseteq HeldOwners \cup New /\ FreeOwners' = FreeOwners
    BY <1>9 DEF HeldOwners, FreeOwners
  <1>13. HandOwners' \subseteq HandOwners
    BY HandStep
  <1>14. \A o \in HeldOwners \cup FreeOwners \cup HandOwners : o \notin Old
    BY <1>3, Kinds
  <1>15. Old \subseteq Owners
    BY <1>3 DEF Owners
  <1> QED
    BY <1>3, <1>8, <1>10, <1>11, <1>12, <1>13, <1>14, <1>15, Pass

(* s->freehead = pfree->pnext, and the object is the caller's. *)
LEMMA PopStep ==
    ASSUME Inv, damage = "none", NEW x \in Contexts, Pop(x)
    PROVE  Inv'
  <1> DEFINE s == loc[x].s
             l == Tail(loc[x].list)
             b == [addr |-> Head(loc[x].list), size |-> loc[x].size]
  <1>0. TypeOK /\ Good /\ LocalsFit(x)
    BY DEF Inv, Good
  <1>1. /\ pc[x] = "pop" /\ Goto(x, "out") /\ loc' = [loc EXCEPT ![x] = NoLocals]
        /\ UNCHANGED <<page_bits, heapvars, lost>> /\ SetList(x, s, l) /\ held' = held \cup {b}
        /\ damage' = IF List(x, s) = loc[x].list THEN "none" ELSE "list"
    BY DEF Pop, At, Broken, histvars
  <1>2. /\ loc[x].list \in Seq(Nat) /\ loc[x].list # << >>
        /\ loc[x].size \in Sizes /\ ~IsLarge(loc[x].size) /\ s = kmalloc_slab(loc[x].size)
    BY <1>0, <1>1 DEF TypeOK, Locals, LocalsFit
  <1>3. s \in Indexes
    BY <1>2, SlabIndex
  <1>4. l \in Seq(Nat) /\ Head(loc[x].list) \in Nat
    BY <1>2
  <1>5. /\ b \in [addr : Nat, size : Sizes]
        /\ b.addr = Head(loc[x].list) /\ b.size = loc[x].size
    BY <1>2, <1>4
  <1> HIDE DEF l, s, b
  <1>6. freehead' \in [Cpus -> [Indexes -> Seq(Nat)]]
    BY <1>0, <1>1, <1>3, <1>4, ListWriteType
  <1>7. TypeOK'
    BY <1>0, <1>1, <1>5, <1>6, NoLocalsFit DEF TypeOK, Goto, heapvars
  <1>8. /\ pc'[x] = "out" /\ loc'[x] = NoLocals
        /\ \A y \in Contexts \ {x} : pc'[y] = pc[y] /\ loc'[y] = loc[y]
    BY <1>0, <1>1, LocalStep
  <1>9. \A c \in Cpus \ {x[1]} : freehead'[c] = freehead[c]
    BY <1>0, <1>1, <1>3, ListStep
  <1>10. LocalsFit(x)' /\ ListSeen(x)'
    BY <1>8 DEF LocalsFit, ListSeen
  <1>11. (\A y \in Contexts : LocalsFit(y)') /\ ListInv'
    BY <1>0, <1>1, <1>8, <1>9, <1>10, Frame DEF heapvars
  <1>12. HeldFit' /\ HeapInv'
    BY <1>0, <1>1, <1>2, <1>5 DEF Good, HeldFit, LargeBlock, HeapInv, Heap!Exclusive, Heap!PagesOf, heapvars
  <1>13. ASSUME damage' = "none"
         PROVE  Apart(Owners)'
    <2>1. List(x, s) = loc[x].list
      BY <1>1, <1>13
    <2>2. InHand(x)' = {}
      BY <1>8 DEF InHand, Preparing
    <2>3. Room(b.size) = kmalloc_info[s]
      BY <1>2, <1>5 DEF Room
    <2> QED
      BY <1>0, <1>1, <1>2, <1>3, <1>5, <1>8, <2>1, <2>2, <2>3, TakeFirst DEF heapvars, l
  <1> QED
    BY <1>7, <1>11, <1>12, <1>13 DEF Inv, Good

(* The byte of page_bits is written; after the last page of a large block  *)
(* the block is the caller's.                                              *)
LEMMA TagWriteStep ==
    ASSUME Inv, damage = "none", NEW x \in Contexts, TagWrite(x)
    PROVE  Inv'
  <1> DEFINE page == loc[x].tags[1][1]
             rest == Tail(loc[x].tags)
             done == rest = << >> /\ IsLarge(loc[x].size)
             b == [addr |-> loc[x].addr, size |-> loc[x].size]
             v == IF done THEN NoLocals ELSE [loc[x] EXCEPT !.tags = rest, !.bits = 0]
             l == IF rest # << >> THEN "tag" ELSE IF done THEN "out" ELSE "reload"
  <1>0. TypeOK /\ Good /\ LocalsFit(x) /\ (x[1] \notin SoftirqCpus => ListSeen(x))
    BY OneContext DEF Inv, Good, ListInv
  <1>1. /\ pc[x] = "tagwrite" /\ Goto(x, l) /\ loc' = [loc EXCEPT ![x] = v]
        /\ page_bits' = [page_bits EXCEPT ![page] = loc[x].tags[1][2], ![Buddy(page)] = loc[x].bits]
        /\ lost' \subseteq lost \cup {Buddy(page)}
        /\ held' = IF done THEN held \cup {b} ELSE held
        /\ UNCHANGED <<freehead, heapvars, damage>>
    BY DEF TagWrite, At
  <1>2. /\ loc[x] \in Locals /\ loc[x].tags # << >> /\ loc[x].size \in Sizes
        /\ loc[x].tags \in Seq(PageNumbers \X (1 .. LARGE_IDX)) /\ loc[x].bits \in 0 .. LARGE_IDX
        /\ loc[x].addr \in Nat
    BY <1>0, <1>1 DEF TypeOK, Locals, LocalsFit
  <1>3. page \in PageNumbers /\ loc[x].tags[1][2] \in 0 .. LARGE_IDX
    <2>1. loc[x].tags[1] \in PageNumbers \X (1 .. LARGE_IDX)
      BY <1>2
    <2> QED
      BY <2>1 DEF LARGE_IDX
  <1>4. rest \in Seq(PageNumbers \X (1 .. LARGE_IDX))
    BY <1>2
  <1> HIDE DEF page, rest
  <1>5. page_bits' \in [PageNumbers -> 0 .. LARGE_IDX] /\ lost' \subseteq PageNumbers
    BY <1>0, <1>1, <1>2, <1>3, BuddyPage DEF TypeOK
  <1>6. /\ v \in Locals
        /\ ~done => v.tags = rest /\ v.size = loc[x].size /\ v.s = loc[x].s /\ v.addr = loc[x].addr
    BY <1>2, <1>4, NoLocalsFit DEF Locals, LARGE_IDX
  <1>7. b \in [addr : Nat, size : Sizes] /\ b.addr = loc[x].addr /\ b.size = loc[x].size
    BY <1>2
  <1>8. l \in {"tag", "out", "reload"}
    OBVIOUS
  <1> HIDE DEF v, b
  <1>9. TypeOK'
    BY <1>0, <1>1, <1>5, <1>6, <1>7, <1>8 DEF TypeOK, Goto, heapvars
  <1>10. /\ pc'[x] = l /\ loc'[x] = v
         /\ \A y \in Contexts \ {x} : pc'[y] = pc[y] /\ loc'[y] = loc[y]
    BY <1>0, <1>1, LocalStep
  <1>11. CASE ~done
    <2>1. InHand(x)' = InHand(x)
      BY <1>1, <1>6, <1>10, <1>11 DEF InHand, Preparing, PreparedOwner
    <2>2. LocalsFit(x)'
      BY <1>0, <1>1, <1>2, <1>6, <1>10, <1>11 DEF LocalsFit, LargeBlock, heapvars
    <2>3. x[1] \notin SoftirqCpus => ListSeen(x)'
      BY <1>0, <1>1, <1>6, <1>10, <1>11 DEF ListSeen, List
    <2>4. Good'
      BY <1>0, <1>1, <1>10, <1>11, <2>1, <2>2, <2>3, Stay DEF heapvars
    <2> QED
      BY <1>9, <2>4 DEF Inv
  <1>12. CASE done
    <2>1. pc'[x] = "out" /\ held' = held \cup {b} /\ IsLarge(loc[x].size)
      BY <1>1, <1>10, <1>12
    <2>2. LocalsFit(x)' /\ ListSeen(x)' /\ InHand(x)' = {}
      BY <2>1 DEF LocalsFit, ListSeen, InHand, Preparing
    <2>3. (\A y \in Contexts : LocalsFit(y)') /\ ListInv'
      BY <1>0, <1>1, <1>10, <2>2, Frame DEF heapvars
    <2>4. LargeBlock(b.addr, b.size)
      BY <1>0, <1>1, <1>7, <2>1 DEF LocalsFit
    <2>5. HeldFit' /\ HeapInv'
      BY <1>0, <1>1, <2>1, <2>4 DEF Good, HeldFit, LargeBlock, HeapInv, Heap!Exclusive, Heap!PagesOf, heapvars
    <2>6. Apart(Owners)'
      <3> DEFINE Old == InHand(x)
                 New == {HeldOwner(b)}
      <3>1. PreparedOwner(x) \in Old
        BY <1>1, <2>1 DEF InHand, Preparing
      <3>2. /\ PreparedOwner(x).addr = b.addr /\ PreparedOwner(x).room = Room(b.size)
            /\ HeldOwner(b).addr = b.addr /\ HeldOwner(b).room = Room(b.size)
        BY <1>7, <2>1 DEF PreparedOwner, HeldOwner, Owner
      <3>3. b.addr \in Nat /\ Room(b.size) \in Nat \ {0}
        BY <1>7, RoomFits
      <3>4. Sane(New) /\ Apart(New) /\ \A n \in New : \E o \in Old : Within(n, o)
        BY <3>1, <3>2, <3>3 DEF Sane, Apart, Within
      <3>5. HandOwners' \subseteq (HandOwners \ Old) \cup New
        BY <1>10, <2>2, HandStep
      <3>6. HeldOwners' \subseteq HeldOwners \cup New
        BY <2>1 DEF HeldOwners
      <3>7. FreeOwners' = FreeOwners /\ ListOwners' = ListOwners
        BY <1>1 DEF FreeOwners, ListOwners, heapvars
      <3>8. \A o \in HeldOwners \cup FreeOwners \cup ListOwners : o \notin Old
        BY Kinds
      <3>9. Old \subseteq Owners
        BY DEF Owners, HandOwners
      <3> HIDE DEF Old, New
      <3> QED
        BY <1>0, <3>4, <3>5, <3>6, <3>7, <3>8, <3>9, Pass
    <2> QED
      BY <1>9, <2>3, <2>5, <2>6 DEF Inv, Good
  <1> QED
    BY <1>11, <1>12

(* free takes an object back from its caller. *)
LEMMA KmfreeStep ==
    ASSUME Inv, damage = "none", NEW x \in Contexts, NEW b \in held, kmfree(x, b)
    PROVE  Inv'
  <1> DEFINE s == page_bits[PageOf(b.addr)]
             right == ~IsLarge(b.size) /\ s = kmalloc_slab(b.size)
             v == [NoLocals EXCEPT !.s = s, !.list = List(x, s), !.addr = b.addr]
  <1>0. TypeOK /\ Good /\ LocalsFit(x)
    BY DEF Inv, Good
  <1>1. /\ pc[x] = "out" /\ held' = held \ {b} /\ UNCHANGED <<page_bits, freehead, heapvars, lost>>
        /\ \/ right /\ loc' = [loc EXCEPT ![x] = v] /\ Goto(x, "link") /\ damage' = damage
           \/ UNCHANGED <<loc, pc>> /\ damage' \in {"assert", "index"}
    BY DEF kmfree, At, Broken, histvars
  <1> HIDE DEF s
  <1>2. CASE UNCHANGED <<loc, pc>> /\ damage' \in {"assert", "index"}
    <2>1. TypeOK'
      BY <1>0, <1>1, <1>2 DEF TypeOK, heapvars
    <2> QED
      BY <1>2, <2>1 DEF Inv
  <1>3. CASE right /\ loc' = [loc EXCEPT ![x] = v] /\ Goto(x, "link") /\ damage' = damage
    <2>1. b.addr \in Nat /\ b.size \in Sizes
      BY <1>0 DEF TypeOK
    <2>2. s \in Indexes /\ s \in 0 .. LARGE_IDX /\ List(x, s) \in Seq(Nat)
      BY <1>0, <1>3, <2>1, SlabIndex, ListType
    <2>3. v \in Locals /\ v.s = s /\ v.list = List(x, s) /\ v.addr = b.addr
      BY <2>1, <2>2, NoLocalsFit DEF Locals
    <2> HIDE DEF v
    <2>4. TypeOK'
      BY <1>0, <1>1, <1>3, <2>3 DEF TypeOK, Goto, heapvars
    <2>5. /\ pc'[x] = "link" /\ loc'[x] = v
          /\ \A y \in Contexts \ {x} : pc'[y] = pc[y] /\ loc'[y] = loc[y]
      BY <1>0, <1>3, LocalStep
    <2>6. LocalsFit(x)'
      BY <2>2, <2>3, <2>5 DEF LocalsFit
    <2>7. ListSeen(x)'
      BY <1>1, <2>3, <2>5 DEF ListSeen, List
    <2>8. (\A y \in Contexts : LocalsFit(y)') /\ ListInv'
      BY <1>0, <1>1, <2>5, <2>6, <2>7, Frame DEF heapvars
    <2>9. HeldFit' /\ HeapInv'
      BY <1>0, <1>1 DEF Good, HeldFit, LargeBlock, HeapInv, Heap!Exclusive, Heap!PagesOf, heapvars
    <2>10. Apart(Owners)'
      <3> DEFINE Old == {HeldOwner(b)}
                 New == {FreeingOwner(x)'}
      <3>1. /\ (FreeingOwner(x)').addr = b.addr /\ (FreeingOwner(x)').room = kmalloc_info[s]
            /\ HeldOwner(b).addr = b.addr /\ HeldOwner(b).room = kmalloc_info[s]
        BY <1>3, <2>3, <2>5 DEF FreeingOwner, HeldOwner, Owner, Room
      <3>2. kmalloc_info[s] \in Nat \ {0}
        BY <2>2, InfoNat
      <3>3. Sane(New) /\ Apart(New) /\ \A n \in New : \E o \in Old : Within(n, o)
        BY <2>1, <3>1, <3>2 DEF Sane, Apart, Within
      <3>4. InHand(x)' \subseteq New
        BY <2>5 DEF InHand, Preparing
      <3>5. HandOwners' \subseteq HandOwners \cup New
        BY <2>5, <3>4, HandStep
      <3>6. HeldOwners' \subseteq HeldOwners \ Old
        BY <1>1 DEF HeldOwners, HeldOwner, Owner
      <3>7. FreeOwners' = FreeOwners /\ ListOwners' = ListOwners
        BY <1>1 DEF FreeOwners, ListOwners, heapvars
      <3>8. Old \subseteq HeldOwners
        BY DEF HeldOwners
      <3>9. \A o \in FreeOwners \cup ListOwners \cup HandOwners : o \notin Old
        BY <3>8, Kinds
      <3>10. Old \subseteq Owners
        BY <3>8 DEF Owners
      <3> HIDE DEF Old, New
      <3> QED
        BY <1>0, <3>3, <3>5, <3>6, <3>7, <3>9, <3>10, Pass
    <2> QED
      BY <2>4, <2>8, <2>9, <2>10 DEF Inv, Good
  <1> QED
    BY <1>1, <1>2, <1>3

(* A run of free pages is beside everybody its pages are beside. *)
LEMMA RunBeside ==
    ASSUME NEW page \in Nat, NEW n \in Nat \ {0}, NEW o, NEW p, Sane({p}),
           o.addr = page * PAGE_4K_SIZE, o.room = n * PAGE_4K_SIZE,
           \A k \in page .. page + n - 1 : Beside(FreeOwner(k), p)
    PROVE  Beside(o, p)
  <1>1. p.addr \in Nat /\ p.room \in Nat \ {0}
    BY DEF Sane
  <1>2. \A k \in page .. page + n - 1 :
            k * PAGE_4K_SIZE + PAGE_4K_SIZE <= p.addr \/ p.addr + p.room <= k * PAGE_4K_SIZE
    BY DEF Beside, FreeOwner, Owner
  <1>3. CASE p.addr < page * PAGE_4K_SIZE
    <2>1. page \in page .. page + n - 1
      OBVIOUS
    <2>2. p.addr + p.room <= page * PAGE_4K_SIZE
      BY <1>1, <1>2, <1>3, <2>1 DEF PAGE_4K_SIZE
    <2> QED
      BY <2>2 DEF Beside
  <1>4. CASE p.addr >= page * PAGE_4K_SIZE /\ p.addr < (page + n) * PAGE_4K_SIZE
    <2> DEFINE k == p.addr \div PAGE_4K_SIZE
    <2>1. /\ k \in page .. page + n - 1
          /\ k * PAGE_4K_SIZE <= p.addr /\ p.addr < k * PAGE_4K_SIZE + PAGE_4K_SIZE
      BY <1>1, <1>4 DEF PAGE_4K_SIZE
    <2> HIDE DEF k
    <2> QED
      BY <1>1, <1>2, <2>1 DEF PAGE_4K_SIZE
  <1>5. CASE p.addr >= (page + n) * PAGE_4K_SIZE
    BY <1>1, <1>5 DEF Beside, PAGE_4K_SIZE
  <1> QED
    BY <1>1, <1>3, <1>4, <1>5 DEF PAGE_4K_SIZE

(* The marks of a large block are for pages there are. *)
LEMMA TagsType ==
    ASSUME NEW page \in Nat, NEW n \in Nat \ {0}, page .. page + n - 1 \subseteq PageNumbers
    PROVE  LargeTags(page, n) \in Seq(PageNumbers \X (1 .. LARGE_IDX)) /\ LargeTags(page, n) # << >>
  <1> DEFINE e(k) == <<page + k - 1, IF k = 1 THEN LARGE_IDX ELSE LARGE_NEXT>>
  <1>1. \A k \in 1 .. n : e(k) \in PageNumbers \X (1 .. LARGE_IDX)
    BY DEF LARGE_IDX, LARGE_NEXT
  <1>2. LargeTags(page, n) = [k \in 1 .. n |-> e(k)]
    BY DEF LargeTags
  <1> HIDE DEF e
  <1>3. LargeTags(page, n) \in Seq(PageNumbers \X (1 .. LARGE_IDX)) /\ Len(LargeTags(page, n)) = n
    BY <1>1, <1>2
  <1> QED
    BY <1>3

(* __kmalloc_large gets its run of pages. *)
LEMMA KmallocLargeStep ==
    ASSUME Inv, damage = "none", NEW x \in Contexts, NEW size \in Sizes, kmalloc_large(x, size)
    PROVE  Inv'
  <1> DEFINE n == PageCount(size)
  <1>0. TypeOK /\ Good /\ LocalsFit(x)
    BY DEF Inv, Good
  <1>1. PICK page \in Fits(n) :
            /\ Heap!Alloc(Run(page, n))
            /\ loc' = [loc EXCEPT ![x] = [NoLocals EXCEPT !.size = size,
                           !.addr = page * PAGE_4K_SIZE, !.tags = LargeTags(page, n)]]
    BY DEF kmalloc_large
  <1> DEFINE v == [NoLocals EXCEPT !.size = size,
                       !.addr = page * PAGE_4K_SIZE, !.tags = LargeTags(page, n)]
  <1>2. /\ pc[x] = "out" /\ IsLarge(size) /\ Goto(x, "tag") /\ loc' = [loc EXCEPT ![x] = v]
        /\ UNCHANGED <<page_bits, freehead, held, histvars>>
    BY <1>1 DEF kmalloc_large, At
  <1>3. n \in Nat \ {0} /\ size \in Nat
    BY RoomFits, SlubAssumption
  <1> HIDE DEF n
  <1>4. /\ page \in Pages /\ page \in Nat \ {0}
        /\ Run(page, n) \in [addr : Pages, size : 1 .. MaxPage]
        /\ Heap!PagesOf(Run(page, n)) = page .. page + n - 1
        /\ page .. page + n - 1 \subseteq free
    BY <1>0, <1>3, RunType
  <1>5. /\ free' = free \ (page .. page + n - 1) /\ blocks' = blocks \cup {Run(page, n)}
    BY <1>1, <1>4 DEF Heap!Alloc
  <1>6. LargeTags(page, n) \in Seq(PageNumbers \X (1 .. LARGE_IDX)) /\ LargeTags(page, n) # << >>
    <2>1. page .. page + n - 1 \subseteq PageNumbers
      <3>1. free \subseteq Pages /\ Pages \subseteq PageNumbers
        BY <1>0, SlubAssumption DEF TypeOK, PageNumbers
      <3> QED
        BY <1>4, <3>1, Zenon
    <2> QED
      BY <1>3, <1>4, <2>1, TagsType
  <1>7. /\ v \in Locals /\ v.size = size /\ v.addr = page * PAGE_4K_SIZE /\ v.tags # << >>
    <2>1. page * PAGE_4K_SIZE \in Nat
      BY <1>4 DEF PAGE_4K_SIZE
    <2>2. \A a \in Nat, t \in Seq(PageNumbers \X (1 .. LARGE_IDX)) :
              LET w == [NoLocals EXCEPT !.size = size, !.addr = a, !.tags = t]
              IN  w \in Locals /\ w.size = size /\ w.addr = a /\ w.tags = t
      BY <1>3, NoLocalsFit DEF Locals
    <2> QED
      BY <1>6, <2>1, <2>2
  <1> HIDE DEF v
  <1>8. TypeOK'
    BY <1>0, <1>2, <1>4, <1>5, <1>7 DEF TypeOK, Goto, histvars
  <1>9. /\ pc'[x] = "tag" /\ loc'[x] = v
        /\ \A y \in Contexts \ {x} : pc'[y] = pc[y] /\ loc'[y] = loc[y]
    BY <1>0, <1>2, LocalStep
  <1>10. PageOf(v.addr) = page
    BY <1>4, <1>7 DEF PageOf, PAGE_4K_SIZE
  <1>11. LocalsFit(x)'
    BY <1>2, <1>4, <1>5, <1>7, <1>9, <1>10 DEF LocalsFit, LargeBlock, WholePages, n
  <1>12. ListSeen(x)'
    BY <1>2, <1>7, <1>9 DEF ListSeen
  <1>13. (\A y \in Contexts : LocalsFit(y)') /\ ListInv'
    BY <1>0, <1>2, <1>5, <1>9, <1>11, <1>12, Frame
  <1>14. HeldFit'
    BY <1>0, <1>2, <1>5 DEF Good, HeldFit, LargeBlock
  <1>15. HeapInv'
    BY <1>0, <1>1, HeapStep DEF Good
  <1>16. Apart(Owners)'
    <2> DEFINE Old == {FreeOwner(k) : k \in page .. page + n - 1}
               o == PreparedOwner(x)'
    <2>1. Old \subseteq FreeOwners
      BY <1>4 DEF FreeOwners
    <2>2. o.addr = page * PAGE_4K_SIZE /\ o.room = n * PAGE_4K_SIZE
      BY <1>2, <1>7, <1>9 DEF PreparedOwner, Owner, Room, n
    <2>3. InHand(x)' \subseteq {o}
      BY <1>9 DEF InHand
    <2> HIDE DEF o
    <2>4. HandOwners' \subseteq HandOwners \cup {o}
      BY <1>9, <2>3, HandStep
    <2>5. FreeOwners' \subseteq FreeOwners \ Old
      <3> SUFFICES ASSUME NEW k \in free'
                   PROVE  FreeOwner(k) \in FreeOwners \ Old
        BY DEF FreeOwners
      <3>1. k \in free /\ k \notin page .. page + n - 1
        BY <1>5
      <3>2. \A j : FreeOwner(j).key = j
        BY DEF FreeOwner, Owner
      <3> QED
        BY <3>1, <3>2 DEF FreeOwners
    <2>6. HeldOwners' = HeldOwners /\ ListOwners' = ListOwners
      BY <1>2 DEF HeldOwners, ListOwners
    <2>7. \A p \in HeldOwners \cup ListOwners \cup HandOwners : p \notin Old
      BY <2>1, Kinds
    <2>8. Owners' \subseteq (Owners \ Old) \cup {o}
      BY <2>4, <2>5, <2>6, <2>7 DEF Owners
    <2>9. ASSUME NEW p \in Owners \ Old
          PROVE  Beside(o, p)
      <3>1. \A k \in page .. page + n - 1 : Beside(FreeOwner(k), p)
        BY <1>0, <2>1, <2>9 DEF Good, Apart, Owners
      <3>2. Sane({p})
        BY <1>0, <2>9, OwnersSane DEF Good, Sane
      <3> QED
        BY <1>3, <1>4, <2>2, <3>1, <3>2, RunBeside
    <2>10. Apart({o}) /\ Apart(Owners)
      BY <1>0 DEF Apart, Good
    <2> HIDE DEF Old
    <2>11. Apart(Owners')
      BY <2>8, <2>9, <2>10, Exchange
    <2> QED
      BY <2>11 DEF Apart
  <1> QED
    BY <1>8, <1>13, <1>14, <1>15, <1>16 DEF Inv, Good

(* free gives the pages of a large block back: the run it finds is the      *)
(* block, since blocks share no page, and nobody else has it, since owners  *)
(* are apart.                                                              *)
LEMMA KmfreeLargeStep ==
    ASSUME Inv, damage = "none", NEW x \in Contexts, NEW b \in held, kmfree_large(x, b)
    PROVE  Inv'
  <1> DEFINE page == PageOf(b.addr)
             n == PageCount(b.size)
             run == Run(page, LargePages(page))
  <1>0. TypeOK /\ Good
    BY DEF Inv
  <1>1. /\ held' = held \ {b} /\ UNCHANGED <<page_bits, freehead, pc, loc, lost>>
        /\ \/ Heap!Free(run) /\ IsLarge(b.size) /\ damage' = damage
           \/ damage' \in {"overfree", "index"} /\ UNCHANGED heapvars
    BY DEF kmfree_large, Broken, histvars
  <1>2. CASE damage' \in {"overfree", "index"} /\ UNCHANGED heapvars
    <2>1. TypeOK'
      BY <1>0, <1>1, <1>2 DEF TypeOK, heapvars
    <2> QED
      BY <1>2, <2>1 DEF Inv
  <1>3. CASE Heap!Free(run) /\ IsLarge(b.size) /\ damage' = damage
    <2>1. b.addr \in Nat /\ b.size \in Sizes /\ n \in Nat \ {0}
      BY <1>0, RoomFits DEF TypeOK
    <2>2. /\ page \in Pages /\ b.addr = page * PAGE_4K_SIZE /\ Run(page, n) \in blocks
      BY <1>0, <1>3 DEF Good, HeldFit, LargeBlock, WholePages
    <2>3. run \in blocks /\ run.addr = page
      BY <1>3 DEF Heap!Free, Run
    <2> HIDE DEF run, n, page
    <2>4. page \in Nat
      BY <2>2, SlubAssumption
    <2>5. run = Run(page, n)
      <3>1. page \in Heap!PagesOf(run)
        BY <1>0, <2>3, <2>4 DEF TypeOK, Heap!PagesOf
      <3>2. page \in Heap!PagesOf(Run(page, n))
        BY <2>1, <2>4 DEF Heap!PagesOf, Run
      <3> QED
        BY <1>0, <2>2, <2>3, <3>1, <3>2 DEF Good, HeapInv, Heap!Exclusive
    <2>6. free' = free \cup (page .. page + n - 1) /\ blocks' = blocks \ {Run(page, n)}
      BY <1>3, <2>5 DEF Heap!Free, Heap!PagesOf, Run
    <2>7. page .. page + n - 1 \subseteq Pages
      BY <1>0, <2>2 DEF Good, HeapInv, Heap!PagesOf, Run
    <2>8. TypeOK'
      BY <1>0, <1>1, <1>3, <2>6, <2>7 DEF TypeOK
    <2>9. HeapInv'
      BY <1>0, <1>3, HeapStep DEF Good
    <2>10. HeldOwner(b) \in Owners /\ HeldOwner(b).addr = b.addr /\ HeldOwner(b).room = n * PAGE_4K_SIZE
      BY <1>3 DEF Owners, HeldOwners, HeldOwner, Owner, Room, n
    <2>11. ASSUME NEW o \in Owners, o # HeldOwner(b)
           PROVE  o.addr # b.addr
      <3>1. Beside(o, HeldOwner(b))
        BY <1>0, <2>10, <2>11 DEF Good, Apart
      <3>2. o.addr \in Nat /\ o.room \in Nat \ {0} /\ HeldOwner(b).room \in Nat \ {0}
        BY <1>0, <2>10, <2>11, OwnersSane DEF Good, Sane
      <3> QED
        BY <2>1, <2>10, <3>1, <3>2 DEF Beside
    <2>12. ASSUME NEW addr, NEW size, addr # b.addr, LargeBlock(addr, size)
           PROVE  LargeBlock(addr, size)'
      <3>1. PageOf(addr) # page /\ WholePages(addr)
        BY <2>2, <2>12 DEF LargeBlock, WholePages
      <3>2. Run(PageOf(addr), PageCount(size)) # Run(page, n)
        BY <3>1 DEF Run
      <3> QED
        BY <2>6, <2>12, <3>1, <3>2 DEF LargeBlock
    <2>13. ASSUME NEW y \in Contexts
           PROVE  LocalsFit(y)'
      <3>1. LocalsFit(y) /\ pc' = pc /\ loc' = loc
        BY <1>0, <1>1, <2>13 DEF Good
      <3>2. CASE pc[y] \in {"tag", "tagwrite"} /\ IsLarge(loc[y].size)
        <4>1. PreparedOwner(y) \in Owners /\ PreparedOwner(y).kind = "malloc"
          BY <2>13, <3>2 DEF Owners, HandOwners, InHand, Preparing, PreparedOwner, Owner
        <4>2. PreparedOwner(y) # HeldOwner(b)
          BY <4>1 DEF HeldOwner, Owner
        <4>3. loc[y].addr # b.addr
          BY <2>11, <4>1, <4>2 DEF PreparedOwner, Owner
        <4>4. LargeBlock(loc[y].addr, loc[y].size)
          BY <3>1, <3>2 DEF LocalsFit
        <4>5. LargeBlock(loc[y].addr, loc[y].size)'
          BY <2>12, <3>1, <4>3, <4>4 DEF LargeBlock
        <4> QED
          BY <3>1, <3>2, <4>5 DEF LocalsFit
      <3>3. CASE ~(pc[y] \in {"tag", "tagwrite"} /\ IsLarge(loc[y].size))
        BY <3>1, <3>3 DEF LocalsFit
      <3> QED
        BY <3>2, <3>3
    <2>14. HeldFit'
      <3> SUFFICES ASSUME NEW d \in held', IsLarge(d.size)
                   PROVE  LargeBlock(d.addr, d.size)'
        BY DEF HeldFit
      <3>1. d \in held /\ d # b
        BY <1>1
      <3>2. HeldOwner(d) \in Owners /\ HeldOwner(d) # HeldOwner(b)
        BY <3>1 DEF Owners, HeldOwners, HeldOwner, Owner
      <3>3. d.addr # b.addr
        BY <2>11, <3>2 DEF HeldOwner, Owner
      <3>4. LargeBlock(d.addr, d.size)
        BY <1>0, <3>1 DEF Good, HeldFit
      <3> QED
        BY <2>12, <3>3, <3>4
    <2>15. ListInv'
      BY <1>0, <1>1 DEF Good, ListInv, ListSeen, List
    <2>16. Apart(Owners)'
      <3> DEFINE Old == {HeldOwner(b)}
                 New == {FreeOwner(k) : k \in page .. page + n - 1}
      <3>1. \A k : FreeOwner(k).key = k /\ FreeOwner(k).addr = k * PAGE_4K_SIZE /\ FreeOwner(k).room = PAGE_4K_SIZE
        BY DEF FreeOwner, Owner
      <3>2. Sane(New)
        BY <2>1, <2>4, <3>1 DEF Sane, PAGE_4K_SIZE
      <3>3. Apart(New)
        BY <2>1, <2>4, <3>1 DEF Apart, Beside, PAGE_4K_SIZE
      <3>4. \A o \in New : Within(o, HeldOwner(b))
        BY <2>1, <2>2, <2>4, <2>10, <3>1 DEF Within, PAGE_4K_SIZE
      <3>5. HeldOwners' \subseteq HeldOwners \ Old
        BY <1>1 DEF HeldOwners, HeldOwner, Owner
      <3>6. FreeOwners' \subseteq FreeOwners \cup New
        BY <2>6 DEF FreeOwners
      <3>7. HandOwners' = HandOwners /\ ListOwners' = ListOwners
        BY <1>1 DEF HandOwners, InHand, FreeingOwner, PreparedOwner, Preparing, ListOwners
      <3>8. \A o \in FreeOwners \cup ListOwners \cup HandOwners : o \notin Old
        BY Kinds DEF HeldOwner, Owner
      <3>9. Old \subseteq Owners /\ HeldOwner(b) \in Old
        BY <2>10
      <3> HIDE DEF Old, New
      <3> QED
        BY <1>0, <3>2, <3>3, <3>4, <3>5, <3>6, <3>7, <3>8, <3>9, Pass
    <2> QED
      BY <2>8, <2>9, <2>13, <2>14, <2>15, <2>16 DEF Inv, Good
  <1> QED
    BY <1>1, <1>2, <1>3

(* There is no memory: the model stops. *)
LEMMA NoMemoryStep ==
    ASSUME Inv, NEW n, NEW kind \in {"page0", "assert"}, NoMemory(n, kind)
    PROVE  Inv'
  BY DEF Inv, NoMemory, Broken, TypeOK, heapvars

-----------------------------------------------------------------------------
(* The invariant *)

(* Nothing is handed out at first: the free pages lie side by side. *)
LEMMA InitInv == Init => Inv
  <1> SUFFICES ASSUME Init PROVE Inv
    OBVIOUS
  <1>1. TypeOK
    <2>1. page_bits \in [PageNumbers -> 0 .. LARGE_IDX]
      BY DEF Init, LARGE_IDX
    <2>2. freehead \in [Cpus -> [Indexes -> Seq(Nat)]]
      BY DEF Init
    <2> QED
      BY <2>1, <2>2, NoLocalsFit DEF Init, TypeOK
  <1>2. \A x \in Contexts : LocalsFit(x)
    BY DEF Init, LocalsFit
  <1>3. ListInv
    BY DEF Init, ListInv, ListSeen, Contexts
  <1>4. HeldFit /\ HeapInv
    BY DEF Init, HeldFit, HeapInv, Heap!Exclusive
  <1>5. Owners \subseteq FreeOwners
    <2>1. HeldOwners = {}
      BY DEF Init, HeldOwners
    <2>2. HandOwners = {}
      BY DEF Init, HandOwners, InHand, Preparing
    <2>3. ListOwners = {}
      BY DEF Init, ListOwners, ListsOf, ListOf
    <2> QED
      BY <2>1, <2>2, <2>3 DEF Owners
  <1>6. Apart(FreeOwners)
    <2>1. free \subseteq Nat
      BY <1>1, SlubAssumption DEF TypeOK
    <2> SUFFICES ASSUME NEW j \in free, NEW k \in free, FreeOwner(j) # FreeOwner(k)
                 PROVE  Beside(FreeOwner(j), FreeOwner(k))
      BY DEF Apart, FreeOwners
    <2>2. j # k /\ j \in Nat /\ k \in Nat
      BY <2>1
    <2> QED
      BY <2>2 DEF Beside, FreeOwner, Owner, PAGE_4K_SIZE
  <1>7. Apart(Owners)
    BY <1>5, <1>6 DEF Apart
  <1> QED
    BY <1>1, <1>2, <1>3, <1>4, <1>7 DEF Inv, Good

(* Every step of every context keeps the invariant. *)
LEMMA NextInv == Inv /\ [Next]_vars => Inv'
  <1> SUFFICES ASSUME Inv, [Next]_vars PROVE Inv'
    OBVIOUS
  <1>1. CASE UNCHANGED vars
    <2>1. /\ UNCHANGED <<page_bits, freehead, free, blocks>>
          /\ UNCHANGED <<held, pc, loc, lost, damage>>
      BY <1>1 DEF vars
    <2>2. TypeOK' = TypeOK
      BY <2>1 DEF TypeOK
    <2>3. \A x \in Contexts : LocalsFit(x)' = LocalsFit(x)
      BY <2>1 DEF LocalsFit, LargeBlock
    <2>4. HeldFit' = HeldFit /\ HeapInv' = HeapInv
      BY <2>1 DEF HeldFit, LargeBlock, HeapInv, Heap!Exclusive, Heap!PagesOf
    <2>5. Owners' = Owners
      BY <2>1 DEF Owners, HeldOwners, FreeOwners, ListOwners, HandOwners, InHand, FreeingOwner,
          PreparedOwner, Preparing
    <2>6. ListInv' = ListInv
      BY <2>1 DEF ListInv, ListSeen, List
    <2>7. Apart(Owners)' = Apart(Owners)
      BY <2>5 DEF Apart
    <2> QED
      BY <2>1, <2>2, <2>3, <2>4, <2>6, <2>7 DEF Inv, Good
  <1>2. ASSUME NEW x \in Contexts, Malloc(x)
        PROVE  Inv'
    <2>1. PICK size \in Sizes :
              kmalloc(x, size) \/ kmalloc_large(x, size) \/ kmalloc_large_fails(x, size)
      BY <1>2 DEF Malloc
    <2>2. damage = "none"
      BY <2>1 DEF kmalloc, kmalloc_large, kmalloc_large_fails, At, CanRun
    <2>3. CASE kmalloc_large_fails(x, size)
      BY <2>3, NoMemoryStep DEF kmalloc_large_fails
    <2> QED
      BY <2>1, <2>2, <2>3, KmallocStep, KmallocLargeStep
  <1>3. ASSUME NEW x \in Contexts, Mfree(x)
        PROVE  Inv'
    <2>1. PICK b \in held : kmfree(x, b) \/ kmfree_large(x, b)
      BY <1>3 DEF Mfree
    <2>2. damage = "none"
      BY <2>1 DEF kmfree, kmfree_large, At, CanRun
    <2> QED
      BY <2>1, <2>2, KmfreeStep, KmfreeLargeStep
  <1>4. ASSUME NEW x \in Contexts,
               AddPage(x) \/ Chain(x) \/ Push(x) \/ TagRead(x) \/ TagWrite(x) \/ Reload(x)
                   \/ Pop(x) \/ Link(x)
        PROVE  Inv'
    <2>1. damage = "none"
      BY <1>4 DEF AddPage, Chain, Push, TagRead, TagWrite, Reload, Pop, Link, At, CanRun
    <2> QED
      BY <1>4, <2>1, AddPageStep, ChainStep, PushStep, TagReadStep, TagWriteStep, ReloadStep,
         PopStep, LinkStep
  <1>5. ASSUME NEW x \in Contexts, AddPageFails(x)
        PROVE  Inv'
    BY <1>5, NoMemoryStep DEF AddPageFails
  <1> QED
    BY <1>1, <1>2, <1>3, <1>4, <1>5 DEF Next

(* The invariant holds throughout. *)
LEMMA Invariant == Spec => []Inv
  BY InitInv, NextInv, PTL DEF Spec

-----------------------------------------------------------------------------
(* The theorems *)

(* The state of malloc and free is well typed, up to and including the step *)
(* with which something goes wrong.                                        *)
THEOREM TypeCorrect == Spec => []TypeOK
  <1>1. Inv => TypeOK
    BY DEF Inv
  <1> QED
    BY <1>1, Invariant, PTL

(* The piece of memory that an owner's user sees. *)
PieceOf(o) ==
    CASE o.kind = "held"    -> Piece(<<"held">>, o.key.addr, o.key.size)
      [] o.kind = "list"    -> Piece(<<"list", o.key[1], o.key[2], o.key[3]>>, o.addr, o.room)
      [] o.kind = "freeing" -> Piece(<<"freeing", o.key>>, o.addr, o.room)
      [] o.kind = "malloc"  -> Piece(<<"malloc", o.key>>, o.addr,
                                     IF IsLarge(loc[o.key].size) THEN loc[o.key].size ELSE o.room)
      [] OTHER              -> Piece(<<"free">>, o.addr, o.room)

(* Every piece is the part of some owner that its user sees. *)
LEMMA PiecesOwned ==
    ASSUME TypeOK, Good, NEW p \in Pieces
    PROVE  \E o \in Owners : p = PieceOf(o) /\ p.addr = o.addr /\ p.size \in Nat /\ p.size <= o.room
  <1>0. Sane(Owners)
    BY OwnersSane DEF Good
  <1>1. CASE p \in HeldPieces
    <2>1. PICK b \in held : p = Piece(<<"held">>, b.addr, b.size)
      BY <1>1 DEF HeldPieces
    <2>2. b.size \in Sizes /\ b.size \in Nat /\ b.size <= Room(b.size)
      BY SlubAssumption, RoomFits DEF TypeOK
    <2>3. HeldOwner(b) \in Owners
      BY DEF Owners, HeldOwners
    <2>4. p = PieceOf(HeldOwner(b))
      BY <2>1 DEF PieceOf, HeldOwner, Owner
    <2>5. p.addr = HeldOwner(b).addr /\ p.size \in Nat /\ p.size <= HeldOwner(b).room
      BY <2>1, <2>2 DEF HeldOwner, Owner, Piece
    <2> QED
      BY <2>3, <2>4, <2>5
  <1>2. CASE p \in ListPieces
    <2>1. PICK c \in Cpus, s \in Indexes : \E i \in DOMAIN freehead[c][s] :
              p = Piece(<<"list", c, s, i>>, freehead[c][s][i], kmalloc_info[s])
      BY <1>2 DEF ListPieces
    <2>2. PICK i \in DOMAIN freehead[c][s] :
              p = Piece(<<"list", c, s, i>>, freehead[c][s][i], kmalloc_info[s])
      BY <2>1
    <2> DEFINE o == Owner("list", <<c, s, i>>, freehead[c][s][i], kmalloc_info[s])
    <2>3. o \in Owners
      BY DEF Owners, ListOwners, ListsOf, ListOf
    <2>4. p = PieceOf(o)
      BY <2>2 DEF PieceOf, Owner
    <2>5. p.addr = o.addr /\ p.size \in Nat /\ p.size <= o.room
      <3>1. kmalloc_info[s] \in Nat
        BY InfoNat
      <3> QED
        BY <2>2, <3>1 DEF Owner, Piece
    <2> QED
      BY <2>3, <2>4, <2>5
  <1>3. CASE p \in FreeingPieces
    <2>1. PICK x \in Contexts :
              pc[x] = "link" /\ p = Piece(<<"freeing", x>>, loc[x].addr, kmalloc_info[loc[x].s])
      BY <1>3 DEF FreeingPieces
    <2>2. FreeingOwner(x) \in Owners
      BY <2>1 DEF Owners, HandOwners, InHand
    <2>3. p = PieceOf(FreeingOwner(x))
      BY <2>1 DEF PieceOf, FreeingOwner, Owner
    <2>4. p.addr = FreeingOwner(x).addr /\ p.size = FreeingOwner(x).room
      BY <2>1 DEF FreeingOwner, Owner, Piece
    <2> QED
      BY <1>0, <2>2, <2>3, <2>4 DEF Sane
  <1>4. CASE p \in PreparedPieces
    <2>1. PICK x \in Contexts :
              /\ Preparing(x)
              /\ p = Piece(<<"malloc", x>>, loc[x].addr,
                           IF IsLarge(loc[x].size) THEN loc[x].size ELSE PAGE_4K_SIZE)
      BY <1>4 DEF PreparedPieces
    <2>2. loc[x].size \in Sizes
      BY <2>1 DEF Good, LocalsFit, Preparing
    <2>3. loc[x].size \in Nat /\ loc[x].size <= Room(loc[x].size)
      BY <2>2, SlubAssumption, RoomFits
    <2>4. PreparedOwner(x) \in Owners
      BY <2>1 DEF Owners, HandOwners, InHand
    <2>5. p = PieceOf(PreparedOwner(x))
      BY <2>1 DEF PieceOf, PreparedOwner, Owner
    <2>6. p.addr = PreparedOwner(x).addr /\ p.size \in Nat /\ p.size <= PreparedOwner(x).room
      BY <2>1, <2>3 DEF PreparedOwner, Owner, Piece, PAGE_4K_SIZE
    <2> QED
      BY <2>4, <2>5, <2>6
  <1>5. CASE p \in FreePieces
    <2>1. PICK page \in free : p = Piece(<<"free">>, page * PAGE_4K_SIZE, PAGE_4K_SIZE)
      BY <1>5 DEF FreePieces
    <2>2. FreeOwner(page) \in Owners
      BY DEF Owners, FreeOwners
    <2>3. p = PieceOf(FreeOwner(page))
      BY <2>1 DEF PieceOf, FreeOwner, Owner
    <2>4. p.addr = FreeOwner(page).addr /\ p.size \in Nat /\ p.size <= FreeOwner(page).room
      BY <2>1 DEF FreeOwner, Owner, Piece, PAGE_4K_SIZE
    <2> QED
      BY <2>2, <2>3, <2>4
  <1> QED
    BY <1>1, <1>2, <1>3, <1>4, <1>5 DEF Pieces

(* Memory has one owner (Exclusive), for every number of CPUs, with or      *)
(* without softirqs that allocate, for all sizes and pages: as long as the  *)
(* code has not gone wrong, malloc hands out no byte that is anybody's.     *)
THEOREM OneOwnerOfMemory == Spec => []Exclusive
  <1>1. Inv => Exclusive
    <2> SUFFICES ASSUME Inv, damage = "none", NEW p \in Pieces, NEW q \in Pieces, p # q
                 PROVE  Disjoint(p, q)
      BY DEF Exclusive
    <2>1. TypeOK /\ Good
      BY DEF Inv
    <2>2. PICK o \in Owners : p = PieceOf(o) /\ p.addr = o.addr /\ p.size \in Nat /\ p.size <= o.room
      BY <2>1, PiecesOwned
    <2>3. PICK r \in Owners : q = PieceOf(r) /\ q.addr = r.addr /\ q.size \in Nat /\ q.size <= r.room
      BY <2>1, PiecesOwned
    <2>4. o # r
      BY <2>2, <2>3
    <2>5. Beside(o, r)
      BY <2>1, <2>4 DEF Good, Apart
    <2>6. /\ o.addr \in Nat /\ o.room \in Nat
          /\ r.addr \in Nat /\ r.room \in Nat
      BY <2>1, OwnersSane DEF Good, Sane
    <2> QED
      BY <2>2, <2>3, <2>5, <2>6 DEF Beside, Disjoint
  <1> QED
    BY <1>1, Invariant, PTL

(* Lists are per CPU (ListsArePerCpu): where softirqs do not allocate, the  *)
(* look at a list in malloc or free is still right when the list is         *)
(* written, whatever all other CPUs do in between.                         *)
THEOREM OwnListsUndisturbed == Spec => ListsArePerCpu
  <1> DEFINE A == \A c \in Cpus \ SoftirqCpus :
                      pc'[<<c, "thread">>] # pc[<<c, "thread">>] => damage' # "list"
  <1>1. Inv /\ [Next]_vars => [A]_vars
    <2> SUFFICES ASSUME Inv, Next, NEW c \in Cpus \ SoftirqCpus,
                        pc'[<<c, "thread">>] # pc[<<c, "thread">>], damage' = "list"
                 PROVE  FALSE
      OBVIOUS
    <2> DEFINE y == <<c, "thread">>
    <2>1. y \in Contexts /\ y[1] = c
      BY DEF Contexts
    <2>2. damage = "none"
      BY DEF Next, Malloc, Mfree, kmalloc, kmalloc_large, kmalloc_large_fails, kmfree, kmfree_large,
          AddPage, AddPageFails, Chain, Push, TagRead, TagWrite, Reload, Pop, Link, At, CanRun
    <2>3. Good /\ TypeOK /\ ListSeen(y)
      BY <2>2 DEF Inv, Good, ListInv
    <2>4. ASSUME NEW x \in Contexts, NEW l, Goto(x, l)
          PROVE  x = y
      BY <2>3, <2>4 DEF Goto, TypeOK
    <2>5. ~(Push(y) \/ Reload(y) \/ Pop(y) \/ Link(y))
      BY <2>2, <2>3 DEF Push, Reload, Pop, Link, At, ListSeen, histvars
    <2>6. \A x \in Contexts : ~(Push(x) \/ Reload(x) \/ Pop(x) \/ Link(x))
      BY <2>4, <2>5 DEF Push, Reload, Pop, Link
    <2>7. PICK x \in Contexts :
              \/ Malloc(x) \/ AddPage(x) \/ Chain(x) \/ TagRead(x) \/ TagWrite(x)
              \/ AddPageFails(x) \/ Mfree(x)
      BY <2>6 DEF Next
    <2>8. CASE Malloc(x) \/ AddPage(x) \/ Chain(x) \/ TagRead(x) \/ TagWrite(x) \/ AddPageFails(x)
      BY <2>2, <2>8 DEF Malloc, kmalloc, kmalloc_large, kmalloc_large_fails, AddPage, Chain, TagRead,
          TagWrite, AddPageFails, NoMemory, Broken, histvars
    <2>9. CASE Mfree(x)
      BY <2>2, <2>9 DEF Mfree, kmfree, kmfree_large, Broken, histvars
    <2> QED
      BY <2>7, <2>8, <2>9
  <1> QED
    BY <1>1, Invariant, PTL DEF Spec, ListsArePerCpu

-----------------------------------------------------------------------------
(* What free goes by, and what is on the pages *)

(* The objects of callers, lists and frees that are under way: the address  *)
(* and the index of the list an object belongs to.                         *)
Objs(l, s) == {<<l[i], s>> : i \in DOMAIN l}

ListSmalls == UNION {UNION {Objs(freehead[c][s], s) : s \in Indexes} : c \in Cpus}
HeldSmalls == {<<b.addr, kmalloc_slab(b.size)>> : b \in {h \in held : ~IsLarge(h.size)}}
FreeingSmalls == {<<loc[x].addr, loc[x].s>> : x \in {y \in Contexts : pc[y] = "link"}}

Smalls == ListSmalls \cup HeldSmalls \cup FreeingSmalls

(* The large blocks of callers, and those that are being marked. *)
Tagging(x) == pc[x] \in {"tag", "tagwrite"}

HeldLarges == {<<b.addr, b.size>> : b \in {h \in held : IsLarge(h.size)}}
TaggedLarges ==
    {<<loc[x].addr, loc[x].size>> : x \in {y \in Contexts : Tagging(y) /\ IsLarge(loc[y].size)}}

Larges == HeldLarges \cup TaggedLarges

(* The index that the page of an object, or a page of a large block, should *)
(* have.                                                                   *)
Mark(j) == IF j = 0 THEN LARGE_IDX ELSE LARGE_NEXT

SmallClaim(page, i) == \E o \in Smalls : PageOf(o[1]) = page /\ o[2] = i

LargeClaim(b, page, i) ==
    \E j \in 0 .. PageCount(b[2]) - 1 : page = PageOf(b[1]) + j /\ i = Mark(j)

Claim(page, i) == SmallClaim(page, i) \/ \E b \in Larges : LargeClaim(b, page, i)

(* A page that was taken for objects which are not on a list yet. *)
Cutting(x) == pc[x] \in {"chain", "push"}

(* The marks a context has still to write are for its own page or block. *)
TagsFit(x) ==
    /\ ~Tagging(x) => loc[x].tags = << >>
    /\ Cutting(x) \/ (Tagging(x) /\ ~IsLarge(loc[x].size)) => Run(PageOf(loc[x].addr), 1) \in blocks
    /\ Tagging(x) /\ ~IsLarge(loc[x].size) => loc[x].tags = <<<<PageOf(loc[x].addr), loc[x].s>>>>
    /\ Tagging(x) /\ IsLarge(loc[x].size) =>
           \A k \in DOMAIN loc[x].tags :
               LargeClaim(<<loc[x].addr, loc[x].size>>, loc[x].tags[k][1], loc[x].tags[k][2])

(* Nobody marks a page that somebody else is cutting. *)
TagsApart ==
    \A x, y \in Contexts :
        Cutting(x) /\ Tagging(y) /\ ~IsLarge(loc[y].size) => PageOf(loc[x].addr) # PageOf(loc[y].addr)

(* The marks that were written are right, and the ones to come. *)
MarksRight ==
    \A page, i : Claim(page, i) =>
        page \in PageNumbers /\ (Unmarked(page) \/ page_bits[page] = i)

TagsRight ==
    \A page, i : Claim(page, i) =>
        \A x \in Contexts : \A k \in DOMAIN loc[x].tags :
            loc[x].tags[k][1] = page => loc[x].tags[k][2] = i

(* All objects a page was cut into are there, and no others. *)
Full(page, s) ==
    /\ \A k \in DOMAIN Objects(page, s) : <<Objects(page, s)[k], s>> \in Smalls
    /\ \A o \in Smalls : PageOf(o[1]) = page =>
           o[2] = s /\ \E k \in DOMAIN Objects(page, s) : o[1] = Objects(page, s)[k]

PagesFull ==
    \A r \in blocks : r.size = 1 =>
        \/ \E x \in Contexts : Cutting(x) /\ PageOf(loc[x].addr) = r.addr
        \/ \E s \in Indexes : Full(r.addr, s)

LargesKept == \A r \in blocks : r.size > 1 => \E b \in Larges : PageOf(b[1]) = r.addr

TagInv == (\A x \in Contexts : TagsFit(x)) /\ TagsApart

MarkInv == TagInv /\ MarksRight /\ TagsRight /\ PagesFull /\ LargesKept

Marks == damage = "none" => MarkInv

-----------------------------------------------------------------------------
(* Objects, large blocks and owners *)

(* The page of an address. *)
LEMMA PageCover ==
    ASSUME NEW a \in Nat, NEW page \in Nat
    PROVE  /\ PageOf(a) \in Nat
           /\ PageOf(a) = page <=> page * PAGE_4K_SIZE <= a /\ a < page * PAGE_4K_SIZE + PAGE_4K_SIZE
  BY DEF PageOf, PAGE_4K_SIZE

(* Every object is an owner's. *)
LEMMA SmallOwned ==
    ASSUME TypeOK, Good, NEW o \in Smalls
    PROVE  /\ o[1] \in Nat /\ o[2] \in Indexes
           /\ \E w \in Owners : w.addr = o[1] /\ w.kind \in {"held", "list", "freeing"}
  <1>1. CASE o \in ListSmalls
    <2>1. PICK c \in Cpus, s \in Indexes : o \in Objs(freehead[c][s], s)
      BY <1>1 DEF ListSmalls
    <2>2. PICK i \in DOMAIN freehead[c][s] : o = <<freehead[c][s][i], s>>
      BY <2>1 DEF Objs
    <2>3. freehead[c][s] \in Seq(Nat)
      BY DEF TypeOK
    <2>4. freehead[c][s][i] \in Nat
      BY <2>2, <2>3
    <2> DEFINE w == Owner("list", <<c, s, i>>, freehead[c][s][i], kmalloc_info[s])
    <2>5. w \in Owners
      BY DEF Owners, ListOwners, ListsOf, ListOf
    <2>6. w.addr = o[1] /\ w.kind = "list"
      BY <2>2 DEF Owner
    <2> HIDE DEF w
    <2> QED
      BY <2>2, <2>4, <2>5, <2>6
  <1>2. CASE o \in HeldSmalls
    <2>1. PICK b \in held : ~IsLarge(b.size) /\ o = <<b.addr, kmalloc_slab(b.size)>>
      BY <1>2 DEF HeldSmalls
    <2>2. b.addr \in Nat /\ b.size \in Sizes
      BY DEF TypeOK
    <2>3. HeldOwner(b) \in Owners /\ HeldOwner(b).addr = o[1] /\ HeldOwner(b).kind = "held"
      BY <2>1 DEF Owners, HeldOwners, HeldOwner, Owner
    <2> QED
      BY <2>1, <2>2, <2>3, SlabIndex
  <1>3. CASE o \in FreeingSmalls
    <2>1. PICK x \in Contexts : pc[x] = "link" /\ o = <<loc[x].addr, loc[x].s>>
      BY <1>3 DEF FreeingSmalls
    <2>2. loc[x].addr \in Nat /\ loc[x].s \in Indexes
      BY <2>1 DEF TypeOK, Locals, Good, LocalsFit
    <2>3. FreeingOwner(x) \in Owners /\ FreeingOwner(x).addr = o[1] /\ FreeingOwner(x).kind = "freeing"
      BY <2>1 DEF Owners, HandOwners, InHand, FreeingOwner, Owner
    <2> QED
      BY <2>1, <2>2, <2>3
  <1> QED
    BY <1>1, <1>2, <1>3 DEF Smalls

(* Every large block is an owner's, and a block of the page allocator. *)
LEMMA LargeOwned ==
    ASSUME TypeOK, Good, NEW b \in Larges
    PROVE  /\ b[1] \in Nat /\ b[2] \in Sizes /\ IsLarge(b[2]) /\ LargeBlock(b[1], b[2])
           /\ \E w \in Owners :
                  /\ w.addr = b[1] /\ w.room = PageCount(b[2]) * PAGE_4K_SIZE
                  /\ w.kind = "held" \/ (w.kind = "malloc" /\ Tagging(w.key))
  <1>1. CASE b \in HeldLarges
    <2>1. PICK h \in held : IsLarge(h.size) /\ b = <<h.addr, h.size>>
      BY <1>1 DEF HeldLarges
    <2>2. h.addr \in Nat /\ h.size \in Sizes /\ LargeBlock(h.addr, h.size)
      BY <2>1 DEF TypeOK, Good, HeldFit
    <2>3. /\ HeldOwner(h) \in Owners /\ HeldOwner(h).addr = b[1] /\ HeldOwner(h).kind = "held"
          /\ HeldOwner(h).room = PageCount(b[2]) * PAGE_4K_SIZE
      BY <2>1 DEF Owners, HeldOwners, HeldOwner, Owner, Room
    <2> QED
      BY <2>1, <2>2, <2>3
  <1>2. CASE b \in TaggedLarges
    <2>1. PICK x \in Contexts :
              Tagging(x) /\ IsLarge(loc[x].size) /\ b = <<loc[x].addr, loc[x].size>>
      BY <1>2 DEF TaggedLarges
    <2>2. loc[x].addr \in Nat /\ loc[x].size \in Sizes /\ LargeBlock(loc[x].addr, loc[x].size)
      BY <2>1 DEF TypeOK, Locals, Good, LocalsFit, Tagging
    <2>3. PreparedOwner(x) \in Owners
      BY <2>1 DEF Owners, HandOwners, InHand, Preparing, Tagging
    <2>4. /\ PreparedOwner(x).addr = b[1] /\ PreparedOwner(x).kind = "malloc"
          /\ PreparedOwner(x).room = PageCount(b[2]) * PAGE_4K_SIZE /\ PreparedOwner(x).key = x
      BY <2>1 DEF PreparedOwner, Owner, Room
    <2> QED
      BY <2>1, <2>2, <2>3, <2>4
  <1> QED
    BY <1>1, <1>2 DEF Larges

(* Nobody claims a page that is free or that is being cut. *)
LEMMA NoClaim ==
    ASSUME TypeOK, Good, NEW page \in Nat, NEW v \in Owners,
           v.addr = page * PAGE_4K_SIZE, v.room = PAGE_4K_SIZE,
           v.kind = "free" \/ (v.kind = "malloc" /\ ~Tagging(v.key))
    PROVE  \A i : ~Claim(page, i)
  <1>0. Sane(Owners) /\ Apart(Owners)
    BY OwnersSane DEF Good
  <1>1. ASSUME NEW i, SmallClaim(page, i)
        PROVE  FALSE
    <2>1. PICK o \in Smalls : PageOf(o[1]) = page
      BY <1>1 DEF SmallClaim
    <2>2. PICK w \in Owners : w.addr = o[1] /\ w.kind \in {"held", "list", "freeing"}
      BY SmallOwned
    <2>3. Beside(v, w) /\ w.addr \in Nat /\ w.room \in Nat \ {0}
      BY <1>0, <2>2 DEF Apart, Sane
    <2>4. page * PAGE_4K_SIZE <= w.addr /\ w.addr < page * PAGE_4K_SIZE + PAGE_4K_SIZE
      BY <2>1, <2>2, <2>3, PageCover
    <2> QED
      BY <2>3, <2>4 DEF Beside, PAGE_4K_SIZE
  <1>2. ASSUME NEW i, NEW b \in Larges, LargeClaim(b, page, i)
        PROVE  FALSE
    <2>1. PICK j \in 0 .. PageCount(b[2]) - 1 : page = PageOf(b[1]) + j
      BY <1>2 DEF LargeClaim
    <2>2. b[1] \in Nat /\ b[2] \in Sizes /\ b[1] = PageOf(b[1]) * PAGE_4K_SIZE
      BY LargeOwned DEF LargeBlock, WholePages
    <2>3. PICK w \in Owners :
              /\ w.addr = b[1] /\ w.room = PageCount(b[2]) * PAGE_4K_SIZE
              /\ w.kind = "held" \/ (w.kind = "malloc" /\ Tagging(w.key))
      BY LargeOwned
    <2>4. Beside(v, w)
      BY <1>0, <2>3 DEF Apart
    <2>5. PageOf(b[1]) \in Nat /\ PageCount(b[2]) \in Nat
      BY <2>2, PageCover, RoomFits
    <2> QED
      BY <2>1, <2>2, <2>3, <2>4, <2>5 DEF Beside, PAGE_4K_SIZE
  <1> QED
    BY <1>1, <1>2 DEF Claim

(* The two cases. *)
LEMMA NewPages ==
    ASSUME TypeOK, Good
    PROVE  /\ \A page \in free : \A i : ~Claim(page, i)
           /\ \A x \in Contexts : Cutting(x) => \A i : ~Claim(PageOf(loc[x].addr), i)
  <1>1. ASSUME NEW page \in free
        PROVE  \A i : ~Claim(page, i)
    <2>1. page \in Nat
      BY SlubAssumption DEF TypeOK
    <2>2. /\ FreeOwner(page) \in Owners /\ FreeOwner(page).kind = "free"
          /\ FreeOwner(page).addr = page * PAGE_4K_SIZE /\ FreeOwner(page).room = PAGE_4K_SIZE
      BY DEF Owners, FreeOwners, FreeOwner, Owner
    <2> QED
      BY <2>1, <2>2, NoClaim
  <1>2. ASSUME NEW x \in Contexts, Cutting(x)
        PROVE  \A i : ~Claim(PageOf(loc[x].addr), i)
    <2>1. ~IsLarge(loc[x].size) /\ WholePages(loc[x].addr) /\ ~Tagging(x)
      BY <1>2 DEF Good, LocalsFit, Cutting, Tagging
    <2>2. PageOf(loc[x].addr) \in Nat /\ loc[x].addr = PageOf(loc[x].addr) * PAGE_4K_SIZE
      <3>1. Pages \subseteq Nat
        BY SlubAssumption
      <3> QED
        BY <2>1, <3>1 DEF WholePages
    <2>3. PreparedOwner(x) \in Owners
      BY <1>2 DEF Owners, HandOwners, InHand, Preparing, Cutting
    <2>4. /\ PreparedOwner(x).kind = "malloc" /\ PreparedOwner(x).key = x
          /\ PreparedOwner(x).addr = loc[x].addr /\ PreparedOwner(x).room = PAGE_4K_SIZE
      BY <2>1 DEF PreparedOwner, Owner
    <2> QED
      BY <2>1, <2>2, <2>3, <2>4, NoClaim
  <1> QED
    BY <1>1, <1>2

-----------------------------------------------------------------------------
(* What a step does to the objects and the large blocks *)

(* A list is written. *)
LEMMA ListSmallsStep ==
    ASSUME TypeOK, NEW x \in Contexts, NEW s \in Indexes, NEW l, SetList(x, s, l)
    PROVE  /\ ListSmalls' \subseteq ListSmalls \cup Objs(l, s)
           /\ ListSmalls \subseteq ListSmalls' \cup Objs(List(x, s), s)
           /\ Objs(l, s) \subseteq ListSmalls'
           /\ Objs(List(x, s), s) \subseteq ListSmalls
  <1>1. x[1] \in Cpus
    BY OneContext
  <1>2. \A c \in Cpus, t \in Indexes :
            freehead'[c][t] = IF c = x[1] /\ t = s THEN l ELSE freehead[c][t]
    BY <1>1 DEF TypeOK, SetList, this_cpu
  <1>3. List(x, s) = freehead[x[1]][s]
    BY DEF List, this_cpu
  <1>4. \A o : o \in ListSmalls <=> \E c \in Cpus, t \in Indexes : o \in Objs(freehead[c][t], t)
    BY DEF ListSmalls
  <1>5. \A o : o \in ListSmalls' <=> \E c \in Cpus, t \in Indexes : o \in Objs(freehead'[c][t], t)
    BY DEF ListSmalls, Objs
  <1>6. Objs(l, s) \subseteq ListSmalls' /\ Objs(List(x, s), s) \subseteq ListSmalls
    BY <1>1, <1>2, <1>3, <1>4, <1>5
  <1>7. ASSUME NEW o \in ListSmalls', o \notin Objs(l, s)
        PROVE  o \in ListSmalls
    <2>1. PICK c \in Cpus, t \in Indexes : o \in Objs(freehead'[c][t], t)
      BY <1>5
    <2>2. ~(c = x[1] /\ t = s)
      BY <1>2, <1>7, <2>1
    <2> QED
      BY <1>2, <1>4, <2>1, <2>2
  <1>8. ASSUME NEW o \in ListSmalls, o \notin Objs(List(x, s), s)
        PROVE  o \in ListSmalls'
    <2>1. PICK c \in Cpus, t \in Indexes : o \in Objs(freehead[c][t], t)
      BY <1>4
    <2>2. ~(c = x[1] /\ t = s)
      BY <1>3, <1>8, <2>1
    <2> QED
      BY <1>2, <1>5, <2>1, <2>2
  <1> QED
    BY <1>6, <1>7, <1>8

(* The objects of a list after one was put in front of it. *)
LEMMA ObjsConcat ==
    ASSUME NEW s, NEW front \in Seq(Nat), NEW l \in Seq(Nat)
    PROVE  Objs(front \o l, s) = Objs(front, s) \cup Objs(l, s)
  <1> DEFINE N == Len(front)
             m == front \o l
  <1>1. N \in Nat /\ m \in Seq(Nat) /\ Len(m) = N + Len(l) /\ DOMAIN m = 1 .. Len(m) /\ Len(l) \in Nat
        /\ DOMAIN l = 1 .. Len(l) /\ DOMAIN front = 1 .. N
    OBVIOUS
  <1>2. /\ \A i \in DOMAIN m : i <= N => i \in DOMAIN front /\ m[i] = front[i]
        /\ \A i \in DOMAIN m : i > N => i - N \in DOMAIN l /\ m[i] = l[i - N]
    BY <1>1
  <1>3. \A i \in DOMAIN front : i \in DOMAIN m /\ m[i] = front[i]
    BY <1>1
  <1>4. \A i \in DOMAIN l : i + N \in DOMAIN m /\ m[i + N] = l[i]
    BY <1>1
  <1>5. \A i \in DOMAIN m : i <= N \/ i > N
    BY <1>1
  <1> HIDE DEF m, N
  <1>6. \A o \in Objs(m, s) : o \in Objs(front, s) \cup Objs(l, s)
    BY <1>2, <1>5 DEF Objs
  <1>7. \A o \in Objs(front, s) \cup Objs(l, s) : o \in Objs(m, s)
    BY <1>3, <1>4 DEF Objs
  <1> QED
    BY <1>6, <1>7 DEF m

(* The objects of a list and its first one. *)
LEMMA ObjsHead ==
    ASSUME NEW s, NEW l \in Seq(Nat), l # << >>
    PROVE  Objs(l, s) = {<<Head(l), s>>} \cup Objs(Tail(l), s)
  <1> DEFINE t == Tail(l)
  <1>1. Len(l) \in Nat \ {0} /\ DOMAIN l = 1 .. Len(l) /\ Head(l) = l[1]
    OBVIOUS
  <1>2. t \in Seq(Nat) /\ Len(t) = Len(l) - 1 /\ DOMAIN t = 1 .. Len(l) - 1
    BY <1>1
  <1>3. \A i \in 1 .. Len(l) - 1 : t[i] = l[i + 1]
    BY <1>1
  <1> HIDE DEF t
  <1>4. \A i \in DOMAIN l : i = 1 \/ (i - 1 \in DOMAIN t /\ t[i - 1] = l[i])
    BY <1>1, <1>2, <1>3
  <1>5. \A i \in DOMAIN t : i + 1 \in DOMAIN l /\ t[i] = l[i + 1]
    BY <1>1, <1>2, <1>3
  <1>6. \A o \in Objs(l, s) : o = <<Head(l), s>> \/ o \in Objs(t, s)
    BY <1>1, <1>4 DEF Objs
  <1>7. \A o \in Objs(t, s) : o \in Objs(l, s)
    BY <1>5 DEF Objs
  <1>8. <<Head(l), s>> \in Objs(l, s)
    BY <1>1 DEF Objs
  <1> QED
    BY <1>6, <1>7, <1>8 DEF t

(* Only the context that takes a step changes what is being freed or        *)
(* marked.                                                                 *)
LEMMA HandSmallsStep ==
    ASSUME NEW x \in Contexts, \A y \in Contexts \ {x} : pc'[y] = pc[y] /\ loc'[y] = loc[y]
    PROVE  /\ FreeingSmalls' \subseteq
                  FreeingSmalls \cup (IF pc'[x] = "link" THEN {<<loc'[x].addr, loc'[x].s>>} ELSE {})
           /\ FreeingSmalls \subseteq
                  FreeingSmalls' \cup (IF pc[x] = "link" THEN {<<loc[x].addr, loc[x].s>>} ELSE {})
           /\ pc'[x] = "link" => <<loc'[x].addr, loc'[x].s>> \in FreeingSmalls'
           /\ pc[x] = "link" => <<loc[x].addr, loc[x].s>> \in FreeingSmalls
           /\ TaggedLarges' \subseteq
                  TaggedLarges \cup (IF (Tagging(x) /\ IsLarge(loc[x].size))'
                                     THEN {<<loc'[x].addr, loc'[x].size>>} ELSE {})
           /\ TaggedLarges \subseteq
                  TaggedLarges' \cup (IF Tagging(x) /\ IsLarge(loc[x].size)
                                      THEN {<<loc[x].addr, loc[x].size>>} ELSE {})
           /\ (Tagging(x) /\ IsLarge(loc[x].size))' =>
                  <<loc'[x].addr, loc'[x].size>> \in TaggedLarges'
           /\ Tagging(x) /\ IsLarge(loc[x].size) => <<loc[x].addr, loc[x].size>> \in TaggedLarges
  <1>1. \A o : o \in FreeingSmalls <=>
                   \E y \in Contexts : pc[y] = "link" /\ o = <<loc[y].addr, loc[y].s>>
    BY DEF FreeingSmalls
  <1>2. \A o : o \in FreeingSmalls' <=>
                   \E y \in Contexts : pc'[y] = "link" /\ o = <<loc'[y].addr, loc'[y].s>>
    BY DEF FreeingSmalls
  <1>3. \A o : o \in TaggedLarges <=>
                   \E y \in Contexts : /\ pc[y] \in {"tag", "tagwrite"} /\ IsLarge(loc[y].size)
                                       /\ o = <<loc[y].addr, loc[y].size>>
    BY DEF TaggedLarges, Tagging
  <1>4. \A o : o \in TaggedLarges' <=>
                   \E y \in Contexts : /\ pc'[y] \in {"tag", "tagwrite"} /\ IsLarge(loc'[y].size)
                                       /\ o = <<loc'[y].addr, loc'[y].size>>
    BY DEF TaggedLarges, Tagging, IsLarge
  <1>5. /\ (Tagging(x) /\ IsLarge(loc[x].size))' <=>
               pc'[x] \in {"tag", "tagwrite"} /\ IsLarge(loc'[x].size)
        /\ Tagging(x) <=> pc[x] \in {"tag", "tagwrite"}
    BY DEF Tagging, IsLarge
  <1>6. /\ \A o \in FreeingSmalls' : o \in FreeingSmalls \/ (pc'[x] = "link" /\ o = <<loc'[x].addr, loc'[x].s>>)
        /\ \A o \in FreeingSmalls : o \in FreeingSmalls' \/ (pc[x] = "link" /\ o = <<loc[x].addr, loc[x].s>>)
        /\ pc'[x] = "link" => <<loc'[x].addr, loc'[x].s>> \in FreeingSmalls'
        /\ pc[x] = "link" => <<loc[x].addr, loc[x].s>> \in FreeingSmalls
    BY <1>1, <1>2
  <1>7. /\ \A o \in TaggedLarges' :
               \/ o \in TaggedLarges
               \/ pc'[x] \in {"tag", "tagwrite"} /\ IsLarge(loc'[x].size) /\ o = <<loc'[x].addr, loc'[x].size>>
        /\ \A o \in TaggedLarges :
               \/ o \in TaggedLarges'
               \/ pc[x] \in {"tag", "tagwrite"} /\ IsLarge(loc[x].size) /\ o = <<loc[x].addr, loc[x].size>>
        /\ pc'[x] \in {"tag", "tagwrite"} /\ IsLarge(loc'[x].size) =>
               <<loc'[x].addr, loc'[x].size>> \in TaggedLarges'
        /\ pc[x] \in {"tag", "tagwrite"} /\ IsLarge(loc[x].size) =>
               <<loc[x].addr, loc[x].size>> \in TaggedLarges
    BY <1>3, <1>4
  <1> QED
    BY <1>5, <1>6, <1>7

(* A step of x that only moves on leaves the objects and blocks alone. *)
LEMMA QuietStep ==
    ASSUME NEW x \in Contexts, \A y \in Contexts \ {x} : pc'[y] = pc[y] /\ loc'[y] = loc[y],
           UNCHANGED <<freehead, held>>, pc[x] # "link", pc'[x] # "link"
    PROVE  /\ Smalls' = Smalls
           /\ ~(Tagging(x) /\ IsLarge(loc[x].size)) /\ ~(Tagging(x) /\ IsLarge(loc[x].size))' =>
                  Larges' = Larges
  <1>1. ListSmalls' = ListSmalls /\ HeldSmalls' = HeldSmalls /\ HeldLarges' = HeldLarges
    BY DEF ListSmalls, HeldSmalls, HeldLarges
  <1>2. FreeingSmalls' = FreeingSmalls
    BY HandSmallsStep
  <1>3. ~(Tagging(x) /\ IsLarge(loc[x].size)) /\ ~(Tagging(x) /\ IsLarge(loc[x].size))' =>
            TaggedLarges' = TaggedLarges
    BY HandSmallsStep
  <1> QED
    BY <1>1, <1>2, <1>3 DEF Smalls, Larges

-----------------------------------------------------------------------------
(* Steps *)

(* What is right stays right while the claims, the marks and the marks to   *)
(* come stay.                                                              *)
LEMMA MarksStay ==
    ASSUME MarksRight, TagsRight, page_bits' = page_bits, lost' = lost,
           Smalls' = Smalls, Larges' \subseteq Larges,
           \A y \in Contexts : loc'[y].tags = loc[y].tags
    PROVE  MarksRight' /\ TagsRight'
  <1>1. ASSUME NEW page, NEW i, Claim(page, i)'
        PROVE  Claim(page, i)
    <2>1. SmallClaim(page, i)' => SmallClaim(page, i)
      BY DEF SmallClaim
    <2>2. (\E b \in Larges : LargeClaim(b, page, i))' => \E b \in Larges : LargeClaim(b, page, i)
      BY DEF LargeClaim
    <2> QED
      BY <1>1, <2>1, <2>2 DEF Claim
  <1>2. ASSUME NEW page
        PROVE  Unmarked(page)' <=> Unmarked(page)
    BY DEF Unmarked
  <1>3. MarksRight'
    BY <1>1, <1>2 DEF MarksRight, PageNumbers
  <1>4. TagsRight'
    BY <1>1 DEF TagsRight
  <1> QED
    BY <1>3, <1>4

(* The same for the pages that were cut and the large blocks. *)
LEMMA PagesStay ==
    ASSUME PagesFull, LargesKept, Smalls' = Smalls, Larges' = Larges, blocks' = blocks,
           \A y \in Contexts : Cutting(y) => Cutting(y)' /\ loc'[y].addr = loc[y].addr
    PROVE  PagesFull' /\ LargesKept'
  <1>1. ASSUME NEW page, NEW s, Full(page, s)
        PROVE  Full(page, s)'
    BY <1>1 DEF Full
  <1>2. ASSUME NEW x \in Contexts, NEW page, Cutting(x) /\ PageOf(loc[x].addr) = page
        PROVE  (Cutting(x) /\ PageOf(loc[x].addr) = page)'
    BY <1>2
  <1>3. PagesFull'
    BY <1>1, <1>2 DEF PagesFull
  <1>4. LargesKept'
    BY DEF LargesKept
  <1> QED
    BY <1>3, <1>4

(* The marks to come of the contexts that take no step. *)
LEMMA TagsFrame ==
    ASSUME TagInv, NEW x \in Contexts, blocks \subseteq blocks',
           \A y \in Contexts \ {x} : pc'[y] = pc[y] /\ loc'[y] = loc[y], TagsFit(x)',
           \A y \in Contexts \ {x} :
               /\ Cutting(x)' /\ Tagging(y) /\ ~IsLarge(loc[y].size) =>
                      PageOf(loc'[x].addr) # PageOf(loc[y].addr)
               /\ Cutting(y) /\ Tagging(x)' /\ ~IsLarge(loc'[x].size) =>
                      PageOf(loc[y].addr) # PageOf(loc'[x].addr)
    PROVE  TagInv'
  <1>1. ASSUME NEW y \in Contexts \ {x}
        PROVE  TagsFit(y)'
    <2>1. pc'[y] = pc[y] /\ loc'[y] = loc[y] /\ TagsFit(y)
      BY <1>1 DEF TagInv
    <2> QED
      BY <2>1 DEF TagsFit, Tagging, Cutting, LargeClaim
  <1>2. TagsApart'
    <2> SUFFICES ASSUME NEW y \in Contexts, NEW z \in Contexts,
                        Cutting(y)', Tagging(z)', ~IsLarge(loc'[z].size)
                 PROVE  PageOf(loc'[y].addr) # PageOf(loc'[z].addr)
      BY DEF TagsApart, IsLarge, PageOf
    <2>1. CASE y = x /\ z = x
      BY <2>1 DEF Cutting, Tagging
    <2>2. CASE y = x /\ z # x
      BY <2>2 DEF Tagging
    <2>3. CASE y # x /\ z = x
      BY <2>3 DEF Cutting
    <2>4. CASE y # x /\ z # x
      BY <2>4 DEF TagInv, TagsApart, Cutting, Tagging
    <2> QED
      BY <2>1, <2>2, <2>3, <2>4
  <1> QED
    BY <1>1, <1>2 DEF TagInv

(* A step of x that hands objects on and neither takes pages nor marks any. *)
LEMMA StillMarked ==
    ASSUME MarkInv, NEW x \in Contexts, UNCHANGED <<page_bits, lost, blocks>>,
           \A y \in Contexts \ {x} : pc'[y] = pc[y] /\ loc'[y] = loc[y],
           Smalls' = Smalls, Larges' = Larges, loc'[x].tags = loc[x].tags,
           Cutting(x) <=> Cutting(x)', Cutting(x) => loc'[x].addr = loc[x].addr,
           (Tagging(x) /\ ~IsLarge(loc[x].size))' =>
               Tagging(x) /\ ~IsLarge(loc[x].size) /\ loc'[x].addr = loc[x].addr,
           TagsFit(x)'
    PROVE  MarkInv'
  <1>1. MarksRight' /\ TagsRight'
    BY MarksStay DEF MarkInv
  <1>2. PagesFull' /\ LargesKept'
    <2>1. \A y \in Contexts \ {x} : Cutting(y) => Cutting(y)' /\ loc'[y].addr = loc[y].addr
      BY DEF Cutting
    <2>2. \A y \in Contexts : Cutting(y) => Cutting(y)' /\ loc'[y].addr = loc[y].addr
      BY <2>1
    <2> QED
      BY <2>2, PagesStay DEF MarkInv
  <1>3. TagInv'
    <2>1. TagInv /\ TagsApart
      BY DEF MarkInv, TagInv
    <2>2. Tagging(x)' /\ ~IsLarge(loc'[x].size) =>
              Tagging(x) /\ ~IsLarge(loc[x].size) /\ loc'[x].addr = loc[x].addr
      BY DEF IsLarge
    <2>3. \A y \in Contexts \ {x} :
              /\ Cutting(x)' /\ Tagging(y) /\ ~IsLarge(loc[y].size) =>
                     PageOf(loc'[x].addr) # PageOf(loc[y].addr)
              /\ Cutting(y) /\ Tagging(x)' /\ ~IsLarge(loc'[x].size) =>
                     PageOf(loc[y].addr) # PageOf(loc'[x].addr)
      BY <2>1, <2>2 DEF TagsApart
    <2> QED
      BY <2>1, <2>3, TagsFrame
  <1> QED
    BY <1>1, <1>2, <1>3 DEF MarkInv

(* __kmalloc looks at its list. *)
LEMMA KmallocMarks ==
    ASSUME TypeOK, Good, MarkInv, NEW x \in Contexts, NEW size \in Sizes, kmalloc(x, size)
    PROVE  MarkInv'
  <1> DEFINE s == kmalloc_slab(size)
             l == IF List(x, s) = << >> THEN "page" ELSE "pop"
             v == [NoLocals EXCEPT !.size = size, !.s = s, !.list = List(x, s)]
  <1>1. /\ pc[x] = "out" /\ Goto(x, l) /\ loc' = [loc EXCEPT ![x] = v]
        /\ UNCHANGED <<page_bits, freehead, heapvars, held, histvars>>
    BY DEF kmalloc, At
  <1>2. v.tags = << >>
    BY DEF NoLocals
  <1> HIDE DEF v
  <1>3. /\ pc'[x] = l /\ loc'[x] = v
        /\ \A y \in Contexts \ {x} : pc'[y] = pc[y] /\ loc'[y] = loc[y]
    BY <1>1, LocalStep
  <1>4. loc[x].tags = << >>
    BY <1>1 DEF MarkInv, TagInv, TagsFit, Tagging
  <1>5. pc'[x] \in {"page", "pop"}
    BY <1>3
  <1>6. ~Tagging(x) /\ ~Tagging(x)' /\ ~Cutting(x) /\ ~Cutting(x)'
    BY <1>1, <1>5 DEF Tagging, Cutting
  <1>7. Smalls' = Smalls /\ Larges' = Larges
    BY <1>1, <1>3, <1>5, <1>6, QuietStep
  <1>8. TagsFit(x)'
    BY <1>2, <1>3, <1>6 DEF TagsFit
  <1> QED
    BY <1>1, <1>2, <1>3, <1>4, <1>6, <1>7, <1>8, StillMarked DEF heapvars, histvars

(* The head of the list is read again. *)
LEMMA ChainMarks ==
    ASSUME TypeOK, Good, MarkInv, NEW x \in Contexts, Chain(x)
    PROVE  MarkInv'
  <1> DEFINE v == [loc[x] EXCEPT !.list = List(x, loc[x].s)]
  <1>1. /\ pc[x] = "chain" /\ Goto(x, "push") /\ loc' = [loc EXCEPT ![x] = v]
        /\ UNCHANGED <<page_bits, freehead, heapvars, held, histvars>>
    BY DEF Chain, At
  <1>2. v.tags = loc[x].tags /\ v.addr = loc[x].addr /\ v.size = loc[x].size
    BY DEF TypeOK, Locals
  <1> HIDE DEF v
  <1>3. /\ pc'[x] = "push" /\ loc'[x] = v
        /\ \A y \in Contexts \ {x} : pc'[y] = pc[y] /\ loc'[y] = loc[y]
    BY <1>1, LocalStep
  <1>4. ~Tagging(x) /\ ~Tagging(x)' /\ Cutting(x) /\ Cutting(x)'
    BY <1>1, <1>3 DEF Tagging, Cutting
  <1>5. Smalls' = Smalls /\ Larges' = Larges
    BY <1>1, <1>3, <1>4, QuietStep
  <1>6. TagsFit(x)
    BY DEF MarkInv, TagInv
  <1>7. TagsFit(x)'
    BY <1>1, <1>2, <1>3, <1>4, <1>6 DEF TagsFit, heapvars
  <1> QED
    BY <1>1, <1>2, <1>3, <1>4, <1>5, <1>7, StillMarked DEF heapvars, histvars

(* The head of the list is read once more after the page is marked. *)
LEMMA ReloadMarks ==
    ASSUME TypeOK, Good, MarkInv, NEW x \in Contexts, Reload(x), damage' = "none"
    PROVE  MarkInv'
  <1> DEFINE v == [loc[x] EXCEPT !.list = List(x, loc[x].s)]
  <1>1. /\ pc[x] = "reload" /\ Goto(x, "pop") /\ loc' = [loc EXCEPT ![x] = v]
        /\ UNCHANGED <<page_bits, freehead, heapvars, held, lost>>
    BY DEF Reload, At, Broken, histvars
  <1>2. v.tags = loc[x].tags
    BY DEF TypeOK, Locals
  <1> HIDE DEF v
  <1>3. /\ pc'[x] = "pop" /\ loc'[x] = v
        /\ \A y \in Contexts \ {x} : pc'[y] = pc[y] /\ loc'[y] = loc[y]
    BY <1>1, LocalStep
  <1>4. ~Tagging(x) /\ ~Tagging(x)' /\ ~Cutting(x) /\ ~Cutting(x)'
    BY <1>1, <1>3 DEF Tagging, Cutting
  <1>5. Smalls' = Smalls /\ Larges' = Larges
    BY <1>1, <1>3, <1>4, QuietStep
  <1>6. TagsFit(x)
    BY DEF MarkInv, TagInv
  <1>7. TagsFit(x)'
    BY <1>2, <1>3, <1>4, <1>6 DEF TagsFit
  <1> QED
    BY <1>1, <1>2, <1>3, <1>4, <1>5, <1>7, StillMarked DEF heapvars

(* The byte of page_bits is read. *)
LEMMA TagReadMarks ==
    ASSUME TypeOK, Good, MarkInv, NEW x \in Contexts, TagRead(x)
    PROVE  MarkInv'
  <1> DEFINE v == [loc[x] EXCEPT !.bits = page_bits[Buddy(loc[x].tags[1][1])]]
  <1>1. /\ pc[x] = "tag" /\ Goto(x, "tagwrite") /\ loc' = [loc EXCEPT ![x] = v]
        /\ UNCHANGED <<page_bits, freehead, heapvars, held, histvars>>
    BY DEF TagRead, At
  <1>2. v.tags = loc[x].tags /\ v.addr = loc[x].addr /\ v.size = loc[x].size /\ v.s = loc[x].s
    BY DEF TypeOK, Locals
  <1> HIDE DEF v
  <1>3. /\ pc'[x] = "tagwrite" /\ loc'[x] = v
        /\ \A y \in Contexts \ {x} : pc'[y] = pc[y] /\ loc'[y] = loc[y]
    BY <1>1, LocalStep
  <1>4. Tagging(x) /\ Tagging(x)' /\ ~Cutting(x) /\ ~Cutting(x)'
    BY <1>1, <1>3 DEF Tagging, Cutting
  <1>5. Smalls' = Smalls
    BY <1>1, <1>3, QuietStep
  <1>6. Larges' = Larges
    <2>1. \A y \in Contexts :
              /\ loc'[y].addr = loc[y].addr /\ loc'[y].size = loc[y].size
              /\ Tagging(y)' <=> Tagging(y)
      BY <1>2, <1>3, <1>4 DEF Tagging
    <2>2. TaggedLarges' = TaggedLarges
      <3>1. \A o : o \in TaggedLarges <=>
                       \E y \in Contexts : /\ Tagging(y) /\ IsLarge(loc[y].size)
                                           /\ o = <<loc[y].addr, loc[y].size>>
        BY DEF TaggedLarges
      <3>2. \A o : o \in TaggedLarges' <=>
                       \E y \in Contexts : /\ Tagging(y)' /\ IsLarge(loc'[y].size)
                                           /\ o = <<loc'[y].addr, loc'[y].size>>
        BY DEF TaggedLarges, IsLarge
      <3>3. \A o : o \in TaggedLarges' <=> o \in TaggedLarges
        BY <2>1, <3>1, <3>2, Zenon
      <3> QED
        BY <3>3
    <2>3. HeldLarges' = HeldLarges
      BY <1>1 DEF HeldLarges
    <2> QED
      BY <2>2, <2>3 DEF Larges
  <1>7. TagsFit(x)
    BY DEF MarkInv, TagInv
  <1>8. TagsFit(x)'
    BY <1>1, <1>2, <1>3, <1>4, <1>7 DEF TagsFit, LargeClaim, heapvars
  <1>9. (Tagging(x) /\ ~IsLarge(loc[x].size))' =>
            Tagging(x) /\ ~IsLarge(loc[x].size) /\ loc'[x].addr = loc[x].addr
    BY <1>2, <1>3, <1>4 DEF IsLarge
  <1> QED
    BY <1>1, <1>2, <1>3, <1>4, <1>5, <1>6, <1>8, <1>9, StillMarked DEF heapvars, histvars

(* The first object of a list goes to the caller. *)
LEMMA PopMarks ==
    ASSUME TypeOK, Good, MarkInv, NEW x \in Contexts, Pop(x), damage' = "none"
    PROVE  MarkInv'
  <1> DEFINE s == loc[x].s
             L == loc[x].list
             b == [addr |-> Head(L), size |-> loc[x].size]
  <1>1. /\ pc[x] = "pop" /\ Goto(x, "out") /\ loc' = [loc EXCEPT ![x] = NoLocals]
        /\ UNCHANGED <<page_bits, heapvars, lost>> /\ SetList(x, s, Tail(L)) /\ held' = held \cup {b}
        /\ List(x, s) = L
    BY DEF Pop, At, Broken, histvars
  <1>2. /\ L \in Seq(Nat) /\ L # << >>
        /\ loc[x].size \in Sizes /\ ~IsLarge(loc[x].size) /\ s = kmalloc_slab(loc[x].size)
    BY <1>1 DEF TypeOK, Locals, Good, LocalsFit
  <1>3. s \in Indexes
    BY <1>2, SlabIndex
  <1>4. b.addr = Head(L) /\ b.size = loc[x].size
    OBVIOUS
  <1> HIDE DEF s, b, L
  <1>5. /\ pc'[x] = "out" /\ loc'[x] = NoLocals
        /\ \A y \in Contexts \ {x} : pc'[y] = pc[y] /\ loc'[y] = loc[y]
    BY <1>1, LocalStep
  <1>6. ~Tagging(x) /\ ~Tagging(x)' /\ ~Cutting(x) /\ ~Cutting(x)'
    BY <1>1, <1>5 DEF Tagging, Cutting
  <1>7. loc[x].tags = << >> /\ loc'[x].tags = << >>
    <2>1. loc[x].tags = << >>
      BY <1>6 DEF MarkInv, TagInv, TagsFit
    <2>2. loc'[x].tags = << >>
      BY <1>5 DEF NoLocals
    <2> QED
      BY <2>1, <2>2
  <1>8. HeldSmalls' = HeldSmalls \cup {<<Head(L), s>>}
    <2>1. kmalloc_slab(b.size) = s /\ b.addr = Head(L) /\ ~IsLarge(b.size)
      BY <1>2, <1>4
    <2> QED
      BY <1>1, <2>1 DEF HeldSmalls
  <1>9. HeldLarges' = HeldLarges
    BY <1>1, <1>2, <1>4 DEF HeldLarges
  <1>10. FreeingSmalls' = FreeingSmalls /\ TaggedLarges' = TaggedLarges
    BY <1>1, <1>5, <1>6, HandSmallsStep
  <1>11. Smalls' = Smalls
    <2>1. Objs(L, s) = {<<Head(L), s>>} \cup Objs(Tail(L), s)
      BY <1>2, ObjsHead
    <2>2. /\ ListSmalls' \subseteq ListSmalls \cup Objs(Tail(L), s)
          /\ ListSmalls \subseteq ListSmalls' \cup Objs(L, s)
          /\ Objs(Tail(L), s) \subseteq ListSmalls'
          /\ Objs(L, s) \subseteq ListSmalls
      BY <1>1, <1>3, ListSmallsStep
    <2> QED
      BY <1>8, <1>10, <2>1, <2>2 DEF Smalls
  <1>12. Larges' = Larges
    BY <1>9, <1>10 DEF Larges
  <1>13. TagsFit(x)'
    BY <1>6, <1>7 DEF TagsFit
  <1> QED
    BY <1>1, <1>5, <1>6, <1>7, <1>11, <1>12, <1>13, StillMarked DEF heapvars

(* free takes an object back. *)
LEMMA KmfreeMarks ==
    ASSUME TypeOK, Good, MarkInv, NEW x \in Contexts, NEW b \in held, kmfree(x, b), damage' = "none"
    PROVE  MarkInv'
  <1> DEFINE s == page_bits[PageOf(b.addr)]
             v == [NoLocals EXCEPT !.s = s, !.list = List(x, s), !.addr = b.addr]
  <1>1. /\ pc[x] = "out" /\ Goto(x, "link") /\ loc' = [loc EXCEPT ![x] = v]
        /\ held' = held \ {b} /\ ~IsLarge(b.size) /\ s = kmalloc_slab(b.size)
        /\ UNCHANGED <<page_bits, freehead, heapvars, lost>>
    BY DEF kmfree, At, Broken, histvars
  <1>2. v.tags = << >> /\ v.s = s /\ v.addr = b.addr
    BY DEF NoLocals
  <1> HIDE DEF v
  <1>3. /\ pc'[x] = "link" /\ loc'[x] = v
        /\ \A y \in Contexts \ {x} : pc'[y] = pc[y] /\ loc'[y] = loc[y]
    BY <1>1, LocalStep
  <1>4. ~Tagging(x) /\ ~Tagging(x)' /\ ~Cutting(x) /\ ~Cutting(x)'
    BY <1>1, <1>3 DEF Tagging, Cutting
  <1>5. loc[x].tags = << >>
    BY <1>4 DEF MarkInv, TagInv, TagsFit
  <1> HIDE DEF s
  <1>6. /\ HeldSmalls' \subseteq HeldSmalls /\ HeldSmalls \subseteq HeldSmalls' \cup {<<b.addr, s>>}
        /\ <<b.addr, s>> \in HeldSmalls
    BY <1>1 DEF HeldSmalls
  <1>7. HeldLarges' = HeldLarges
    BY <1>1 DEF HeldLarges
  <1>8. FreeingSmalls' = FreeingSmalls \cup {<<b.addr, s>>} /\ TaggedLarges' = TaggedLarges
    BY <1>1, <1>2, <1>3, <1>4, HandSmallsStep
  <1>9. ListSmalls' = ListSmalls
    BY <1>1 DEF ListSmalls
  <1>10. Smalls' = Smalls /\ Larges' = Larges
    BY <1>6, <1>7, <1>8, <1>9 DEF Smalls, Larges
  <1>11. TagsFit(x)'
    BY <1>2, <1>3, <1>4 DEF TagsFit
  <1> QED
    BY <1>1, <1>2, <1>3, <1>4, <1>5, <1>10, <1>11, StillMarked DEF heapvars

(* The object is linked in front of its list. *)
LEMMA LinkMarks ==
    ASSUME TypeOK, Good, MarkInv, NEW x \in Contexts, Link(x), damage' = "none"
    PROVE  MarkInv'
  <1> DEFINE s == loc[x].s
             L == loc[x].list
             a == loc[x].addr
  <1>1. /\ pc[x] = "link" /\ Goto(x, "out") /\ loc' = [loc EXCEPT ![x] = NoLocals]
        /\ UNCHANGED <<page_bits, heapvars, held, lost>> /\ SetList(x, s, <<a>> \o L)
        /\ List(x, s) = L
    BY DEF Link, At, Broken, histvars
  <1>2. L \in Seq(Nat) /\ s \in Indexes /\ a \in Nat
    BY <1>1 DEF TypeOK, Locals, Good, LocalsFit
  <1> HIDE DEF s, a, L
  <1>3. /\ pc'[x] = "out" /\ loc'[x] = NoLocals
        /\ \A y \in Contexts \ {x} : pc'[y] = pc[y] /\ loc'[y] = loc[y]
    BY <1>1, LocalStep
  <1>4. ~Tagging(x) /\ ~Tagging(x)' /\ ~Cutting(x) /\ ~Cutting(x)'
    BY <1>1, <1>3 DEF Tagging, Cutting
  <1>5. loc[x].tags = << >> /\ loc'[x].tags = << >>
    <2>1. loc[x].tags = << >>
      BY <1>4 DEF MarkInv, TagInv, TagsFit
    <2>2. loc'[x].tags = << >>
      BY <1>3 DEF NoLocals
    <2> QED
      BY <2>1, <2>2
  <1>6. HeldSmalls' = HeldSmalls /\ HeldLarges' = HeldLarges
    BY <1>1 DEF HeldSmalls, HeldLarges
  <1>7. TaggedLarges' = TaggedLarges
    BY <1>3, <1>4, HandSmallsStep
  <1>8. /\ FreeingSmalls' \subseteq FreeingSmalls
        /\ FreeingSmalls \subseteq FreeingSmalls' \cup {<<a, s>>}
        /\ <<a, s>> \in FreeingSmalls
    BY <1>1, <1>3, HandSmallsStep DEF a, s
  <1>9. Smalls' = Smalls
    <2>1. Objs(<<a>> \o L, s) = Objs(<<a>>, s) \cup Objs(L, s)
      <3>1. \A f, g \in Seq(Nat) : Objs(f \o g, s) = Objs(f, s) \cup Objs(g, s)
        BY ObjsConcat
      <3>2. <<a>> \in Seq(Nat)
        BY <1>2
      <3> QED
        BY <1>2, <3>1, <3>2
    <2>2. Objs(<<a>>, s) = {<<a, s>>}
      BY <1>2 DEF Objs
    <2>3. /\ ListSmalls' \subseteq ListSmalls \cup Objs(<<a>> \o L, s)
          /\ ListSmalls \subseteq ListSmalls' \cup Objs(L, s)
          /\ Objs(<<a>> \o L, s) \subseteq ListSmalls'
          /\ Objs(L, s) \subseteq ListSmalls
      BY <1>1, <1>2, ListSmallsStep
    <2> QED
      BY <1>6, <1>8, <2>1, <2>2, <2>3 DEF Smalls
  <1>10. Larges' = Larges
    BY <1>6, <1>7 DEF Larges
  <1>11. TagsFit(x)'
    BY <1>4, <1>5 DEF TagsFit
  <1> QED
    BY <1>1, <1>3, <1>4, <1>5, <1>9, <1>10, <1>11, StillMarked DEF heapvars

-----------------------------------------------------------------------------
(* Steps that take, mark or give back pages *)

(* The claims and the unmarked pages after a step. *)
LEMMA ClaimsAfter ==
    /\ \A page, i : Claim(page, i)' <=>
           \/ \E o \in Smalls' : PageOf(o[1]) = page /\ o[2] = i
           \/ \E b \in Larges' : LargeClaim(b, page, i)
    /\ \A page : Unmarked(page)' <=>
           \/ page \in lost'
           \/ \E y \in Contexts : \E k \in DOMAIN loc'[y].tags : loc'[y].tags[k][1] = page
  <1>1. ASSUME NEW page, NEW i
        PROVE  Claim(page, i)' <=>
                   \/ \E o \in Smalls' : PageOf(o[1]) = page /\ o[2] = i
                   \/ \E b \in Larges' : LargeClaim(b, page, i)
    BY DEF Claim, SmallClaim, LargeClaim, PageOf, PageCount
  <1>2. ASSUME NEW page
        PROVE  Unmarked(page)' <=>
                   \/ page \in lost'
                   \/ \E y \in Contexts : \E k \in DOMAIN loc'[y].tags : loc'[y].tags[k][1] = page
    BY DEF Unmarked
  <1> QED
    BY <1>1, <1>2

(* A page that is still to be marked is neither free nor being cut. *)
LEMMA TagPage ==
    ASSUME TypeOK, Good, TagInv, NEW z \in Contexts, NEW k \in DOMAIN loc[z].tags
    PROVE  /\ loc[z].tags[k][1] \notin free
           /\ \A x \in Contexts : Cutting(x) => PageOf(loc[x].addr) # loc[z].tags[k][1]
  <1> DEFINE q == loc[z].tags[k][1]
  <1>1. TagsFit(z) /\ TagsApart
    BY DEF TagInv
  <1>2. Tagging(z)
    BY <1>1 DEF TagsFit
  <1>3. CASE ~IsLarge(loc[z].size)
    <2>1. q = PageOf(loc[z].addr) /\ Run(q, 1) \in blocks
      <3>1. loc[z].tags = <<<<PageOf(loc[z].addr), loc[z].s>>>> /\ Run(PageOf(loc[z].addr), 1) \in blocks
        BY <1>1, <1>2, <1>3 DEF TagsFit
      <3>2. k = 1
        BY <3>1
      <3> QED
        BY <3>1, <3>2
    <2> HIDE DEF q
    <2>2. q \in Nat
      <3>1. loc[z].addr \in Nat
        BY DEF TypeOK, Locals
      <3> QED
        BY <2>1, <3>1, PageCover
    <2>3. q \in Heap!PagesOf(Run(q, 1))
      BY <2>2 DEF Heap!PagesOf, Run
    <2>4. q \notin free
      BY <2>1, <2>3 DEF Good, HeapInv, Heap!Exclusive
    <2>5. \A x \in Contexts : Cutting(x) => PageOf(loc[x].addr) # q
      BY <1>1, <1>2, <1>3, <2>1 DEF TagsApart
    <2> QED
      BY <2>4, <2>5 DEF q
  <1>4. CASE IsLarge(loc[z].size)
    <2>1. LargeClaim(<<loc[z].addr, loc[z].size>>, q, loc[z].tags[k][2])
      BY <1>1, <1>2, <1>4 DEF TagsFit
    <2>2. <<loc[z].addr, loc[z].size>> \in Larges
      BY <1>2, <1>4 DEF Larges, TaggedLarges
    <2> HIDE DEF q
    <2>3. \E i : Claim(q, i)
      BY <2>1, <2>2 DEF Claim
    <2> QED
      BY <2>3, NewPages DEF q
  <1> QED
    BY <1>3, <1>4

(* A block of pages is taken for objects or is a large one. *)
LEMMA PagesGrow ==
    ASSUME PagesFull, LargesKept, Smalls' = Smalls, Larges \subseteq Larges',
           NEW r, blocks' \subseteq blocks \cup {r},
           \A y \in Contexts : Cutting(y) => Cutting(y)' /\ loc'[y].addr = loc[y].addr,
           \/ r.size = 1 /\ \E x \in Contexts : Cutting(x)' /\ PageOf(loc'[x].addr) = r.addr
           \/ r.size # 1 /\ \E b \in Larges' : PageOf(b[1]) = r.addr
    PROVE  PagesFull' /\ LargesKept'
  <1>1. ASSUME NEW page, NEW s, Full(page, s)
        PROVE  Full(page, s)'
    BY <1>1 DEF Full
  <1>2. ASSUME NEW t \in blocks', t.size = 1
        PROVE  \/ \E x \in Contexts : Cutting(x)' /\ PageOf(loc'[x].addr) = t.addr
               \/ \E s \in Indexes : Full(t.addr, s)'
    <2>1. CASE t \in blocks
      BY <1>1, <1>2, <2>1 DEF PagesFull
    <2>2. CASE t = r
      BY <1>2, <2>2
    <2> QED
      BY <2>1, <2>2
  <1>3. PagesFull'
    BY <1>2 DEF PagesFull, PageOf
  <1>4. ASSUME NEW t \in blocks', t.size > 1
        PROVE  \E b \in Larges' : PageOf(b[1]) = t.addr
    <2>1. CASE t \in blocks
      BY <1>4, <2>1 DEF LargesKept
    <2>2. CASE t = r
      <3>1. t.size # 1
        BY <1>4
      <3> QED
        BY <2>2, <3>1
    <2> QED
      BY <2>1, <2>2
  <1>5. LargesKept'
    BY <1>4 DEF LargesKept, PageOf
  <1> QED
    BY <1>3, <1>5

(* slub_add_page gets a page. *)
LEMMA AddPageMarks ==
    ASSUME TypeOK, Good, MarkInv, NEW x \in Contexts, AddPage(x)
    PROVE  MarkInv'
  <1>1. PICK page \in Fits(1) :
            /\ Heap!Alloc(Run(page, 1))
            /\ loc' = [loc EXCEPT ![x].addr = page * PAGE_4K_SIZE]
    BY DEF AddPage
  <1> DEFINE v == [loc[x] EXCEPT !.addr = page * PAGE_4K_SIZE]
  <1>2. /\ pc[x] = "page" /\ Goto(x, "chain") /\ loc' = [loc EXCEPT ![x] = v]
        /\ UNCHANGED <<page_bits, freehead, held, histvars>>
    BY <1>1 DEF AddPage, At
  <1>3. page \in Nat \ {0} /\ Heap!PagesOf(Run(page, 1)) = {page} /\ page \in free
    BY RunType
  <1>4. blocks' = blocks \cup {Run(page, 1)}
    BY <1>1 DEF Heap!Alloc
  <1>5. v.tags = loc[x].tags /\ v.addr = page * PAGE_4K_SIZE
    BY DEF TypeOK, Locals
  <1> HIDE DEF v
  <1>6. /\ pc'[x] = "chain" /\ loc'[x] = v
        /\ \A y \in Contexts \ {x} : pc'[y] = pc[y] /\ loc'[y] = loc[y]
    BY <1>2, LocalStep
  <1>7. PageOf(loc'[x].addr) = page
    BY <1>3, <1>5, <1>6 DEF PageOf, PAGE_4K_SIZE
  <1>8. ~Tagging(x) /\ ~Tagging(x)' /\ ~Cutting(x) /\ Cutting(x)'
    BY <1>2, <1>6 DEF Tagging, Cutting
  <1>9. Smalls' = Smalls /\ Larges' = Larges
    BY <1>2, <1>6, <1>8, QuietStep
  <1>10. \A y \in Contexts : loc'[y].tags = loc[y].tags
    BY <1>5, <1>6
  <1>11. MarksRight' /\ TagsRight'
    BY <1>2, <1>9, <1>10, MarksStay DEF MarkInv, histvars
  <1>12. PagesFull' /\ LargesKept'
    <2>1. \A y \in Contexts \ {x} : Cutting(y) => Cutting(y)' /\ loc'[y].addr = loc[y].addr
      BY <1>6 DEF Cutting
    <2>2. \A y \in Contexts : Cutting(y) => Cutting(y)' /\ loc'[y].addr = loc[y].addr
      BY <1>8, <2>1
    <2>3. Run(page, 1).size = 1 /\ Run(page, 1).addr = page
      BY DEF Run
    <2> QED
      BY <1>4, <1>7, <1>8, <1>9, <2>2, <2>3, PagesGrow DEF MarkInv
  <1>13. TagsFit(x)'
    <2>1. loc'[x].tags = << >>
      BY <1>8, <1>10 DEF MarkInv, TagInv, TagsFit
    <2> QED
      BY <1>4, <1>7, <1>8, <2>1 DEF TagsFit
  <1>14. TagInv'
    <2>1. TagInv
      BY DEF MarkInv
    <2>2. ASSUME NEW y \in Contexts, Tagging(y), ~IsLarge(loc[y].size)
          PROVE  PageOf(loc[y].addr) # page
      <3>1. loc[y].tags = <<<<PageOf(loc[y].addr), loc[y].s>>>>
        BY <2>1, <2>2 DEF TagInv, TagsFit
      <3>2. 1 \in DOMAIN loc[y].tags /\ loc[y].tags[1][1] = PageOf(loc[y].addr)
        BY <3>1
      <3> QED
        BY <1>3, <2>1, <3>2, TagPage
    <2> QED
      BY <1>4, <1>6, <1>7, <1>8, <1>13, <2>1, <2>2, TagsFrame
  <1> QED
    BY <1>11, <1>12, <1>14 DEF MarkInv

(* __kmalloc_large gets its run of pages, all of which are to be marked. *)
LEMMA KmallocLargeMarks ==
    ASSUME TypeOK, Good, MarkInv, NEW x \in Contexts, NEW size \in Sizes, kmalloc_large(x, size)
    PROVE  MarkInv'
  <1> DEFINE n == PageCount(size)
  <1>1. PICK page \in Fits(n) :
            /\ Heap!Alloc(Run(page, n))
            /\ loc' = [loc EXCEPT ![x] = [NoLocals EXCEPT !.size = size,
                           !.addr = page * PAGE_4K_SIZE, !.tags = LargeTags(page, n)]]
    BY DEF kmalloc_large
  <1> DEFINE a == page * PAGE_4K_SIZE
             v == [NoLocals EXCEPT !.size = size, !.addr = a, !.tags = LargeTags(page, n)]
             B == <<a, size>>
  <1>2. /\ pc[x] = "out" /\ IsLarge(size) /\ Goto(x, "tag") /\ loc' = [loc EXCEPT ![x] = v]
        /\ UNCHANGED <<page_bits, freehead, held, histvars>>
    BY <1>1 DEF kmalloc_large, At
  <1>3. n \in Nat \ {0} /\ n # 1
    BY <1>2, RoomFits
  <1>4. v.size = size /\ v.addr = a /\ v.tags = LargeTags(page, n)
    BY DEF NoLocals
  <1>5. \A q, i : LargeClaim(B, q, i) <=> \E j \in 0 .. n - 1 : q = PageOf(a) + j /\ i = Mark(j)
    BY DEF LargeClaim
  <1>6. B[1] = a
    OBVIOUS
  <1> HIDE DEF v, n, B
  <1>7. page \in Nat \ {0} /\ page .. page + n - 1 \subseteq free
    BY <1>3, RunType
  <1>8. blocks' = blocks \cup {Run(page, n)}
    BY <1>1 DEF Heap!Alloc
  <1>9. PageOf(a) = page
    BY <1>7 DEF PageOf, PAGE_4K_SIZE
  <1>10. \A q, i : LargeClaim(B, q, i) <=> \E j \in 0 .. n - 1 : q = page + j /\ i = Mark(j)
    BY <1>5, <1>9
  <1> HIDE DEF a
  <1>11. /\ pc'[x] = "tag" /\ loc'[x] = v
         /\ \A y \in Contexts \ {x} : pc'[y] = pc[y] /\ loc'[y] = loc[y]
    BY <1>2, LocalStep
  <1>12. ~Tagging(x) /\ Tagging(x)' /\ ~Cutting(x) /\ ~Cutting(x)' /\ IsLarge(loc'[x].size)
    BY <1>2, <1>4, <1>11 DEF Tagging, Cutting
  <1>13. loc[x].tags = << >>
    BY <1>12 DEF MarkInv, TagInv, TagsFit
  <1>14. Smalls' = Smalls
    BY <1>2, <1>11, QuietStep
  <1>15. Larges' = Larges \cup {B}
    <2>1. HeldLarges' = HeldLarges
      BY <1>2 DEF HeldLarges
    <2>2. (Tagging(x) /\ IsLarge(loc[x].size))' /\ <<loc'[x].addr, loc'[x].size>> = B
      BY <1>4, <1>11, <1>12 DEF B, IsLarge
    <2>3. TaggedLarges' = TaggedLarges \cup {B}
      BY <1>11, <1>12, <2>2, HandSmallsStep
    <2> QED
      BY <2>1, <2>3 DEF Larges
  <1>16. ASSUME NEW k \in DOMAIN loc'[x].tags
         PROVE  /\ k - 1 \in 0 .. n - 1 /\ loc'[x].tags[k][1] = page + (k - 1)
                /\ loc'[x].tags[k][2] = Mark(k - 1)
    <2>1. k \in 1 .. n /\ loc'[x].tags[k] = <<page + k - 1, IF k = 1 THEN LARGE_IDX ELSE LARGE_NEXT>>
      BY <1>3, <1>4, <1>11, <1>16 DEF LargeTags
    <2> QED
      BY <1>3, <1>7, <2>1 DEF Mark
  <1>17. ASSUME NEW j \in 0 .. n - 1
         PROVE  \E k \in DOMAIN loc'[x].tags : loc'[x].tags[k][1] = page + j
    <2>1. j + 1 \in DOMAIN loc'[x].tags /\ loc'[x].tags[j + 1][1] = page + (j + 1) - 1
      BY <1>3, <1>4, <1>11, <1>17 DEF LargeTags
    <2> QED
      BY <1>7, <1>17, <2>1
  <1>18. ASSUME NEW q, NEW i, Claim(q, i)'
         PROVE  Claim(q, i) \/ LargeClaim(B, q, i)
    BY <1>14, <1>15, <1>18, ClaimsAfter DEF Claim, SmallClaim
  <1>19. ASSUME NEW q, NEW i, LargeClaim(B, q, i)
         PROVE  q \in free /\ Unmarked(q)'
    <2>1. PICK j \in 0 .. n - 1 : q = page + j
      BY <1>10, <1>19
    <2>2. page + j \in page .. page + n - 1
      BY <1>3, <1>7
    <2> QED
      BY <1>7, <1>17, <2>1, <2>2, ClaimsAfter
  <1>20. ASSUME NEW q, Unmarked(q)
         PROVE  Unmarked(q)'
    <2>1. CASE q \in lost
      BY <1>2, <2>1, ClaimsAfter DEF histvars
    <2>2. CASE \E y \in Contexts : \E k \in DOMAIN loc[y].tags : loc[y].tags[k][1] = q
      <3>1. PICK y \in Contexts : \E k \in DOMAIN loc[y].tags : loc[y].tags[k][1] = q
        BY <2>2
      <3>2. y # x
        BY <1>13, <3>1
      <3> QED
        BY <1>11, <3>1, <3>2, ClaimsAfter
    <2> QED
      BY <1>20, <2>1, <2>2 DEF Unmarked
  <1>21. MarksRight'
    <2>1. free \subseteq PageNumbers
      BY SlubAssumption DEF TypeOK, PageNumbers
    <2>2. ASSUME NEW q, NEW i, Claim(q, i)'
          PROVE  q \in PageNumbers /\ (Unmarked(q)' \/ page_bits'[q] = i)
      BY <1>2, <1>18, <1>19, <1>20, <2>1, <2>2 DEF MarkInv, MarksRight
    <2> QED
      BY <2>2 DEF MarksRight, PageNumbers
  <1>22. TagsRight'
    <2>1. ASSUME NEW q, NEW i, Claim(q, i)', NEW z \in Contexts, NEW k \in DOMAIN loc'[z].tags,
                 loc'[z].tags[k][1] = q
          PROVE  loc'[z].tags[k][2] = i
      <3>1. CASE z = x
        <4>1. k - 1 \in 0 .. n - 1 /\ q = page + (k - 1) /\ loc'[x].tags[k][2] = Mark(k - 1)
          BY <1>16, <2>1, <3>1
        <4>2. q \in free
          BY <1>10, <1>19, <4>1
        <4>3. LargeClaim(B, q, i)
          BY <1>18, <2>1, <4>2, NewPages
        <4>4. PICK j \in 0 .. n - 1 : q = page + j /\ i = Mark(j)
          BY <1>10, <4>3
        <4>5. j = k - 1
          BY <1>3, <1>7, <4>1, <4>4
        <4> QED
          BY <3>1, <4>1, <4>4, <4>5
      <3>2. CASE z # x
        <4>1. k \in DOMAIN loc[z].tags /\ loc[z].tags[k][1] = q /\ loc'[z] = loc[z]
          BY <1>11, <2>1, <3>2
        <4>2. q \notin free
          BY <4>1, TagPage DEF MarkInv
        <4>3. Claim(q, i)
          BY <1>18, <1>19, <2>1, <4>2
        <4> QED
          BY <4>1, <4>3 DEF MarkInv, TagsRight
      <3> QED
        BY <3>1, <3>2
    <2> QED
      BY <2>1 DEF TagsRight
  <1>23. PagesFull' /\ LargesKept'
    <2>1. \A y \in Contexts \ {x} : Cutting(y) => Cutting(y)' /\ loc'[y].addr = loc[y].addr
      BY <1>11 DEF Cutting
    <2>2. \A y \in Contexts : Cutting(y) => Cutting(y)' /\ loc'[y].addr = loc[y].addr
      BY <1>12, <2>1
    <2>3. Run(page, n).size = n /\ Run(page, n).addr = page
      BY DEF Run
    <2>4. B \in Larges' /\ PageOf(B[1]) = page
      BY <1>6, <1>9, <1>15
    <2> QED
      BY <1>3, <1>8, <1>14, <1>15, <2>2, <2>3, <2>4, PagesGrow DEF MarkInv
  <1>24. TagsFit(x)'
    <2>1. \A k \in DOMAIN loc'[x].tags : LargeClaim(B, loc'[x].tags[k][1], loc'[x].tags[k][2])
      BY <1>10, <1>16
    <2>2. <<loc'[x].addr, loc'[x].size>> = B
      BY <1>4, <1>11 DEF B
    <2>3. \A k \in DOMAIN loc'[x].tags :
              LargeClaim(<<loc[x].addr, loc[x].size>>, loc[x].tags[k][1], loc[x].tags[k][2])'
      BY <2>1, <2>2 DEF LargeClaim
    <2> QED
      BY <1>12, <2>3 DEF TagsFit, IsLarge
  <1>25. TagInv'
    BY <1>8, <1>11, <1>12, <1>24, TagsFrame DEF MarkInv
  <1> QED
    BY <1>21, <1>22, <1>23, <1>25 DEF MarkInv

(* A large block goes back to the page allocator. *)
LEMMA KmfreeLargeMarks ==
    ASSUME TypeOK, Good, MarkInv, NEW x \in Contexts, NEW b \in held, kmfree_large(x, b),
           damage' = "none"
    PROVE  MarkInv'
  <1> DEFINE page == PageOf(b.addr)
             n == PageCount(b.size)
             run == Run(page, LargePages(page))
  <1>1. /\ held' = held \ {b} /\ UNCHANGED <<page_bits, freehead, pc, loc, lost>>
        /\ Heap!Free(run) /\ IsLarge(b.size)
    BY DEF kmfree_large, Broken, histvars
  <1>2. b.addr \in Nat /\ b.size \in Sizes
    BY DEF TypeOK
  <1>3. n \in Nat \ {0} /\ n # 1
    BY <1>1, <1>2, RoomFits
  <1>4. page \in Pages /\ Run(page, n) \in blocks
    BY <1>1 DEF Good, HeldFit, LargeBlock, WholePages
  <1>5. run \in blocks /\ run.addr = page /\ blocks' = blocks \ {run}
    BY <1>1 DEF Heap!Free, Run
  <1> HIDE DEF run, n, page
  <1>6. page \in Nat
    BY <1>4, SlubAssumption
  <1>7. ASSUME NEW r \in blocks, r.addr = page
        PROVE  r = Run(page, n)
    <2>1. page \in Heap!PagesOf(r)
      BY <1>6, <1>7 DEF TypeOK, Heap!PagesOf
    <2>2. page \in Heap!PagesOf(Run(page, n))
      BY <1>3, <1>6 DEF Heap!PagesOf, Run
    <2> QED
      BY <1>4, <1>7, <2>1, <2>2 DEF Good, HeapInv, Heap!Exclusive
  <1>8. blocks' = blocks \ {Run(page, n)}
    BY <1>5, <1>7
  <1>9. Smalls' = Smalls
    <2>1. HeldSmalls' = HeldSmalls
      BY <1>1 DEF HeldSmalls
    <2>2. ListSmalls' = ListSmalls /\ FreeingSmalls' = FreeingSmalls
      BY <1>1 DEF ListSmalls, FreeingSmalls
    <2> QED
      BY <2>1, <2>2 DEF Smalls
  <1>10. TaggedLarges' = TaggedLarges
    BY <1>1 DEF TaggedLarges, Tagging
  <1>11. HeldLarges' \subseteq HeldLarges /\ \A c \in HeldLarges \ HeldLarges' : c = <<b.addr, b.size>>
    BY <1>1 DEF HeldLarges
  <1>12. Larges' \subseteq Larges /\ \A c \in Larges \ Larges' : c = <<b.addr, b.size>>
    BY <1>10, <1>11 DEF Larges
  <1>13. MarksRight' /\ TagsRight'
    BY <1>1, <1>9, <1>12, MarksStay DEF MarkInv
  <1>14. TagInv'
    <2>1. ASSUME NEW y \in Contexts
          PROVE  TagsFit(y)'
      <3>1. \A p : Run(p, 1) \in blocks => Run(p, 1) \in blocks'
        BY <1>3, <1>8 DEF Run
      <3>2. TagsFit(y)
        BY DEF MarkInv, TagInv
      <3> QED
        BY <1>1, <3>1, <3>2 DEF TagsFit, Tagging, Cutting, LargeClaim
    <2>2. TagsApart'
      BY <1>1 DEF MarkInv, TagInv, TagsApart, Cutting, Tagging
    <2> QED
      BY <2>1, <2>2 DEF TagInv
  <1>15. PagesFull'
    <2>1. ASSUME NEW p, NEW s, Full(p, s)
          PROVE  Full(p, s)'
      BY <1>9, <2>1 DEF Full
    <2>2. \A y \in Contexts : Cutting(y) => Cutting(y)' /\ loc'[y].addr = loc[y].addr
      BY <1>1 DEF Cutting
    <2>3. ASSUME NEW r \in blocks', r.size = 1
          PROVE  \/ \E y \in Contexts : Cutting(y)' /\ PageOf(loc'[y].addr) = r.addr
                 \/ \E s \in Indexes : Full(r.addr, s)'
      <3>1. r \in blocks
        BY <1>8
      <3> QED
        BY <2>1, <2>2, <2>3, <3>1 DEF MarkInv, PagesFull
    <2> QED
      BY <2>3 DEF PagesFull, PageOf
  <1>16. LargesKept'
    <2>1. ASSUME NEW r \in blocks', r.size > 1
          PROVE  \E c \in Larges' : PageOf(c[1]) = r.addr
      <3>1. r \in blocks /\ r # Run(page, n)
        BY <1>8
      <3>2. PICK c \in Larges : PageOf(c[1]) = r.addr
        BY <2>1, <3>1 DEF MarkInv, LargesKept
      <3>3. c # <<b.addr, b.size>>
        BY <1>7, <3>1, <3>2 DEF page
      <3> QED
        BY <1>12, <3>2, <3>3
    <2> QED
      BY <2>1 DEF LargesKept, PageOf
  <1> QED
    BY <1>13, <1>14, <1>15, <1>16 DEF MarkInv

(* The rest of a list. *)
LEMMA RestOf ==
    ASSUME NEW S, NEW l \in Seq(S), l # << >>
    PROVE  /\ Tail(l) \in Seq(S)
           /\ \A k \in DOMAIN Tail(l) : k + 1 \in DOMAIN l /\ Tail(l)[k] = l[k + 1]
           /\ \A k \in DOMAIN l : k = 1 \/ (k - 1 \in DOMAIN Tail(l) /\ Tail(l)[k - 1] = l[k])
           /\ 1 \in DOMAIN l
  <1> DEFINE t == Tail(l)
  <1>1. Len(l) \in Nat \ {0} /\ DOMAIN l = 1 .. Len(l)
    OBVIOUS
  <1>2. t \in Seq(S) /\ Len(t) = Len(l) - 1 /\ DOMAIN t = 1 .. Len(l) - 1
    BY <1>1
  <1>3. \A i \in 1 .. Len(l) - 1 : t[i] = l[i + 1]
    BY <1>1
  <1> HIDE DEF t
  <1>4. \A i \in DOMAIN l : i = 1 \/ (i - 1 \in DOMAIN t /\ t[i - 1] = l[i])
    BY <1>1, <1>2, <1>3
  <1>5. \A i \in DOMAIN t : i + 1 \in DOMAIN l /\ t[i] = l[i + 1]
    BY <1>1, <1>2, <1>3
  <1> QED
    BY <1>1, <1>2, <1>4, <1>5 DEF t

(* A page is marked.  The other half of the byte gets what it was when it   *)
(* was read: a mark that was written since is undone, and in lost.         *)
LEMMA TagWriteMarks ==
    ASSUME TypeOK, Good, MarkInv, NEW x \in Contexts, TagWrite(x)
    PROVE  MarkInv'
  <1> DEFINE tags == loc[x].tags
             page == tags[1][1]
             mark == tags[1][2]
             rest == Tail(tags)
             done == rest = << >> /\ IsLarge(loc[x].size)
             b == [addr |-> loc[x].addr, size |-> loc[x].size]
             v == IF done THEN NoLocals ELSE [loc[x] EXCEPT !.tags = rest, !.bits = 0]
             l == IF rest # << >> THEN "tag" ELSE IF done THEN "out" ELSE "reload"
             B == <<loc[x].addr, loc[x].size>>
  <1>1. /\ pc[x] = "tagwrite" /\ Goto(x, l) /\ loc' = [loc EXCEPT ![x] = v]
        /\ page_bits' = [page_bits EXCEPT ![page] = mark, ![Buddy(page)] = loc[x].bits]
        /\ lost' = (lost \ {page}) \cup
                   (IF page_bits[Buddy(page)] # loc[x].bits THEN {Buddy(page)} ELSE {})
        /\ held' = IF done THEN held \cup {b} ELSE held
        /\ UNCHANGED <<freehead, heapvars>>
    BY DEF TagWrite, At
  <1>2. /\ loc[x] \in Locals /\ tags # << >> /\ tags \in Seq(PageNumbers \X (1 .. LARGE_IDX))
    BY <1>1 DEF TypeOK, Locals, Good, LocalsFit
  <1>3. page \in PageNumbers /\ page \in Nat
    <2>1. tags[1] \in PageNumbers \X (1 .. LARGE_IDX)
      BY <1>2
    <2> QED
      BY <2>1, SlubAssumption DEF PageNumbers
  <1>4. /\ \A k \in DOMAIN rest : k + 1 \in DOMAIN tags /\ rest[k] = tags[k + 1]
        /\ \A k \in DOMAIN tags : k = 1 \/ (k - 1 \in DOMAIN rest /\ rest[k - 1] = tags[k])
        /\ 1 \in DOMAIN tags
    BY <1>2, RestOf
  <1>5. /\ b.addr = loc[x].addr /\ b.size = loc[x].size
        /\ v.tags = rest
        /\ ~done => v.size = loc[x].size /\ v.s = loc[x].s /\ v.addr = loc[x].addr
    BY <1>2 DEF Locals, NoLocals
  <1>6. TagsFit(x)
    BY DEF MarkInv, TagInv
  <1>7. Tagging(x) /\ ~Cutting(x)
    BY <1>1 DEF Tagging, Cutting
  <1>8. ~IsLarge(loc[x].size) => rest = << >> /\ ~done
    <2> SUFFICES ASSUME ~IsLarge(loc[x].size)
                 PROVE  rest = << >>
      OBVIOUS
    <2>1. tags = <<<<PageOf(loc[x].addr), loc[x].s>>>>
      BY <1>6, <1>7 DEF TagsFit
    <2> QED
      BY <2>1
  <1>9. IsLarge(loc[x].size) => B \in TaggedLarges
    BY <1>7 DEF TaggedLarges
  <1> HIDE DEF page, mark, rest, tags, v, b
  <1>10. /\ pc'[x] = l /\ loc'[x] = v
         /\ \A y \in Contexts \ {x} : pc'[y] = pc[y] /\ loc'[y] = loc[y]
    BY <1>1, LocalStep
  <1>11. /\ page_bits'[page] = mark /\ page_bits'[Buddy(page)] = loc[x].bits
         /\ \A q \in PageNumbers \ {page, Buddy(page)} : page_bits'[q] = page_bits[q]
    <2>1. Buddy(page) # page /\ Buddy(page) \in PageNumbers
      BY <1>3, BuddyPage DEF Buddy
    <2> QED
      BY <1>1, <1>3, <2>1 DEF TypeOK
  <1>12. Tagging(x)' <=> rest # << >>
    BY <1>10 DEF Tagging
  <1>13. ~Cutting(x)' /\ pc'[x] # "link"
    BY <1>10 DEF Cutting
  <1>14. Smalls' = Smalls
    <2>1. HeldSmalls' = HeldSmalls
      BY <1>1, <1>5 DEF HeldSmalls
    <2>2. ListSmalls' = ListSmalls
      BY <1>1 DEF ListSmalls
    <2>3. FreeingSmalls' = FreeingSmalls
      BY <1>1, <1>10, <1>13, HandSmallsStep
    <2> QED
      BY <2>1, <2>2, <2>3 DEF Smalls
  <1>15. Larges' = Larges
    <2>1. CASE done
      <3>1. HeldLarges' = HeldLarges \cup {B}
        BY <1>1, <1>5, <2>1 DEF HeldLarges
      <3>2. ~Tagging(x)'
        BY <1>12, <2>1
      <3>3. TaggedLarges' \subseteq TaggedLarges /\ TaggedLarges \subseteq TaggedLarges' \cup {B}
        BY <1>7, <1>10, <2>1, <3>2, HandSmallsStep
      <3> QED
        BY <1>9, <2>1, <3>1, <3>3 DEF Larges
    <2>2. CASE ~done /\ IsLarge(loc[x].size)
      <3>1. HeldLarges' = HeldLarges
        BY <1>1, <2>2 DEF HeldLarges
      <3>2. (Tagging(x) /\ IsLarge(loc[x].size))' /\ <<loc'[x].addr, loc'[x].size>> = B
        BY <1>5, <1>10, <1>12, <2>2 DEF IsLarge
      <3>3. TaggedLarges' \subseteq TaggedLarges \cup {B} /\ TaggedLarges \subseteq TaggedLarges' \cup {B}
            /\ B \in TaggedLarges'
        BY <1>7, <1>10, <2>2, <3>2, HandSmallsStep
      <3> QED
        BY <1>9, <2>2, <3>1, <3>3 DEF Larges
    <2>3. CASE ~IsLarge(loc[x].size)
      <3>1. HeldLarges' = HeldLarges
        BY <1>1, <2>3 DEF HeldLarges
      <3>2. ~Tagging(x)'
        BY <1>8, <1>12, <2>3
      <3>3. TaggedLarges' = TaggedLarges
        BY <1>10, <2>3, <3>2, HandSmallsStep
      <3> QED
        BY <3>1, <3>3 DEF Larges
    <2> QED
      BY <2>1, <2>2, <2>3
  <1>16. ASSUME NEW q, NEW i, Claim(q, i)'
         PROVE  Claim(q, i)
    BY <1>14, <1>15, <1>16, ClaimsAfter DEF Claim, SmallClaim
  <1>17. ASSUME NEW q, q # page, Unmarked(q)
         PROVE  Unmarked(q)'
    <2>1. CASE q \in lost
      BY <1>1, <1>17, <2>1, ClaimsAfter
    <2>2. CASE \E y \in Contexts : \E k \in DOMAIN loc[y].tags : loc[y].tags[k][1] = q
      <3>1. PICK y \in Contexts : \E k \in DOMAIN loc[y].tags : loc[y].tags[k][1] = q
        BY <2>2
      <3>2. CASE y # x
        BY <1>10, <3>1, <3>2, ClaimsAfter
      <3>3. CASE y = x
        <4>1. PICK k \in DOMAIN tags : tags[k][1] = q
          BY <3>1, <3>3 DEF tags
        <4>2. k # 1
          BY <1>17, <4>1 DEF page
        <4>3. k - 1 \in DOMAIN rest /\ rest[k - 1][1] = q
          BY <1>4, <4>1, <4>2
        <4> QED
          BY <1>5, <1>10, <4>3, ClaimsAfter
      <3> QED
        BY <3>2, <3>3
    <2> QED
      BY <1>17, <2>1, <2>2 DEF Unmarked
  <1>18. MarksRight'
    <2>1. ASSUME NEW q, NEW i, Claim(q, i)'
          PROVE  q \in PageNumbers /\ (Unmarked(q)' \/ page_bits'[q] = i)
      <3>1. Claim(q, i)
        BY <1>16, <2>1
      <3>2. q \in PageNumbers /\ (Unmarked(q) \/ page_bits[q] = i)
        BY <3>1 DEF MarkInv, MarksRight
      <3>3. CASE q = page
        <4>1. mark = i
          BY <1>4, <3>1, <3>3 DEF MarkInv, TagsRight, page, mark, tags
        <4> QED
          BY <1>11, <3>2, <3>3, <4>1
      <3>4. CASE q # page /\ Unmarked(q)
        BY <1>17, <3>2, <3>4
      <3>5. CASE q # page /\ page_bits[q] = i
        <4>1. CASE q # Buddy(page)
          BY <1>11, <3>2, <3>5, <4>1
        <4>2. CASE q = Buddy(page)
          <5>1. CASE page_bits[q] # loc[x].bits
            <6>1. q \in lost'
              BY <1>1, <4>2, <5>1
            <6> QED
              BY <3>2, <6>1, ClaimsAfter
          <5>2. CASE page_bits[q] = loc[x].bits
            BY <1>11, <3>2, <3>5, <4>2, <5>2
          <5> QED
            BY <5>1, <5>2
        <4> QED
          BY <4>1, <4>2
      <3> QED
        BY <3>2, <3>3, <3>4, <3>5
    <2> QED
      BY <2>1 DEF MarksRight, PageNumbers
  <1>19. TagsRight'
    <2>1. ASSUME NEW q, NEW i, Claim(q, i)', NEW z \in Contexts, NEW k \in DOMAIN loc'[z].tags,
                 loc'[z].tags[k][1] = q
          PROVE  loc'[z].tags[k][2] = i
      <3>1. Claim(q, i)
        BY <1>16, <2>1
      <3>2. CASE z # x
        BY <1>10, <2>1, <3>1, <3>2 DEF MarkInv, TagsRight
      <3>3. CASE z = x
        <4>1. k \in DOMAIN rest /\ loc'[z].tags[k] = rest[k]
          BY <1>5, <1>10, <2>1, <3>3
        <4>2. k + 1 \in DOMAIN loc[x].tags /\ rest[k] = loc[x].tags[k + 1]
          BY <1>4, <4>1 DEF tags
        <4>3. loc[x].tags[k + 1][1] = q
          BY <2>1, <4>1, <4>2
        <4>4. loc[x].tags[k + 1][2] = i
          BY <3>1, <4>2, <4>3 DEF MarkInv, TagsRight
        <4> QED
          BY <4>1, <4>2, <4>4
      <3> QED
        BY <3>2, <3>3
    <2> QED
      BY <2>1 DEF TagsRight
  <1>20. PagesFull' /\ LargesKept'
    <2>1. \A y \in Contexts \ {x} : Cutting(y) => Cutting(y)' /\ loc'[y].addr = loc[y].addr
      BY <1>10 DEF Cutting
    <2>2. \A y \in Contexts : Cutting(y) => Cutting(y)' /\ loc'[y].addr = loc[y].addr
      BY <1>7, <2>1
    <2> QED
      BY <1>1, <1>14, <1>15, <2>2, PagesStay DEF MarkInv, heapvars
  <1>21. rest # << >> => IsLarge(loc'[x].size) /\ B = <<loc'[x].addr, loc'[x].size>>
    BY <1>5, <1>8, <1>10
  <1>22. TagsFit(x)'
    <2>1. CASE rest = << >>
      BY <1>5, <1>10, <1>12, <1>13, <2>1 DEF TagsFit
    <2>2. CASE rest # << >>
      <3>1. \A k \in DOMAIN tags : LargeClaim(B, tags[k][1], tags[k][2])
        BY <1>6, <1>7, <1>8, <2>2 DEF TagsFit, tags
      <3>2. \A k \in DOMAIN loc'[x].tags : LargeClaim(B, loc'[x].tags[k][1], loc'[x].tags[k][2])
        BY <1>4, <1>5, <1>10, <3>1
      <3>3. \A k \in DOMAIN loc'[x].tags :
                LargeClaim(<<loc[x].addr, loc[x].size>>, loc[x].tags[k][1], loc[x].tags[k][2])'
        BY <1>21, <2>2, <3>2 DEF LargeClaim
      <3> QED
        BY <1>12, <1>13, <1>21, <2>2, <3>3 DEF TagsFit, IsLarge
    <2> QED
      BY <2>1, <2>2
  <1>23. TagInv'
    BY <1>1, <1>10, <1>12, <1>13, <1>21, <1>22, TagsFrame DEF MarkInv, heapvars
  <1> QED
    BY <1>18, <1>19, <1>20, <1>23 DEF MarkInv

(* Two contexts do not cut the same page. *)
LEMMA CutApart ==
    ASSUME TypeOK, Good, NEW x \in Contexts, NEW y \in Contexts, x # y, Cutting(x), Cutting(y)
    PROVE  PageOf(loc[x].addr) # PageOf(loc[y].addr)
  <1>1. \A z \in {x, y} : ~IsLarge(loc[z].size) /\ WholePages(loc[z].addr)
    BY DEF Good, LocalsFit, Cutting
  <1>2. \A z \in {x, y} : loc[z].addr = PageOf(loc[z].addr) * PAGE_4K_SIZE
    BY <1>1 DEF WholePages
  <1>3. \A z \in {x, y} : PreparedOwner(z) \in Owners
    BY DEF Owners, HandOwners, InHand, Preparing, Cutting
  <1>4. \A z \in {x, y} : /\ PreparedOwner(z).key = z /\ PreparedOwner(z).addr = loc[z].addr
                          /\ PreparedOwner(z).room = PAGE_4K_SIZE
    BY <1>1 DEF PreparedOwner, Owner
  <1>5. Beside(PreparedOwner(x), PreparedOwner(y))
    BY <1>3, <1>4 DEF Good, Apart
  <1>6. loc[x].addr \in Nat /\ loc[y].addr \in Nat
    BY DEF TypeOK, Locals
  <1>7. loc[x].addr # loc[y].addr
    BY <1>4, <1>5, <1>6 DEF Beside, PAGE_4K_SIZE
  <1> QED
    BY <1>2, <1>7

(* The objects of a page are on it, and belong to the list it was cut for. *)
LEMMA ObjsOnPage ==
    ASSUME NEW page \in Nat, NEW s \in Indexes
    PROVE  \A o \in Objs(Objects(page, s), s) :
               PageOf(o[1]) = page /\ o[2] = s /\ \E k \in DOMAIN Objects(page, s) : o[1] = Objects(page, s)[k]
  <1> SUFFICES ASSUME NEW k \in DOMAIN Objects(page, s)
               PROVE  PageOf(Objects(page, s)[k]) = page
    BY DEF Objs
  <1>1. /\ Objects(page, s) \in Seq(Nat)
        /\ page * PAGE_4K_SIZE <= Objects(page, s)[k]
        /\ Objects(page, s)[k] + kmalloc_info[s] <= page * PAGE_4K_SIZE + PAGE_4K_SIZE
    <2>1. Objects(page, s) \in Seq(Nat)
      BY ObjectsInPage
    <2>2. k \in 1 .. Len(Objects(page, s))
      BY <2>1
    <2> QED
      BY <2>1, <2>2, ObjectsInPage
  <1>2. PICK a \in Nat : a = Objects(page, s)[k]
    BY <1>1
  <1>3. page * PAGE_4K_SIZE <= a /\ a < page * PAGE_4K_SIZE + PAGE_4K_SIZE
    BY <1>1, <1>2, InfoNat DEF PAGE_4K_SIZE
  <1> QED
    BY <1>2, <1>3, PageCover

(* The objects of a new page are put in front of the list. *)
LEMMA PushMarks ==
    ASSUME TypeOK, Good, MarkInv, NEW x \in Contexts, Push(x), damage' = "none"
    PROVE  MarkInv'
  <1>0. pc[x] = "push"
    BY DEF Push, At
  <1>3. PICK s \in Indexes : s = loc[x].s
    BY <1>0, SlabIndex DEF Good, LocalsFit
  <1>4. PICK page \in PageNumbers : page = PageOf(loc[x].addr) /\ page \in Nat
    <2>1. PageOf(loc[x].addr) \in Pages
      BY <1>0 DEF Good, LocalsFit, WholePages
    <2>2. Pages \subseteq PageNumbers /\ Pages \subseteq Nat
      BY SlubAssumption DEF PageNumbers
    <2> QED
      BY <2>1, <2>2
  <1> DEFINE L == loc[x].list
             tags == <<<<page, s>>>>
             v == [loc[x] EXCEPT !.tags = tags]
             new == Objs(Objects(page, s), s)
  <1>1. /\ pc[x] = "push" /\ Goto(x, "tag") /\ loc' = [loc EXCEPT ![x] = v]
        /\ UNCHANGED <<page_bits, heapvars, held, lost>> /\ SetList(x, s, Objects(page, s) \o L)
        /\ List(x, s) = L
    BY <1>3, <1>4 DEF Push, At, Broken, histvars
  <1>2. loc[x] \in Locals /\ L \in Seq(Nat) /\ ~IsLarge(loc[x].size)
    BY <1>1 DEF TypeOK, Locals, Good, LocalsFit
  <1>5. DOMAIN tags = {1} /\ tags[1][1] = page /\ tags[1][2] = s
    OBVIOUS
  <1>6. v.size = loc[x].size /\ v.s = loc[x].s /\ v.addr = loc[x].addr /\ v.tags = tags
    BY <1>2 DEF Locals
  <1> HIDE DEF v
  <1>7. /\ pc'[x] = "tag" /\ loc'[x] = v
        /\ \A y \in Contexts \ {x} : pc'[y] = pc[y] /\ loc'[y] = loc[y]
    BY <1>1, LocalStep
  <1>8. Cutting(x) /\ ~Tagging(x) /\ ~Cutting(x)' /\ Tagging(x)' /\ ~IsLarge(loc'[x].size)
    BY <1>1, <1>2, <1>6, <1>7 DEF Cutting, Tagging
  <1>9. TagsFit(x)
    BY DEF MarkInv, TagInv
  <1>10. loc[x].tags = << >> /\ Run(page, 1) \in blocks
    BY <1>4, <1>8, <1>9 DEF TagsFit
  <1>11. \A i : ~Claim(page, i)
    BY <1>4, <1>8, NewPages
  <1>12. TagsFit(x)'
    <2>1. Run(PageOf(loc'[x].addr), 1) \in blocks' /\ loc'[x].tags = <<<<PageOf(loc'[x].addr), loc'[x].s>>>>
      BY <1>1, <1>3, <1>4, <1>6, <1>7, <1>10 DEF heapvars
    <2> QED
      BY <1>8, <2>1 DEF TagsFit, PageOf, IsLarge
  <1>13. \A o \in new : PageOf(o[1]) = page /\ o[2] = s /\ \E k \in DOMAIN Objects(page, s) : o[1] = Objects(page, s)[k]
    BY <1>3, <1>4, ObjsOnPage
  <1>14. \A k \in DOMAIN Objects(page, s) : <<Objects(page, s)[k], s>> \in new
    BY DEF Objs
  <1>15. Smalls' = Smalls \cup new
    <2>1. Objs(Objects(page, s) \o L, s) = new \cup Objs(L, s)
      <3>1. \A f, g \in Seq(Nat) : Objs(f \o g, s) = Objs(f, s) \cup Objs(g, s)
        BY ObjsConcat
      <3>2. Objects(page, s) \in Seq(Nat)
        BY <1>3, <1>4, ObjectsInPage
      <3> QED
        BY <1>2, <3>1, <3>2
    <2>2. /\ ListSmalls' \subseteq ListSmalls \cup Objs(Objects(page, s) \o L, s)
          /\ ListSmalls \subseteq ListSmalls' \cup Objs(L, s)
          /\ Objs(Objects(page, s) \o L, s) \subseteq ListSmalls'
          /\ Objs(L, s) \subseteq ListSmalls
      BY <1>1, <1>3, ListSmallsStep
    <2>3. FreeingSmalls' = FreeingSmalls
      BY <1>1, <1>7, HandSmallsStep
    <2>4. HeldSmalls' = HeldSmalls
      BY <1>1 DEF HeldSmalls
    <2> HIDE DEF new
    <2> QED
      BY <2>1, <2>2, <2>3, <2>4 DEF Smalls
  <1> HIDE DEF new, tags
  <1>16. Larges' = Larges
    <2>1. TaggedLarges' = TaggedLarges
      <3>1. ~(Tagging(x) /\ IsLarge(loc[x].size))'
        BY <1>8 DEF IsLarge
      <3> QED
        BY <1>7, <1>8, <3>1, HandSmallsStep
    <2>2. HeldLarges' = HeldLarges
      BY <1>1 DEF HeldLarges
    <2> QED
      BY <2>1, <2>2 DEF Larges
  <1>17. ASSUME NEW o \in Smalls
         PROVE  PageOf(o[1]) # page
    BY <1>11, <1>17 DEF Claim, SmallClaim
  <1>18. ASSUME NEW q, NEW i, Claim(q, i)'
         PROVE  (Claim(q, i) /\ q # page) \/ (q = page /\ i = s)
    <2>1. CASE \E o \in Smalls' : PageOf(o[1]) = q /\ o[2] = i
      <3>1. PICK o \in Smalls' : PageOf(o[1]) = q /\ o[2] = i
        BY <2>1
      <3>2. CASE o \in Smalls
        BY <1>17, <3>1, <3>2 DEF Claim, SmallClaim
      <3>3. CASE o \in new
        BY <1>13, <3>1, <3>3
      <3> QED
        BY <1>15, <3>2, <3>3
    <2>2. CASE \E b \in Larges' : LargeClaim(b, q, i)
      <3>1. Claim(q, i)
        BY <1>16, <2>2 DEF Claim
      <3> QED
        BY <1>11, <3>1
    <2> QED
      BY <1>18, <2>1, <2>2, ClaimsAfter
  <1>19. ASSUME NEW q, Unmarked(q)
         PROVE  Unmarked(q)'
    <2>1. CASE q \in lost
      BY <1>1, <2>1, ClaimsAfter
    <2>2. CASE \E y \in Contexts : \E k \in DOMAIN loc[y].tags : loc[y].tags[k][1] = q
      <3>1. PICK y \in Contexts : \E k \in DOMAIN loc[y].tags : loc[y].tags[k][1] = q
        BY <2>2
      <3>2. y # x
        BY <1>10, <3>1
      <3> QED
        BY <1>7, <3>1, <3>2, ClaimsAfter
    <2> QED
      BY <1>19, <2>1, <2>2 DEF Unmarked
  <1>20. MarksRight'
    <2>1. Unmarked(page)'
      BY <1>5, <1>6, <1>7, ClaimsAfter
    <2>2. ASSUME NEW q, NEW i, Claim(q, i)'
          PROVE  q \in PageNumbers /\ (Unmarked(q)' \/ page_bits'[q] = i)
      <3>1. CASE Claim(q, i)
        BY <1>1, <1>19, <3>1 DEF MarkInv, MarksRight
      <3>2. CASE q = page
        BY <1>4, <2>1, <3>2
      <3> QED
        BY <1>18, <2>2, <3>1, <3>2
    <2> QED
      BY <2>2 DEF MarksRight, PageNumbers
  <1>21. TagsRight'
    <2>1. ASSUME NEW q, NEW i, Claim(q, i)', NEW z \in Contexts, NEW k \in DOMAIN loc'[z].tags,
                 loc'[z].tags[k][1] = q
          PROVE  loc'[z].tags[k][2] = i
      <3>1. CASE z = x
        <4>1. k = 1 /\ q = page /\ loc'[z].tags[k][2] = s
          BY <1>5, <1>6, <1>7, <2>1, <3>1
        <4> QED
          BY <1>18, <2>1, <4>1
      <3>2. CASE z # x
        <4>1. k \in DOMAIN loc[z].tags /\ loc[z].tags[k][1] = q /\ loc'[z] = loc[z]
          BY <1>7, <2>1, <3>2
        <4>2. q # page
          BY <1>4, <1>8, <4>1, TagPage DEF MarkInv
        <4>3. Claim(q, i)
          BY <1>18, <2>1, <4>2
        <4> QED
          BY <4>1, <4>3 DEF MarkInv, TagsRight
      <3> QED
        BY <3>1, <3>2
    <2> QED
      BY <2>1 DEF TagsRight
  <1>22. TagInv'
    <2>1. ASSUME NEW y \in Contexts \ {x}, Cutting(y)
          PROVE  PageOf(loc[y].addr) # PageOf(loc'[x].addr)
      BY <1>6, <1>7, <1>8, <2>1, CutApart
    <2> QED
      BY <1>1, <1>7, <1>8, <1>12, <2>1, TagsFrame DEF MarkInv, heapvars
  <1>23. Full(page, s)'
    <2>1. \A k \in DOMAIN Objects(page, s) : <<Objects(page, s)[k], s>> \in Smalls'
      BY <1>14, <1>15
    <2>2. \A o \in Smalls' : PageOf(o[1]) = page =>
              o[2] = s /\ \E k \in DOMAIN Objects(page, s) : o[1] = Objects(page, s)[k]
      BY <1>13, <1>15, <1>17
    <2> QED
      BY <2>1, <2>2 DEF Full
  <1>24. ASSUME NEW p, NEW t, p # page, Full(p, t)
         PROVE  Full(p, t)'
    <2>1. \A k \in DOMAIN Objects(p, t) : <<Objects(p, t)[k], t>> \in Smalls'
      BY <1>15, <1>24 DEF Full
    <2>2. \A o \in Smalls' : PageOf(o[1]) = p =>
              o[2] = t /\ \E k \in DOMAIN Objects(p, t) : o[1] = Objects(p, t)[k]
      BY <1>13, <1>15, <1>24 DEF Full
    <2> QED
      BY <2>1, <2>2 DEF Full
  <1>25. PagesFull'
    <2>1. ASSUME NEW r \in blocks', r.size = 1
          PROVE  \/ \E y \in Contexts : Cutting(y)' /\ PageOf(loc'[y].addr) = r.addr
                 \/ \E t \in Indexes : Full(r.addr, t)'
      <3>1. r \in blocks
        BY <1>1 DEF heapvars
      <3>2. CASE r.addr = page
        BY <1>23, <3>2
      <3>3. CASE r.addr # page
        <4>1. CASE \E y \in Contexts : Cutting(y) /\ PageOf(loc[y].addr) = r.addr
          <5>1. PICK y \in Contexts : Cutting(y) /\ PageOf(loc[y].addr) = r.addr
            BY <4>1
          <5>2. y # x
            BY <1>4, <3>3, <5>1
          <5>3. Cutting(y)' /\ loc'[y] = loc[y]
            BY <1>7, <5>1, <5>2 DEF Cutting
          <5> QED
            BY <5>1, <5>3
        <4>2. CASE \E t \in Indexes : Full(r.addr, t)
          BY <1>24, <3>3, <4>2
        <4> QED
          BY <2>1, <3>1, <4>1, <4>2 DEF MarkInv, PagesFull
      <3> QED
        BY <3>2, <3>3
    <2> QED
      BY <2>1 DEF PagesFull, PageOf
  <1>26. LargesKept'
    BY <1>1, <1>16 DEF MarkInv, LargesKept, heapvars
  <1> QED
    BY <1>20, <1>21, <1>22, <1>25, <1>26 DEF MarkInv

-----------------------------------------------------------------------------
(* The marks are right throughout *)

(* There is nothing to mark at first. *)
LEMMA InitMarks == Init => Marks
  <1> SUFFICES ASSUME Init PROVE MarkInv
    BY DEF Marks
  <1>1. Smalls = {}
    <2>1. HeldSmalls = {} /\ FreeingSmalls = {}
      BY DEF Init, HeldSmalls, FreeingSmalls
    <2>2. ListSmalls = {}
      BY DEF Init, ListSmalls, Objs
    <2> QED
      BY <2>1, <2>2 DEF Smalls
  <1>2. Larges = {}
    BY DEF Init, Larges, HeldLarges, TaggedLarges, Tagging
  <1>3. \A page, i : ~Claim(page, i)
    BY <1>1, <1>2 DEF Claim, SmallClaim
  <1>4. \A x \in Contexts : ~Tagging(x) /\ ~Cutting(x) /\ loc[x].tags = << >>
    BY DEF Init, Tagging, Cutting, NoLocals
  <1>5. TagInv
    BY <1>4 DEF TagInv, TagsFit, TagsApart
  <1>6. MarksRight /\ TagsRight
    BY <1>3 DEF MarksRight, TagsRight
  <1>7. PagesFull /\ LargesKept
    BY DEF Init, PagesFull, LargesKept
  <1> QED
    BY <1>5, <1>6, <1>7 DEF MarkInv

(* A step of nobody. *)
LEMMA StutterMarks ==
    ASSUME MarkInv, UNCHANGED vars
    PROVE  MarkInv'
  <1>1. /\ UNCHANGED <<page_bits, freehead, free, blocks>>
        /\ UNCHANGED <<held, pc, loc, lost, damage>>
    BY DEF vars
  <1>2. Smalls' = Smalls
    BY <1>1 DEF Smalls, ListSmalls, HeldSmalls, FreeingSmalls
  <1>3. Larges' = Larges
    BY <1>1 DEF Larges, HeldLarges, TaggedLarges, Tagging
  <1>4. MarksRight' /\ TagsRight'
    BY <1>1, <1>2, <1>3, MarksStay DEF MarkInv
  <1>5. PagesFull' /\ LargesKept'
    <2>1. \A y \in Contexts : Cutting(y) => Cutting(y)' /\ loc'[y].addr = loc[y].addr
      BY <1>1 DEF Cutting
    <2> QED
      BY <1>1, <1>2, <1>3, <2>1, PagesStay DEF MarkInv
  <1>6. \A y \in Contexts : TagsFit(y)'
    BY <1>1 DEF MarkInv, TagInv, TagsFit, Tagging, Cutting, LargeClaim
  <1>7. TagsApart'
    BY <1>1 DEF MarkInv, TagInv, TagsApart, Tagging, Cutting
  <1> QED
    BY <1>4, <1>5, <1>6, <1>7 DEF MarkInv, TagInv

(* Every step of every context keeps the marks right. *)
LEMMA NextMarks == Inv /\ Marks /\ [Next]_vars => Marks'
  <1> SUFFICES ASSUME Inv, Marks, [Next]_vars, damage' = "none" PROVE MarkInv'
    BY DEF Marks
  <1>1. CASE UNCHANGED vars
    <2>1. MarkInv
      BY <1>1 DEF Marks, vars
    <2> QED
      BY <1>1, <2>1, StutterMarks
  <1>2. ASSUME damage = "none"
        PROVE  TypeOK /\ Good /\ MarkInv
    BY <1>2 DEF Inv, Marks
  <1>3. ASSUME NEW n, NEW kind \in {"page0", "assert"}
        PROVE  ~NoMemory(n, kind)
    BY DEF NoMemory, Broken
  <1>4. ASSUME NEW x \in Contexts, Malloc(x)
        PROVE  MarkInv'
    <2>1. PICK size \in Sizes :
              kmalloc(x, size) \/ kmalloc_large(x, size) \/ kmalloc_large_fails(x, size)
      BY <1>4 DEF Malloc
    <2>2. damage = "none"
      BY <2>1 DEF kmalloc, kmalloc_large, kmalloc_large_fails, At, CanRun
    <2>3. ~kmalloc_large_fails(x, size)
      BY <1>3 DEF kmalloc_large_fails
    <2> QED
      BY <1>2, <2>1, <2>2, <2>3, KmallocMarks, KmallocLargeMarks
  <1>5. ASSUME NEW x \in Contexts, Mfree(x)
        PROVE  MarkInv'
    <2>1. PICK b \in held : kmfree(x, b) \/ kmfree_large(x, b)
      BY <1>5 DEF Mfree
    <2>2. damage = "none"
      BY <2>1 DEF kmfree, kmfree_large, At, CanRun
    <2> QED
      BY <1>2, <2>1, <2>2, KmfreeMarks, KmfreeLargeMarks
  <1>6. ASSUME NEW x \in Contexts,
               AddPage(x) \/ Chain(x) \/ Push(x) \/ TagRead(x) \/ TagWrite(x) \/ Reload(x)
                   \/ Pop(x) \/ Link(x)
        PROVE  MarkInv'
    <2>1. damage = "none"
      BY <1>6 DEF AddPage, Chain, Push, TagRead, TagWrite, Reload, Pop, Link, At, CanRun
    <2> QED
      BY <1>2, <1>6, <2>1, AddPageMarks, ChainMarks, PushMarks, TagReadMarks, TagWriteMarks,
         ReloadMarks, PopMarks, LinkMarks
  <1>7. ASSUME NEW x \in Contexts
        PROVE  ~AddPageFails(x)
    BY <1>3 DEF AddPageFails
  <1> QED
    BY <1>1, <1>4, <1>5, <1>6, <1>7 DEF Next

(* The marks are right in every state. *)
LEMMA MarksInvariant == Spec => [](Inv /\ Marks)
  <1>1. Init => Inv /\ Marks
    BY InitInv, InitMarks
  <1>2. Inv /\ Marks /\ [Next]_vars => (Inv /\ Marks)'
    BY NextInv, NextMarks
  <1> QED
    BY <1>1, <1>2, PTL DEF Spec

-----------------------------------------------------------------------------
(* The theorems about marks and pages *)

(* A size is the size of one list. *)
LEMMA InfoIndex ==
    ASSUME NEW s \in Indexes
    PROVE  (CHOOSE t \in Indexes : kmalloc_info[t] = kmalloc_info[s]) = s
  <1>1. \A t \in Indexes : kmalloc_info[t] = kmalloc_info[s] => t = s
    BY DEF Indexes, kmalloc_info
  <1> QED
    BY <1>1

(* The pieces that are objects are the objects. *)
LEMMA SmallPieces ==
    ASSUME TypeOK, Good
    PROVE  /\ \A p \in HeldPieces : ~IsLarge(p.size) => <<p.addr, SmallIndex(p)>> \in Smalls
           /\ \A p \in ListPieces \cup FreeingPieces : <<p.addr, SmallIndex(p)>> \in Smalls
           /\ \A o \in Smalls : \E p \in HeldPieces \cup ListPieces \cup FreeingPieces : p.addr = o[1]
  <1>1. ASSUME NEW p \in HeldPieces, ~IsLarge(p.size)
        PROVE  <<p.addr, SmallIndex(p)>> \in Smalls
    <2>1. PICK b \in held : p = Piece(<<"held">>, b.addr, b.size)
      BY <1>1 DEF HeldPieces
    <2>2. p.addr = b.addr /\ p.size = b.size /\ SmallIndex(p) = kmalloc_slab(b.size)
      BY <2>1 DEF Piece, SmallIndex
    <2> QED
      BY <1>1, <2>2 DEF Smalls, HeldSmalls
  <1>2. ASSUME NEW p \in ListPieces
        PROVE  <<p.addr, SmallIndex(p)>> \in Smalls
    <2>1. PICK c \in Cpus, s \in Indexes : \E i \in DOMAIN freehead[c][s] :
              p = Piece(<<"list", c, s, i>>, freehead[c][s][i], kmalloc_info[s])
      BY <1>2 DEF ListPieces
    <2>2. PICK i \in DOMAIN freehead[c][s] :
              p = Piece(<<"list", c, s, i>>, freehead[c][s][i], kmalloc_info[s])
      BY <2>1
    <2>3. p.who[1] = "list" /\ p.addr = freehead[c][s][i] /\ p.size = kmalloc_info[s]
      BY <2>2 DEF Piece
    <2>4. SmallIndex(p) = s
      BY <2>3, InfoIndex DEF SmallIndex
    <2>5. <<freehead[c][s][i], s>> \in ListSmalls
      BY DEF ListSmalls, Objs
    <2> QED
      BY <2>3, <2>4, <2>5 DEF Smalls
  <1>3. ASSUME NEW p \in FreeingPieces
        PROVE  <<p.addr, SmallIndex(p)>> \in Smalls
    <2>1. PICK x \in Contexts :
              pc[x] = "link" /\ p = Piece(<<"freeing", x>>, loc[x].addr, kmalloc_info[loc[x].s])
      BY <1>3 DEF FreeingPieces
    <2>2. p.who[1] = "freeing" /\ p.addr = loc[x].addr /\ p.size = kmalloc_info[loc[x].s]
      BY <2>1 DEF Piece
    <2>3. loc[x].s \in Indexes
      BY <2>1 DEF Good, LocalsFit
    <2>4. SmallIndex(p) = loc[x].s
      BY <2>2, <2>3, InfoIndex DEF SmallIndex
    <2> QED
      BY <2>1, <2>2, <2>4 DEF Smalls, FreeingSmalls
  <1>4. ASSUME NEW o \in ListSmalls
        PROVE  \E p \in ListPieces : p.addr = o[1]
    <2>1. PICK c \in Cpus, s \in Indexes : o \in Objs(freehead[c][s], s)
      BY <1>4 DEF ListSmalls
    <2>2. PICK i \in DOMAIN freehead[c][s] : o = <<freehead[c][s][i], s>>
      BY <2>1 DEF Objs
    <2> DEFINE p == Piece(<<"list", c, s, i>>, freehead[c][s][i], kmalloc_info[s])
    <2>3. p \in ListPieces
      <3> DEFINE P(d, t) == {Piece(<<"list", d, t, j>>, freehead[d][t][j], kmalloc_info[t]) :
                                 j \in DOMAIN freehead[d][t]}
      <3>1. p \in P(c, s)
        OBVIOUS
      <3>2. ListPieces = UNION {P(d, t) : d \in Cpus, t \in Indexes}
        BY DEF ListPieces
      <3> HIDE DEF P, p
      <3> QED
        BY <3>1, <3>2
    <2>4. p.addr = o[1]
      BY <2>2 DEF Piece
    <2> QED
      BY <2>3, <2>4
  <1>5. ASSUME NEW o \in HeldSmalls
        PROVE  \E p \in HeldPieces : p.addr = o[1]
    <2>1. PICK b \in held : o = <<b.addr, kmalloc_slab(b.size)>>
      BY <1>5 DEF HeldSmalls
    <2>2. Piece(<<"held">>, b.addr, b.size) \in HeldPieces
      BY DEF HeldPieces
    <2>3. Piece(<<"held">>, b.addr, b.size).addr = o[1]
      BY <2>1 DEF Piece
    <2> QED
      BY <2>2, <2>3
  <1>6. ASSUME NEW o \in FreeingSmalls
        PROVE  \E p \in FreeingPieces : p.addr = o[1]
    <2>1. PICK x \in Contexts : pc[x] = "link" /\ o = <<loc[x].addr, loc[x].s>>
      BY <1>6 DEF FreeingSmalls
    <2> DEFINE p == Piece(<<"freeing", x>>, loc[x].addr, kmalloc_info[loc[x].s])
    <2>2. p \in FreeingPieces
      BY <2>1 DEF FreeingPieces
    <2>3. p.addr = o[1]
      BY <2>1 DEF Piece
    <2> QED
      BY <2>2, <2>3
  <1>7. \A o \in Smalls : \E p \in HeldPieces \cup ListPieces \cup FreeingPieces : p.addr = o[1]
    BY <1>4, <1>5, <1>6 DEF Smalls
  <1> QED
    BY <1>1, <1>2, <1>3, <1>7

(* What free goes by is right (IndexRight), for every set of CPUs, of pages *)
(* and of sizes and with softirqs that allocate: unless the mark of a page  *)
(* was undone by the write of the other half of its byte or is still to     *)
(* come, free finds the list of an object, on whichever CPU it is freed,    *)
(* and all pages of a large block.                                         *)
THEOREM IndexesTellTheTruth == Spec => []IndexRight
  <1>1. Inv /\ Marks => IndexRight
    <2> SUFFICES ASSUME Inv, Marks, damage = "none"
                 PROVE  IndexRight
      BY DEF IndexRight
    <2>1. TypeOK /\ Good /\ MarksRight
      BY DEF Inv, Marks, MarkInv
    <2>2. ASSUME NEW o \in Smalls
          PROVE  Unmarked(PageOf(o[1])) \/ page_bits[PageOf(o[1])] = o[2]
      BY <2>1, <2>2 DEF MarksRight, Claim, SmallClaim
    <2>3. ASSUME NEW p \in ListPieces \cup FreeingPieces \cup {h \in HeldPieces : ~IsLarge(h.size)}
          PROVE  Unmarked(PageOf(p.addr)) \/ page_bits[PageOf(p.addr)] = SmallIndex(p)
      <3>1. PICK o \in Smalls : o = <<p.addr, SmallIndex(p)>>
        BY <2>1, <2>3, SmallPieces
      <3>2. o[1] = p.addr /\ o[2] = SmallIndex(p)
        BY <3>1
      <3> QED
        BY <2>2, <3>2
    <2>4. ASSUME NEW p \in HeldPieces, IsLarge(p.size), NEW k \in 0 .. PageCount(p.size) - 1
          PROVE  \/ Unmarked(PageOf(p.addr) + k)
                 \/ page_bits[PageOf(p.addr) + k] = (IF k = 0 THEN LARGE_IDX ELSE LARGE_NEXT)
      <3>1. PICK b \in held : p = Piece(<<"held">>, b.addr, b.size)
        BY DEF HeldPieces
      <3>2. p.addr = b.addr /\ p.size = b.size
        BY <3>1 DEF Piece
      <3>3. <<p.addr, p.size>> \in Larges
        BY <2>4, <3>2 DEF Larges, HeldLarges
      <3>4. LargeClaim(<<p.addr, p.size>>, PageOf(p.addr) + k, Mark(k))
        BY <2>4 DEF LargeClaim
      <3>5. Claim(PageOf(p.addr) + k, Mark(k))
        BY <3>3, <3>4 DEF Claim
      <3> QED
        BY <2>1, <3>5 DEF MarksRight, Mark
    <2> QED
      BY <2>3, <2>4 DEF IndexRight
  <1> QED
    BY <1>1, MarksInvariant, PTL

(* Pieces are at different addresses. *)
LEMMA PieceAddresses ==
    ASSUME TypeOK, Good, NEW p \in Pieces, NEW q \in Pieces, p.addr = q.addr
    PROVE  p = q
  <1>1. PICK o \in Owners : p = PieceOf(o) /\ p.addr = o.addr
    BY PiecesOwned
  <1>2. PICK r \in Owners : q = PieceOf(r) /\ q.addr = r.addr
    BY PiecesOwned
  <1>3. /\ o.addr \in Nat /\ o.room \in Nat \ {0}
        /\ r.addr \in Nat /\ r.room \in Nat \ {0}
    BY OwnersSane DEF Good, Sane
  <1>4. ~Beside(o, r)
    BY <1>1, <1>2, <1>3 DEF Beside
  <1>5. o = r
    BY <1>4 DEF Good, Apart
  <1> QED
    BY <1>1, <1>2, <1>5

(* A page of objects has as many pieces as it was cut into: one for each    *)
(* address.                                                                *)
LEMMA PieceCount ==
    ASSUME NEW here, NEW n \in Nat, NEW a,
           \A k \in 1 .. n : \E p \in here : p.addr = a[k],
           \A p \in here : \E k \in 1 .. n : p.addr = a[k],
           \A p, q \in here : p.addr = q.addr => p = q,
           \A j, k \in 1 .. n : a[j] = a[k] => j = k
    PROVE  Cardinality(here) = n
  <1> DEFINE g == [k \in 1 .. n |-> CHOOSE p \in here : p.addr = a[k]]
  <1>1. \A k \in 1 .. n : g[k] \in here /\ g[k].addr = a[k]
    OBVIOUS
  <1>2. g \in [1 .. n -> here]
    BY <1>1
  <1> HIDE DEF g
  <1>3. \A j, k \in 1 .. n : g[j] = g[k] => j = k
    BY <1>1
  <1>4. \A p \in here : \E k \in 1 .. n : g[k] = p
    BY <1>1
  <1>5. g \in Bijection(1 .. n, here)
    BY <1>2, <1>3, <1>4 DEF Bijection, Injection, IsInjective, Surjection
  <1>6. ExistsBijection(1 .. n, here)
    BY <1>5 DEF ExistsBijection
  <1> QED
    BY <1>6, FS_CountingElements

(* No memory is forgotten (NothingLeaks), for every set of CPUs, of pages   *)
(* and of sizes: as long as the code has not gone wrong, a page that was    *)
(* cut into objects has all of them with callers or on lists, or still to   *)
(* be put there, and a large block has a caller or will have one.          *)
THEOREM NoMemoryForgotten == Spec => []NothingLeaks
  <1> DEFINE prepared == {PageOf(p.addr) : p \in PreparedPieces}
             owned == HeldPieces \cup ListPieces \cup FreeingPieces
             Here(b) == {p \in owned : PageOf(p.addr) = b.addr}
  <1>1. ASSUME Inv, Marks, damage = "none", NEW b \in blocks
        PROVE  \/ b.addr \in prepared
               \/ b.size > 1 /\ Here(b) # {}
               \/ /\ b.size = 1
                  /\ \E s \in Indexes :
                         /\ Cardinality(Here(b)) = PAGE_4K_SIZE \div kmalloc_info[s]
                         /\ \A p \in Here(b) : SmallIndex(p) = s
    <2>1. TypeOK /\ Good /\ PagesFull /\ LargesKept
      BY <1>1 DEF Inv, Marks, MarkInv
    <2>2. b.size \in 1 .. MaxPage /\ b.addr \in Pages /\ b = Run(b.addr, b.size)
      BY <2>1 DEF TypeOK, Run
    <2>3. b.size \in Nat /\ b.addr \in Nat
      <3>1. Pages \subseteq Nat /\ 1 .. MaxPage \subseteq Nat
        BY SlubAssumption
      <3> QED
        BY <2>2, <3>1
    <2>4. ASSUME NEW x \in Contexts, Preparing(x), PageOf(loc[x].addr) = b.addr
          PROVE  b.addr \in prepared
      <3> DEFINE w == Piece(<<"malloc", x>>, loc[x].addr,
                            IF IsLarge(loc[x].size) THEN loc[x].size ELSE PAGE_4K_SIZE)
      <3>1. w \in PreparedPieces
        BY <2>4 DEF PreparedPieces
      <3>2. w.addr = loc[x].addr
        BY DEF Piece
      <3> HIDE DEF w
      <3> QED
        BY <2>4, <3>1, <3>2
    <2>5. CASE b.size > 1
      <3>1. PICK c \in Larges : PageOf(c[1]) = b.addr
        BY <2>1, <2>5 DEF LargesKept
      <3>2. CASE c \in HeldLarges
        <4>1. PICK h \in held : c = <<h.addr, h.size>>
          BY <3>2 DEF HeldLarges
        <4>2. Piece(<<"held">>, h.addr, h.size) \in HeldPieces
          BY DEF HeldPieces
        <4>3. Piece(<<"held">>, h.addr, h.size).addr = c[1]
          BY <4>1 DEF Piece
        <4>4. Piece(<<"held">>, h.addr, h.size) \in Here(b)
          BY <3>1, <4>2, <4>3
        <4> QED
          BY <2>5, <4>4
      <3>3. CASE c \in TaggedLarges
        <4>1. PICK x \in Contexts :
                  Tagging(x) /\ IsLarge(loc[x].size) /\ c = <<loc[x].addr, loc[x].size>>
          BY <3>3 DEF TaggedLarges
        <4>2. Preparing(x)
          BY <4>1 DEF Preparing, Tagging
        <4> QED
          BY <2>4, <3>1, <4>1, <4>2
      <3> QED
        BY <3>2, <3>3 DEF Larges
    <2>6. ASSUME NEW x \in Contexts, Cutting(x), PageOf(loc[x].addr) = b.addr
          PROVE  b.addr \in prepared
      BY <2>4, <2>6 DEF Cutting, Preparing
    <2>7. ASSUME b.size = 1, NEW s \in Indexes, Full(b.addr, s)
          PROVE  /\ Cardinality(Here(b)) = PAGE_4K_SIZE \div kmalloc_info[s]
                 /\ \A p \in Here(b) : SmallIndex(p) = s
      <3> DEFINE a == Objects(b.addr, s)
                 n == PAGE_4K_SIZE \div kmalloc_info[s]
      <3>1. /\ a \in Seq(Nat) /\ Len(a) = n /\ n \in Nat
            /\ \A j, k \in 1 .. n : j < k => a[j] + kmalloc_info[s] <= a[k]
        BY <2>3, <2>7, ObjectsInPage
      <3>2. kmalloc_info[s] \in Nat \ {0}
        BY InfoNat
      <3>3. DOMAIN a = 1 .. n
        BY <3>1
      <3>4. ASSUME NEW p \in HeldPieces, IsLarge(p.size)
            PROVE  PageOf(p.addr) # b.addr
        <4> SUFFICES ASSUME PageOf(p.addr) = b.addr PROVE FALSE
          OBVIOUS
        <4>1. PICK h \in held : p = Piece(<<"held">>, h.addr, h.size)
          BY DEF HeldPieces
        <4>2. p.addr = h.addr /\ p.size = h.size /\ h.size \in Sizes
          BY <2>1, <4>1 DEF Piece, TypeOK
        <4>3. Run(b.addr, PageCount(h.size)) \in blocks
          BY <2>1, <3>4, <4>2 DEF Good, HeldFit, LargeBlock
        <4>4. PageCount(h.size) \in Nat /\ PageCount(h.size) > 1
          BY <3>4, <4>2, RoomFits
        <4>5. Run(b.addr, PageCount(h.size)) # b
          BY <2>7, <4>4 DEF Run
        <4>6. b.addr \in Heap!PagesOf(b) /\ b.addr \in Heap!PagesOf(Run(b.addr, PageCount(h.size)))
          BY <2>3, <2>7, <4>4 DEF Heap!PagesOf, Run
        <4> QED
          BY <2>1, <4>3, <4>5, <4>6 DEF Good, HeapInv, Heap!Exclusive
      <3>5. ASSUME NEW p \in Here(b)
            PROVE  SmallIndex(p) = s /\ \E k \in 1 .. n : p.addr = a[k]
        <4>1. PICK o \in Smalls : o = <<p.addr, SmallIndex(p)>>
          BY <2>1, <3>4, <3>5, SmallPieces
        <4>2. o[1] = p.addr /\ o[2] = SmallIndex(p) /\ PageOf(o[1]) = b.addr
          BY <3>5, <4>1
        <4> QED
          BY <2>7, <3>3, <4>2 DEF Full
      <3>6. ASSUME NEW k \in 1 .. n
            PROVE  \E p \in Here(b) : p.addr = a[k]
        <4>1. PICK o \in Smalls : o = <<a[k], s>>
          BY <2>7, <3>3 DEF Full
        <4>2. o[1] = a[k] /\ o \in Objs(a, s)
          BY <3>3, <4>1 DEF Objs
        <4>3. PageOf(o[1]) = b.addr
          BY <2>3, <4>2, ObjsOnPage
        <4>4. PICK p \in owned : p.addr = o[1]
          BY <2>1, SmallPieces
        <4> QED
          BY <4>2, <4>3, <4>4
      <3>7. \A p, q \in Here(b) : p.addr = q.addr => p = q
        BY <2>1, PieceAddresses DEF Pieces
      <3>8. \A j, k \in 1 .. n : a[j] = a[k] => j = k
        <4>1. \A j \in 1 .. n : a[j] \in Nat
          BY <3>1
        <4> QED
          BY <3>1, <3>2, <4>1
      <3> HIDE DEF a, n, Here, owned
      <3>9. Cardinality(Here(b)) = n
        <4>1. PICK m \in Nat : m = n
          BY <3>1
        <4>2. PICK H, f : H = Here(b) /\ f = a
          OBVIOUS
        <4>3. \A k \in 1 .. m : \E p \in H : p.addr = f[k]
          BY <3>6, <4>1, <4>2
        <4>4. \A p \in H : \E k \in 1 .. m : p.addr = f[k]
          BY <3>5, <4>1, <4>2
        <4>5. \A p, q \in H : p.addr = q.addr => p = q
          BY <3>7, <4>2
        <4>6. \A j, k \in 1 .. m : f[j] = f[k] => j = k
          BY <3>8, <4>1, <4>2
        <4>7. Cardinality(H) = m
          BY <4>3, <4>4, <4>5, <4>6, PieceCount
        <4> QED
          BY <4>1, <4>2, <4>7
      <3> QED
        BY <3>5, <3>9 DEF n
    <2>8. CASE b.size = 1
      BY <2>1, <2>6, <2>7, <2>8 DEF PagesFull
    <2> QED
      BY <2>3, <2>2, <2>5, <2>8
  <1>2. Inv /\ Marks => NothingLeaks
    BY <1>1 DEF NothingLeaks
  <1> QED
    BY <1>2, MarksInvariant, PTL
=============================================================================
