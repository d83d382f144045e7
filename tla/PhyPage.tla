------------------------------ MODULE PhyPage ------------------------------
(***************************************************************************)
(* The allocator of 4 KB pages, kernel/phy_page.c, that page tables, rings  *)
(* and slabs get their memory from: a list of holes, sorted by address, out *)
(* of a fixed set of nodes.  It is shared by all CPUs.  What a CPU does     *)
(* while it holds spin_page is one step.                                   *)
(*                                                                         *)
(* Two things can go wrong because the lock is not held all the time; the   *)
(* model names them in damage and ends there, since a list in use twice or  *)
(* a hole of nearly 2^64 bytes has no further meaning.  It also ends when a *)
(* page is handed out twice, which takes memory that boot has freed twice.  *)
(*                                                                         *)
(* Addresses and sizes are in pages.                                       *)
(***************************************************************************)
EXTENDS Integers, FiniteSets, SequencesExt

CONSTANTS
    Cpus,
    Nodes,       \* phy_page_holes, numbered from 1
    Large,       \* PAGE_SIZE_LARGE in pages: 512
    MemoryMaps,  \* what the memory outside the reserved areas may be: sequences
                 \* of [addr, size]
    MaxAddr,     \* __max_phy_mem_addr
    Sizes,       \* the sizes asked for
    Word         \* the range of an unsigned long

ASSUME NodeAssumption ==
    /\ IsFiniteSet(Nodes) /\ Nodes # {} /\ Nodes = 1 .. Cardinality(Nodes)
    /\ Large \in Nat \ {0}

(* No caller asks for more than a large page. *)
ASSUME SizeAssumption ==
    /\ \A map \in MemoryMaps : map \in Seq([addr : Nat, size : Nat \ {0}])
    /\ Sizes \subseteq 1 .. Large
    /\ MaxAddr \in Nat /\ Word \in Nat /\ MaxAddr < Word

NULL == 0

VARIABLES
    addr, size, pnext,  \* the fields of a node
    pfreesmall,         \* the nodes not in use
    pheadsmall,         \* the holes
    pgbits,             \* the large pages that are free
    boot,               \* the pieces of memory that on_mem has still to free
    blocks,             \* the blocks handed out
    pc,                 \* where each CPU is
    want,               \* the size alloc_phy_page_small is called with
    give,               \* the block free_phy_page_small is called with
    p,                  \* its p, read before it has the lock
    doubled,            \* history: boot freed a page that was free already
    damage              \* what went wrong, or "no": "node", a node that is no longer
                        \* the first free one was used; "short", more than a hole has
                        \* was taken from it; "shared", a page got a second owner

listvars == <<addr, size, pnext, pfreesmall, pheadsmall>>
vars == <<listvars, pgbits, boot, blocks, pc, want, give, p, doubled, damage>>

NoBlock == [addr |-> 0, size |-> 0]

Goto(c, l) == pc' = [pc EXCEPT ![c] = l]

(* The k-th node of the list that starts at h. *)
Walk(h, k) ==
    LET f[i \in 0 .. k] == IF i = 0 THEN h ELSE IF f[i - 1] = NULL THEN NULL ELSE pnext[f[i - 1]]
    IN  f[k]

Places == 0 .. Cardinality(Nodes) - 1

OnList(h) == {Walk(h, k) : k \in Places} \ {NULL}

(* The first hole that satisfies P, or NULL. *)
FirstHole(P(_)) ==
    LET found == {k \in Places : Walk(pheadsmall, k) # NULL /\ P(Walk(pheadsmall, k))}
    IN  IF found = {} THEN NULL ELSE Walk(pheadsmall, Min(found))

-----------------------------------------------------------------------------
(* Boot: what on_mem makes of a region.  A piece is freed to the bitmap if  *)
(* it is made of whole large pages, else to the list of holes, but not if   *)
(* it reaches the end of memory.                                           *)

SmallPiece(a, s) ==
    IF s > 0 /\ a + s < MaxAddr THEN <<[addr |-> a, size |-> s, large |-> FALSE]>> ELSE <<>>

(* A region that begins on the boundary of a large page. *)
Aligned(a, s) ==
    LET whole == s - (s % Large)
    IN  (IF whole > 0 THEN <<[addr |-> a, size |-> whole, large |-> TRUE]>> ELSE <<>>)
        \o SmallPiece(a + whole, s % Large)

(* What is before the first boundary is freed with the size of what is      *)
(* after it.                                                               *)
on_mem(r) ==
    LET lowsize == Large - (r.addr % Large)
    IN  IF r.size < Large THEN SmallPiece(r.addr, r.size)
        ELSE IF r.addr % Large = 0 THEN Aligned(r.addr, r.size)
        ELSE SmallPiece(r.addr, r.size - lowsize)
             \o Aligned(r.addr + lowsize, r.size - lowsize)

(* The pieces of all regions, in the order in which they are freed. *)
AllPieces(map) == FlattenSeq([i \in DOMAIN map |-> on_mem(map[i])])

(* The large pages of a piece, without the first one of memory. *)
LargeIn(a, s) == IF a = 0 THEN {} ELSE a \div Large .. (a + s) \div Large - 1

PagesIn(b) == b.addr .. b.addr + b.size - 1

(* The pages of holes and of free large pages. *)
Listed ==
    UNION ({pg * Large .. (pg + 1) * Large - 1 : pg \in pgbits}
           \cup {addr[n] .. addr[n] + size[n] - 1 : n \in OnList(pheadsmall)})

(* The next piece of init_e820.  No other CPU has been started yet. *)
init_e820(c) ==
    /\ boot # <<>> /\ \A d \in Cpus : pc[d] = "idle"
    /\ IF Head(boot).large
       THEN /\ pgbits' = pgbits \cup LargeIn(Head(boot).addr, Head(boot).size)
            /\ boot' = Tail(boot) /\ UNCHANGED <<pc, give>>
       ELSE /\ give' = [give EXCEPT ![c] = [addr |-> Head(boot).addr, size |-> Head(boot).size]]
            /\ Goto(c, "free") /\ UNCHANGED <<pgbits, boot>>
    /\ doubled' = (doubled \/ PagesIn(Head(boot)) \cap Listed # {})
    /\ UNCHANGED <<listvars, blocks, want, p, damage>>

-----------------------------------------------------------------------------
(* alloc_phy_page_small *)

(* Mutant: the node of a hole that is used up stays on the list. *)
Unlink_kept(n) == pfreesmall' = n /\ pnext' = [pnext EXCEPT ![n] = pfreesmall] /\ UNCHANGED pheadsmall

(* The node n, whose hole is used up, goes back to the free nodes. *)
Unlink(n) ==
    LET prev == FirstHole(LAMBDA q : pnext[q] = n)
    IN  /\ pheadsmall' = IF pheadsmall = n THEN pnext[n] ELSE pheadsmall
        /\ pnext' = [q \in Nodes |-> IF q = n THEN pfreesmall
                                     ELSE IF q = prev /\ pheadsmall # n THEN pnext[n]
                                     ELSE pnext[q]]
        /\ pfreesmall' = n

(* The beginning of the hole n has an owner. *)
Owned(n, s) == \E b \in blocks : PagesIn(b) \cap (addr[n] .. addr[n] + s - 1) # {}

(* The beginning of the hole n is handed out. *)
Take(n, s) ==
    /\ size' = [size EXCEPT ![n] = (@ - s) % Word]
    /\ addr' = [addr EXCEPT ![n] = @ + s]
    /\ blocks' = blocks \cup {[addr |-> addr[n], size |-> s]}
    /\ IF size[n] = s THEN Unlink(n) ELSE UNCHANGED <<pnext, pfreesmall, pheadsmall>>

(* Mutant: a hole that is one page short will do. *)
Fits_short(n, s) == size[n] + 1 >= s

Fits(n, s) == size[n] >= s

alloc_phy_page_small(c, s) ==
    LET n == FirstHole(LAMBDA q : Fits(q, s))
    IN  /\ boot = <<>> /\ pc[c] = "idle"
        /\ IF n # NULL
           THEN /\ Take(n, s) /\ UNCHANGED <<pc, want>>
                /\ damage' = IF Owned(n, s) THEN "shared" ELSE damage
           ELSE /\ Goto(c, "grow") /\ want' = [want EXCEPT ![c] = s]
                /\ UNCHANGED <<listvars, blocks, damage>>
        /\ UNCHANGED <<pgbits, boot, give, p, doubled>>

(* Without the lock: a large page is taken from the bitmap and freed into   *)
(* the list.  If there is none the allocation fails.                       *)
alloc_phy_page(c) ==
    /\ pc[c] = "grow"
    /\ IF pgbits = {}
       THEN /\ Goto(c, "idle") /\ want' = [want EXCEPT ![c] = 0]
            /\ UNCHANGED <<pgbits, give>>
       ELSE \E pg \in pgbits :
            /\ pgbits' = pgbits \ {pg}
            /\ give' = [give EXCEPT ![c] = [addr |-> pg * Large, size |-> Large]]
            /\ Goto(c, "free") /\ UNCHANGED want
    /\ UNCHANGED <<listvars, boot, blocks, p, doubled, damage>>

(* The search is repeated; this time it stops at the last hole as well,     *)
(* whatever its size.                                                      *)
AllocAgain(c) ==
    LET n == FirstHole(LAMBDA q : pnext[q] = NULL \/ Fits(q, want[c]))
    IN  /\ pc[c] = "again"
        /\ IF n # NULL
           THEN /\ Take(n, want[c]) /\ Goto(c, "idle") /\ want' = [want EXCEPT ![c] = 0]
                /\ damage' = IF ~Fits(n, want[c]) THEN "short"
                             ELSE IF Owned(n, want[c]) THEN "shared" ELSE damage
           ELSE Goto(c, "grow") /\ UNCHANGED <<listvars, blocks, want, damage>>
        /\ UNCHANGED <<pgbits, boot, give, p, doubled>>

-----------------------------------------------------------------------------
(* free_phy_page_small *)

(* A block is given back. *)
heap_free_4k(c, b) ==
    /\ boot = <<>> /\ pc[c] = "idle"
    /\ blocks' = blocks \ {b}
    /\ give' = [give EXCEPT ![c] = b]
    /\ Goto(c, "free")
    /\ UNCHANGED <<listvars, pgbits, boot, want, p, doubled, damage>>

(* The node is chosen before the lock is taken; without one the kernel      *)
(* panics, even if the block could join a hole.                            *)
FreeBegin(c) ==
    /\ pc[c] = "free"
    /\ p' = [p EXCEPT ![c] = pfreesmall]
    /\ Goto(c, IF pfreesmall = NULL THEN "panic" ELSE "insert")
    /\ UNCHANGED <<listvars, pgbits, boot, blocks, want, give, doubled, damage>>

(* Mutant: a hole is taken to reach one page further than it does. *)
EndsAt_near(n, a) == addr[n] + size[n] \in {a - 1, a}

EndsAt(n, a) == addr[n] + size[n] = a

(* Mutant: the node goes behind the first hole. *)
Insert_first(n, a) ==
    IF pheadsmall = NULL \/ addr'[pheadsmall] > a
    THEN pnext' = [pnext EXCEPT ![n] = pheadsmall] /\ pheadsmall' = n
    ELSE /\ pnext' = [[pnext EXCEPT ![n] = pnext[pheadsmall]] EXCEPT ![pheadsmall] = n]
         /\ UNCHANGED pheadsmall

(* The node n, with the address a, goes to its place on the list. *)
Insert(n, a) ==
    LET ph == FirstHole(LAMBDA q : pnext[q] = NULL \/ addr'[pnext[q]] >= a)
    IN  IF pheadsmall = NULL \/ addr'[pheadsmall] > a
        THEN pnext' = [pnext EXCEPT ![n] = pheadsmall] /\ pheadsmall' = n
        ELSE /\ pnext' = [[pnext EXCEPT ![n] = pnext[ph]] EXCEPT ![ph] = n]
             /\ UNCHANGED pheadsmall

(* The block joins the first hole that ends where it begins, else it is a   *)
(* hole of its own, for which the node chosen before is taken: by then      *)
(* another CPU, or a softirq, may have used or freed one.  If it was the    *)
(* last, the next one is read through a null pointer.                      *)
FreeInsert(c) ==
    LET b    == give[c]
        hole == FirstHole(LAMBDA q : EndsAt(q, b.addr))
    IN  /\ pc[c] = "insert"
        /\ IF hole # NULL
           THEN /\ size' = [size EXCEPT ![hole] = @ + b.size]
                /\ UNCHANGED <<addr, pnext, pfreesmall, pheadsmall, damage>>
           ELSE /\ pfreesmall' \in IF pfreesmall = NULL THEN Nodes \cup {NULL}
                                   ELSE {pnext[pfreesmall]}
                /\ damage' = IF p[c] = pfreesmall THEN damage ELSE "node"
                /\ addr' = [addr EXCEPT ![p[c]] = b.addr]
                /\ size' = [size EXCEPT ![p[c]] = b.size]
                /\ Insert(p[c], b.addr)
        /\ give' = [give EXCEPT ![c] = NoBlock]
        /\ p' = [p EXCEPT ![c] = NULL]
        /\ Goto(c, IF want[c] = 0 THEN "idle" ELSE "again")
        /\ boot' = IF boot = <<>> THEN boot ELSE Tail(boot)
        /\ UNCHANGED <<pgbits, blocks, want, doubled>>

-----------------------------------------------------------------------------
(* init_phy_page *)
Init ==
    /\ addr = [n \in Nodes |-> 0] /\ size = [n \in Nodes |-> 0]
    /\ pnext = [n \in Nodes |-> IF n + 1 \in Nodes THEN n + 1 ELSE NULL]
    /\ pfreesmall = 1 /\ pheadsmall = NULL
    /\ pgbits = {}
    /\ \E map \in MemoryMaps : boot = AllPieces(map)
    /\ blocks = {}
    /\ pc = [c \in Cpus |-> "idle"]
    /\ want = [c \in Cpus |-> 0]
    /\ give = [c \in Cpus |-> NoBlock]
    /\ p = [c \in Cpus |-> NULL]
    /\ doubled = FALSE /\ damage = "no"

CpuStep(c) ==
    \/ init_e820(c)
    \/ \E s \in Sizes : alloc_phy_page_small(c, s)
    \/ alloc_phy_page(c) \/ AllocAgain(c)
    \/ \E b \in blocks : heap_free_4k(c, b)
    \/ FreeBegin(c) \/ FreeInsert(c)

Next ==
    /\ damage = "no" /\ \A c \in Cpus : pc[c] # "panic"
    /\ \E c \in Cpus : CpuStep(c)

Spec == Init /\ [][Next]_vars

-----------------------------------------------------------------------------
(* Properties *)

(* Types.  No hole is larger than memory: but for the second search that    *)
(* took a page another CPU had left too small, a size never goes below zero. *)
TypeOK ==
    /\ addr \in [Nodes -> 0 .. MaxAddr]
    /\ size \in [Nodes -> 0 .. MaxAddr] \/ damage = "short"
    /\ pnext \in [Nodes -> Nodes \cup {NULL}]
    /\ {pfreesmall, pheadsmall} \subseteq Nodes \cup {NULL}
    /\ pgbits \subseteq 1 .. MaxAddr
    /\ blocks \subseteq [addr : 0 .. MaxAddr, size : Sizes]
    /\ pc \in [Cpus -> {"idle", "grow", "again", "free", "insert", "panic"}]
    /\ want \in [Cpus -> Sizes \cup {0}]
    /\ give \in [Cpus -> [addr : 0 .. MaxAddr, size : 0 .. MaxAddr]]
    /\ p \in [Cpus -> Nodes \cup {NULL}]
    /\ doubled \in BOOLEAN /\ damage \in {"no", "node", "short", "shared"}

(* No node is lost or used twice, whatever several CPUs free and use up     *)
(* and whatever boot has freed twice: the list of holes and the list of     *)
(* free nodes end, and each node is on one.  Only the use of a node read    *)
(* before the lock and no longer free ends this.                           *)
NodesConserved ==
    damage # "node" =>
        /\ Walk(pfreesmall, Cardinality(Nodes)) = NULL
        /\ Walk(pheadsmall, Cardinality(Nodes)) = NULL
        /\ OnList(pfreesmall) \cup OnList(pheadsmall) = Nodes
        /\ OnList(pfreesmall) \cap OnList(pheadsmall) = {}

(* The comment in free_phy_page_small: the holes are sorted by address,     *)
(* which makes first fit prefer low memory.  It holds on any number of      *)
(* CPUs until a node is used that is no longer free, unless boot has freed  *)
(* memory twice: of two holes over the same pages one may be used up to     *)
(* behind the beginning of the other.                                      *)
Sorted ==
    damage # "node" /\ ~doubled =>
        \A n \in OnList(pheadsmall) : pnext[n] # NULL => addr[n] < addr[pnext[n]]

(* The pages nobody has: holes and free large pages, and what is on its     *)
(* way to becoming one.                                                    *)
FreePages ==
    Listed \cup UNION ({PagesIn(give[c]) : c \in Cpus} \cup {PagesIn(boot[i]) : i \in DOMAIN boot})

PageSet == INSTANCE PageSet WITH
    Pages <- 0 .. MaxAddr,
    Block <- [addr : 0 .. MaxAddr, size : Sizes],
    free <- FreePages

(* Every step is one of PageSet: a block is made of pages nobody had, and   *)
(* no page is lost or invented, whatever is split, joined and moved from    *)
(* the bitmap to the list by several CPUs at once.  The exceptions are the  *)
(* two steps of damage, and memory of which boot has freed a part twice.    *)
Implements == [][PageSet!Next \/ doubled' \/ damage' \in {"node", "short"}]_<<FreePages, blocks>>
=============================================================================
