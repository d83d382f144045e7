-------------------------------- MODULE Slub --------------------------------
(***************************************************************************)
(* malloc and free, module/mm/slub.c.  Every CPU has a list of free objects *)
(* per size; a list that is empty gets a page from the page allocator,      *)
(* which is shared, and a block above 4096 bytes is pages.  page_bits,      *)
(* shared too, holds four bits for each page, two pages to a byte: the      *)
(* index of the list its objects belong to, or that it begins or continues  *)
(* a large block.  free knows a block by its address and these bits only.   *)
(*                                                                         *)
(* Nothing is locked and interrupts are on: the accesses to a list or to a  *)
(* byte of page_bits are separate steps.  A softirq that allocates (a timer *)
(* or a packet) runs on top of the thread it interrupts.  Where the code    *)
(* goes wrong from is recorded in damage, and the model stops there, since  *)
(* from then on two owners write to the same memory.                       *)
(***************************************************************************)
EXTENDS Integers, Sequences, FiniteSets

CONSTANTS
    Cpus,
    SoftirqCpus,   \* the CPUs on which softirqs allocate, too
    Pages,         \* the pages the page allocator has, by number
    MaxPage,       \* the last page there is
    Sizes,         \* the sizes asked for, in bytes
    MaxBlocks      \* bound: blocks that callers have or are about to get

ASSUME SlubAssumption ==
    /\ SoftirqCpus \subseteq Cpus
    /\ MaxPage \in Nat /\ MaxPage % 2 = 1
    /\ Pages \subseteq 1 .. MaxPage
    /\ Sizes \subseteq Nat \ {0}
    /\ MaxBlocks \in Nat

PAGE_4K_SIZE == 4096
KMALLOC_MAX_CACHE_SIZE == 4096
LARGE_IDX == 15
LARGE_NEXT == 14

VARIABLES
    page_bits,   \* the index of every page
    freehead,    \* per CPU and index, the list that begins at freehead
    free,        \* pages the page allocator has
    blocks,      \* blocks of pages it has handed out
    held,        \* what malloc has returned and free has not taken back
    pc,          \* where each context is in malloc or free, "out" outside
    loc,         \* its local variables
    lost,        \* history: pages whose index the write of a neighbour undid
    damage       \* what has gone wrong, "none" so far

vars == <<page_bits, freehead, free, blocks, held, pc, loc, lost, damage>>
heapvars == <<free, blocks>>
histvars == <<lost, damage>>

(* kernel/yaos_page.c and kernel/phy_page.c, by what they promise. *)
Heap == INSTANCE PageSet WITH Block <- [addr : Pages, size : 1 .. MaxPage]

Contexts == (Cpus \X {"thread"}) \cup (SoftirqCpus \X {"softirq"})

-----------------------------------------------------------------------------
(* Sizes and addresses *)

kmalloc_info == <<96, 192, 8, 16, 32, 64, 128, 256, 512, 1024, 2048, 4096>>

(* The lists; 3, of 8 bytes, exists and is never chosen. *)
Indexes == DOMAIN kmalloc_info

size_index == <<4, 4, 5, 5, 6, 6, 6, 6, 1, 1, 1, 1, 7, 7, 7, 7, 2, 2, 2, 2, 2, 2, 2, 2>>

fls(n) == CHOOSE k \in 1 .. 12 : 2^(k - 1) <= n /\ n < 2^k

size_index_elem(bytes) == (bytes - 1) \div 8

kmalloc_slab(size) ==
    IF size <= 192 THEN size_index[size_index_elem(size) + 1] ELSE fls(size - 1)

(* The table and fls pick the smallest size of at least 16 that fits, for   *)
(* every size that is not a large one.                                     *)
ASSUME KmallocFits ==
    \A size \in 1 .. KMALLOC_MAX_CACHE_SIZE :
        LET fits == {s \in Indexes : kmalloc_info[s] >= size /\ kmalloc_info[s] >= 16}
        IN  /\ kmalloc_slab(size) \in fits
            /\ \A s \in fits : kmalloc_info[kmalloc_slab(size)] <= kmalloc_info[s]

PageOf(addr) == addr \div PAGE_4K_SIZE

(* Mutant: one object too many. *)
Objects_past_end(page, s) ==
    [k \in 1 .. PAGE_4K_SIZE \div kmalloc_info[s] + 1 |->
        page * PAGE_4K_SIZE + (k - 1) * kmalloc_info[s]]

(* The objects slub_add_page cuts a page into, in the order of the list. *)
Objects(page, s) ==
    [k \in 1 .. PAGE_4K_SIZE \div kmalloc_info[s] |->
        page * PAGE_4K_SIZE + (k - 1) * kmalloc_info[s]]

IsLarge(size) == size > KMALLOC_MAX_CACHE_SIZE

PageCount(size) == (size + PAGE_4K_SIZE - 1) \div PAGE_4K_SIZE

Run(page, n) == [addr |-> page, size |-> n]

(* Mutant: the last page is not marked. *)
LargeTags_short(page, n) ==
    [k \in 1 .. n - 1 |-> <<page + k - 1, IF k = 1 THEN LARGE_IDX ELSE LARGE_NEXT>>]

(* The marks of a large block: its first page, then the others. *)
LargeTags(page, n) ==
    [k \in 1 .. n |-> <<page + k - 1, IF k = 1 THEN LARGE_IDX ELSE LARGE_NEXT>>]

PageNumbers == 0 .. MaxPage

(* The page that has the other half of the byte. *)
Buddy(page) == IF page % 2 = 0 THEN page + 1 ELSE page - 1

-----------------------------------------------------------------------------
(* A softirq runs to its end before the thread below it goes on. *)
CanRun(x) ==
    /\ damage = "none"
    /\ x[2] = "thread" /\ x[1] \in SoftirqCpus => pc[<<x[1], "softirq">>] = "out"

At(x, l) == CanRun(x) /\ pc[x] = l

Goto(x, l) == pc' = [pc EXCEPT ![x] = l]

(* Mutant: one set of lists for all CPUs. *)
this_cpu_shared(x) == CHOOSE c \in Cpus : TRUE

this_cpu(x) == x[1]

List(x, s) == freehead[this_cpu(x)][s]

SetList(x, s, l) == freehead' = [freehead EXCEPT ![this_cpu(x)][s] = l]

(* The pages a block of n can begin at; the page allocator promises no more. *)
Fits(n) == {page \in Pages : Heap!PagesOf(Run(page, n)) \subseteq free}

NoLocals == [size |-> 0, s |-> 0, list |-> << >>, addr |-> 0, tags |-> << >>, bits |-> 0]

Broken(kind) == damage' = kind /\ UNCHANGED lost

(* __kmalloc up to its first look at the list. *)
kmalloc(x, size) ==
    LET s == kmalloc_slab(size)
    IN  /\ At(x, "out")
        /\ ~IsLarge(size)
        /\ loc' = [loc EXCEPT ![x] = [NoLocals EXCEPT !.size = size, !.s = s, !.list = List(x, s)]]
        /\ Goto(x, IF List(x, s) = << >> THEN "page" ELSE "pop")
        /\ UNCHANGED <<page_bits, freehead, heapvars, held, histvars>>

(* slub_add_page asks for a page and links its objects, which nobody knows *)
(* of yet.                                                                 *)
AddPage(x) ==
    /\ At(x, "page")
    /\ \E page \in Fits(1) :
           /\ Heap!Alloc(Run(page, 1))
           /\ loc' = [loc EXCEPT ![x].addr = page * PAGE_4K_SIZE]
    /\ Goto(x, "chain")
    /\ UNCHANGED <<page_bits, freehead, held, histvars>>

(* Mutant: the old list is not hung behind the new page. *)
Chain_drop(x) ==
    /\ At(x, "chain")
    /\ loc' = [loc EXCEPT ![x].list = << >>]
    /\ SetList(x, loc[x].s, << >>)
    /\ Goto(x, "push")
    /\ UNCHANGED <<page_bits, heapvars, held, histvars>>

(* pfree->pnext = s->freehead *)
Chain(x) ==
    /\ At(x, "chain")
    /\ loc' = [loc EXCEPT ![x].list = List(x, loc[x].s)]
    /\ Goto(x, "push")
    /\ UNCHANGED <<page_bits, freehead, heapvars, held, histvars>>

(* s->freehead = addr; what the softirq did to the list since is undone. *)
Push(x) ==
    LET s == loc[x].s
        page == PageOf(loc[x].addr)
    IN  /\ At(x, "push")
        /\ IF List(x, s) = loc[x].list
           THEN UNCHANGED histvars
           ELSE Broken("list")
        /\ SetList(x, s, Objects(page, s) \o loc[x].list)
        /\ loc' = [loc EXCEPT ![x].tags = <<<<page, s>>>>]
        /\ Goto(x, "tag")
        /\ UNCHANGED <<page_bits, heapvars, held>>

(* set_idx_from_addr reads the byte, half of which is another page's ... *)
TagRead(x) ==
    /\ At(x, "tag")
    /\ loc' = [loc EXCEPT ![x].bits = page_bits[Buddy(loc[x].tags[1][1])]]
    /\ Goto(x, "tagwrite")
    /\ UNCHANGED <<page_bits, freehead, heapvars, held, histvars>>

(* ... and writes both halves.  The next page of a large block follows;    *)
(* __kmalloc_large returns after the last one, __kmalloc looks at the list *)
(* again.                                                                  *)
TagWrite(x) ==
    LET page == loc[x].tags[1][1]
        rest == Tail(loc[x].tags)
        done == rest = << >> /\ IsLarge(loc[x].size)
    IN  /\ At(x, "tagwrite")
        /\ page_bits' = [page_bits EXCEPT ![page] = loc[x].tags[1][2],
                                          ![Buddy(page)] = loc[x].bits]
        /\ lost' = (lost \ {page}) \cup
                   (IF page_bits[Buddy(page)] # loc[x].bits THEN {Buddy(page)} ELSE {})
        /\ held' = IF done THEN held \cup {[addr |-> loc[x].addr, size |-> loc[x].size]} ELSE held
        /\ loc' = [loc EXCEPT ![x] = IF done THEN NoLocals ELSE [@ EXCEPT !.tags = rest, !.bits = 0]]
        /\ Goto(x, IF rest # << >> THEN "tag" ELSE IF done THEN "out" ELSE "reload")
        /\ UNCHANGED <<freehead, heapvars, damage>>

(* pfree = s->freehead, which the softirq may have used up again. *)
Reload(x) ==
    /\ At(x, "reload")
    /\ loc' = [loc EXCEPT ![x].list = List(x, loc[x].s)]
    /\ Goto(x, "pop")
    /\ IF List(x, loc[x].s) = << >> THEN Broken("list") ELSE UNCHANGED histvars
    /\ UNCHANGED <<page_bits, freehead, heapvars, held>>

(* s->freehead = pfree->pnext, and the object is the caller's. *)
Pop(x) ==
    /\ At(x, "pop")
    /\ IF List(x, loc[x].s) = loc[x].list
       THEN UNCHANGED histvars
       ELSE Broken("list")
    /\ SetList(x, loc[x].s, Tail(loc[x].list))
    /\ held' = held \cup {[addr |-> Head(loc[x].list), size |-> loc[x].size]}
    /\ loc' = [loc EXCEPT ![x] = NoLocals]
    /\ Goto(x, "out")
    /\ UNCHANGED <<page_bits, heapvars>>

kmalloc_large(x, size) ==
    /\ At(x, "out")
    /\ IsLarge(size)
    /\ \E page \in Fits(PageCount(size)) :
           /\ Heap!Alloc(Run(page, PageCount(size)))
           /\ loc' = [loc EXCEPT ![x] = [NoLocals EXCEPT
                          !.size = size, !.addr = page * PAGE_4K_SIZE,
                          !.tags = LargeTags(page, PageCount(size))]]
    /\ Goto(x, "tag")
    /\ UNCHANGED <<page_bits, freehead, held, histvars>>

(* heap_alloc_4k has no memory: P2V makes an address of the 0 it gets,     *)
(* which is not the 0 the callers look for: physical page 0 is handed out   *)
(* as a large block, and slub_add_page fails the assertion on its address.  *)
NoMemory(n, kind) ==
    /\ Fits(n) = {}
    /\ Broken(kind)
    /\ UNCHANGED <<page_bits, freehead, heapvars, held, pc, loc>>

kmalloc_large_fails(x, size) ==
    At(x, "out") /\ IsLarge(size) /\ NoMemory(PageCount(size), "page0")

AddPageFails(x) == At(x, "page") /\ NoMemory(1, "assert")

-----------------------------------------------------------------------------
(* free *)

(* The pages free finds in a large block: the first, and those after it    *)
(* that are marked to continue.                                            *)
LargePages(page) ==
    CHOOSE n \in 1 .. MaxPage :
        /\ \A k \in 1 .. n - 1 : page_bits[page + k] = LARGE_NEXT
        /\ page + n \in PageNumbers => page_bits[page + n] # LARGE_NEXT

(* The pages go back to the page allocator, which takes them on trust: a   *)
(* run that it did not hand out like this has pages of other owners.       *)
kmfree_large(x, b) ==
    LET page == PageOf(b.addr)
    IN  /\ At(x, "out")
        /\ page_bits[page] = LARGE_IDX
        /\ held' = held \ {b}
        /\ LET run == Run(page, LargePages(page))
           IN  \/ Heap!Free(run) /\ IsLarge(b.size) /\ UNCHANGED histvars
               \/ /\ run \notin blocks \/ ~IsLarge(b.size)
                  /\ Broken(IF IsLarge(b.size) THEN "overfree" ELSE "index")
                  /\ UNCHANGED heapvars
        /\ UNCHANGED <<page_bits, freehead, pc, loc>>

(* The assertion of __kmfree, (p & (size - 1)) = 0: sizes are taken for     *)
(* powers of two.                                                          *)
Aligned(addr, size) ==
    \A k \in 0 .. 12 : (addr \div 2^k) % 2 = 0 \/ ((size - 1) \div 2^k) % 2 = 0

(* The cache is the freeing CPU's.  An index that is not the object's would *)
(* put it on the list of another size.                                     *)
kmfree(x, b) ==
    LET s == page_bits[PageOf(b.addr)]
        right == ~IsLarge(b.size) /\ s = kmalloc_slab(b.size)
    IN  /\ At(x, "out")
        /\ s # LARGE_IDX
        /\ held' = held \ {b}
        /\ IF right /\ Aligned(b.addr, kmalloc_info[s])
           THEN /\ loc' = [loc EXCEPT ![x] = [NoLocals EXCEPT
                              !.s = s, !.list = List(x, s), !.addr = b.addr]]
                /\ Goto(x, "link")
                /\ UNCHANGED histvars
           ELSE Broken(IF right THEN "assert" ELSE "index") /\ UNCHANGED <<loc, pc>>
        /\ UNCHANGED <<page_bits, freehead, heapvars>>

Link(x) ==
    /\ At(x, "link")
    /\ IF List(x, loc[x].s) = loc[x].list
       THEN UNCHANGED histvars
       ELSE Broken("list")
    /\ SetList(x, loc[x].s, <<loc[x].addr>> \o loc[x].list)
    /\ loc' = [loc EXCEPT ![x] = NoLocals]
    /\ Goto(x, "out")
    /\ UNCHANGED <<page_bits, heapvars, held>>

-----------------------------------------------------------------------------
(* All CPUs have loaded the module: page_bits is zero, the lists are empty. *)
Init ==
    /\ page_bits = [page \in PageNumbers |-> 0]
    /\ freehead = [c \in Cpus |-> [s \in Indexes |-> << >>]]
    /\ free = Pages
    /\ blocks = {}
    /\ held = {}
    /\ pc = [x \in Contexts |-> "out"]
    /\ loc = [x \in Contexts |-> NoLocals]
    /\ lost = {}
    /\ damage = "none"

Malloc(x) ==
    /\ Cardinality(held) + Cardinality({y \in Contexts : pc[y] # "out"}) < MaxBlocks
    /\ \E size \in Sizes :
           kmalloc(x, size) \/ kmalloc_large(x, size) \/ kmalloc_large_fails(x, size)

Mfree(x) == \E b \in held : kmfree(x, b) \/ kmfree_large(x, b)

Next ==
    \E x \in Contexts :
        \/ Malloc(x) \/ AddPage(x) \/ Chain(x) \/ Push(x) \/ TagRead(x) \/ TagWrite(x)
        \/ Reload(x) \/ Pop(x) \/ AddPageFails(x)
        \/ Mfree(x) \/ Link(x)

Spec == Init /\ [][Next]_vars

-----------------------------------------------------------------------------
(* Properties *)

Locals == [size : Nat, s : 0 .. LARGE_IDX, list : Seq(Nat), addr : Nat,
           tags : Seq(PageNumbers \X (1 .. LARGE_IDX)), bits : 0 .. LARGE_IDX]

TypeOK ==
    /\ page_bits \in [PageNumbers -> 0 .. LARGE_IDX]
    /\ freehead \in [Cpus -> [Indexes -> Seq(Nat)]]
    /\ free \subseteq Pages
    /\ blocks \subseteq [addr : Pages, size : 1 .. MaxPage]
    /\ held \subseteq [addr : Nat, size : Sizes]
    /\ pc \in [Contexts -> {"out", "page", "chain", "push", "tag", "tagwrite", "reload",
                             "pop", "link"}]
    /\ loc \in [Contexts -> Locals]
    /\ lost \subseteq PageNumbers
    /\ damage \in {"none", "list", "index", "overfree", "page0", "assert"}

Piece(who, addr, size) == [who |-> who, addr |-> addr, size |-> size]

HeldPieces == {Piece(<<"held">>, b.addr, b.size) : b \in held}

ListPieces ==
    UNION {{Piece(<<"list", c, s, i>>, freehead[c][s][i], kmalloc_info[s]) :
                i \in DOMAIN freehead[c][s]} : c \in Cpus, s \in Indexes}

FreeingPieces ==
    {Piece(<<"freeing", x>>, loc[x].addr, kmalloc_info[loc[x].s]) :
         x \in {y \in Contexts : pc[y] = "link"}}

(* The page or the large block that a context in malloc is preparing. *)
Preparing(x) ==
    pc[x] \in {"chain", "push"} \/ (pc[x] \in {"tag", "tagwrite"} /\ IsLarge(loc[x].size))

PreparedPieces ==
    {Piece(<<"malloc", x>>, loc[x].addr,
           IF IsLarge(loc[x].size) THEN loc[x].size ELSE PAGE_4K_SIZE) :
         x \in {y \in Contexts : Preparing(y)}}

FreePieces == {Piece(<<"free">>, page * PAGE_4K_SIZE, PAGE_4K_SIZE) : page \in free}

Pieces == HeldPieces \cup ListPieces \cup FreeingPieces \cup PreparedPieces \cup FreePieces

Disjoint(p, q) == p.addr + p.size <= q.addr \/ q.addr + q.size <= p.addr

(* Memory has one owner: no byte belongs to two callers, to a caller and a  *)
(* free list, to two lists or two places of one, or to one of these and to  *)
(* the page allocator, however mallocs and frees on several CPUs and in     *)
(* softirqs interleave.  An index that is wrong, a list that a softirq      *)
(* changed, a large block freed with a neighbour, and page 0 are the only   *)
(* ways to lose this.                                                      *)
Exclusive == damage = "none" => \A p, q \in Pieces : p # q => Disjoint(p, q)

SmallIndex(p) == IF p.who[1] = "held" THEN kmalloc_slab(p.size)
                 ELSE CHOOSE s \in Indexes : kmalloc_info[s] = p.size

(* No memory is forgotten: a page taken for small objects is on its way to  *)
(* a list, or all of its objects are with callers or on lists; a large      *)
(* block is with its caller or on its way there.                           *)
NothingLeaks ==
    damage = "none" =>
        LET prepared == {PageOf(p.addr) : p \in PreparedPieces}
            owned    == HeldPieces \cup ListPieces \cup FreeingPieces
        IN  \A b \in blocks :
                LET here == {p \in owned : PageOf(p.addr) = b.addr}
                IN  \/ b.addr \in prepared
                    \/ b.size > 1 /\ here # {}
                    \/ /\ b.size = 1
                       /\ \E s \in Indexes :
                              /\ Cardinality(here) = PAGE_4K_SIZE \div kmalloc_info[s]
                              /\ \A p \in here : SmallIndex(p) = s

(* A context has still to mark the page, or the mark was undone. *)
Unmarked(page) ==
    \/ page \in lost
    \/ \E x \in Contexts : \E k \in DOMAIN loc[x].tags : loc[x].tags[k][1] = page

(* What free goes by is right: the index of a page is the list its objects  *)
(* belong to, on whichever CPU they are, and a large block is marked from   *)
(* its first page to its last, but for a page that is being marked or whose *)
(* mark a write to the other half of its byte undid.                       *)
IndexRight ==
    damage = "none" =>
        /\ \A p \in ListPieces \cup FreeingPieces \cup {h \in HeldPieces : ~IsLarge(h.size)} :
               Unmarked(PageOf(p.addr)) \/ page_bits[PageOf(p.addr)] = SmallIndex(p)
        /\ \A p \in HeldPieces : IsLarge(p.size) =>
               \A k \in 0 .. PageCount(p.size) - 1 :
                   LET page == PageOf(p.addr) + k
                   IN  Unmarked(page) \/ page_bits[page] = (IF k = 0 THEN LARGE_IDX ELSE LARGE_NEXT)

(* The lists are per CPU: where softirqs do not allocate, no list changes   *)
(* between a look at it and the write that follows, whatever other CPUs     *)
(* allocate and free.                                                      *)
ListsArePerCpu ==
    [][\A c \in Cpus \ SoftirqCpus :
           pc'[<<c, "thread">>] # pc[<<c, "thread">>] => damage' # "list"]_vars
=============================================================================
