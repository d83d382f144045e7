------------------------------ MODULE PageSet ------------------------------
(***************************************************************************)
(* What an allocator of pages promises: a block it hands out consists of    *)
(* pages that nobody has, and a block given back is free again.            *)
(***************************************************************************)
EXTENDS Integers

CONSTANTS
    Pages,   \* the pages there are, numbered by address
    Block    \* the blocks that may be asked for, [addr, size]

VARIABLES
    free,    \* the pages nobody has
    blocks   \* the blocks handed out

vars == <<free, blocks>>

(* The pages of the block b. *)
PagesOf(b) == b.addr .. b.addr + b.size - 1

Init == free = Pages /\ blocks = {}

Alloc(b) ==
    /\ PagesOf(b) \subseteq free
    /\ free' = free \ PagesOf(b)
    /\ blocks' = blocks \cup {b}

Free(b) ==
    /\ b \in blocks
    /\ free' = free \cup PagesOf(b)
    /\ blocks' = blocks \ {b}

Next == \E b \in Block : Alloc(b) \/ Free(b)

Spec == Init /\ [][Next]_vars

(* Who has a page has it alone: blocks share no page with each other or     *)
(* with the free ones.                                                     *)
Exclusive ==
    /\ \A b \in blocks : PagesOf(b) \cap free = {}
    /\ \A b, c \in blocks : b # c => PagesOf(b) \cap PagesOf(c) = {}
=============================================================================
