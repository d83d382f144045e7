------------------------------ MODULE MCTimer ------------------------------
(* Timer with a pool of two nodes and one more on the heap. *)
EXTENDS Timer

MCBuf == 1 .. 2
MCHeap == {3}
MCDelays == {1, 3}
=============================================================================
