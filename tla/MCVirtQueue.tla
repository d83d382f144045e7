---------------------------- MODULE MCVirtQueue ----------------------------
(* Instances of VirtQueue for TLC.  Four descriptors and indices that wrap  *)
(* after eight let the rings go round and a request of one or two           *)
(* descriptors meet a nearly full queue.                                   *)
EXTENDS VirtQueue, TLC

CONSTANTS b1, b2, b3, b4

(* The pointers are interchangeable. *)
Symmetry == Permutations(Bufs)
=============================================================================
