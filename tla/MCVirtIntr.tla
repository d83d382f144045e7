----------------------------- MODULE MCVirtIntr -----------------------------
(* Instances of VirtIntr for TLC.  Three entries unread at most, in a ring  *)
(* of four, and indices that wrap after eight.                             *)
EXTENDS VirtIntr
=============================================================================
