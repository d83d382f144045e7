------------------------------ MODULE MCSched ------------------------------
(* Sched with the softirqs that raise or wake something, and one more. *)
EXTENDS Sched

MCSoftirqs == {1, 3, 6, 8}
=============================================================================
