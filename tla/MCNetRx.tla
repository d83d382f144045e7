------------------------------ MODULE MCNetRx ------------------------------
(* Instances of NetRx for TLC. *)
EXTENDS NetRx
=============================================================================
