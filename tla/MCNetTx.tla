------------------------------ MODULE MCNetTx ------------------------------
(* Instances of NetTx for TLC. *)
EXTENDS NetTx
=============================================================================
