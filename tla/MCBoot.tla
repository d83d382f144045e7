------------------------------ MODULE MCBoot -------------------------------
(* Boot with a few processors to start and modules to load. *)
EXTENDS Boot
=============================================================================
