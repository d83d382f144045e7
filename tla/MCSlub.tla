------------------------------ MODULE MCSlub -------------------------------
(* Slub with lists of two objects to a page and large blocks of two pages. *)
EXTENDS Slub
=============================================================================
