------------------------------ MODULE MCPhyPage ------------------------------
(* Instances of PhyPage for TLC: memory that begins on the boundary of a    *)
(* large page, and memory that does not.                                   *)
EXTENDS PhyPage

MCMaps == {<<[addr |-> 1, size |-> 1], [addr |-> 4, size |-> 3]>>,
           <<[addr |-> 3, size |-> 4]>>}
MCNodes == 1 .. 3
MCSizes == {1, 2}
Symmetry == Permutations(Cpus)
==============================================================================
