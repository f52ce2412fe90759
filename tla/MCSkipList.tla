----------------------------- MODULE MCSkipList -----------------------------
(* Instances of SkipList for TLC.                                          *)
EXTENDS SkipList

(* The strings of the objects are their order in CompareStringObjects().   *)
TwoObjects == 1..2
Names == [o \in TwoObjects |-> o]

(* Nodes are addresses: malloc() may return any that is free.              *)
NodeSymmetry == Permutations(Node)

=============================================================================
