------------------------- MODULE MCDoubleLinkedList -------------------------
(* Instances of DoubleLinkedList for TLC.                                   *)
EXTENDS DoubleLinkedList

(* Nodes are addresses: malloc() may return any that is free.               *)
NodeSymmetry == Permutations(Node)

=============================================================================
