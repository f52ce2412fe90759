-------------------------- MODULE DictionaryClaims --------------------------
(***************************************************************************)
(* What the comments of nosql/dictionary.c and dictionary.h say of a       *)
(* dictionary that grows, and the code does not do.                        *)
(***************************************************************************)
EXTENDS DictionaryRefinement

(* "Return the pointer to the node whose key matches the argument key.     *)
(* NULL if can't find" (dictionary.h:114): a lookup of a key that has a    *)
(* node finds one, the rehash step it makes first included.                *)
FindsEveryLinkedKey ==
  IsLive =>
    \A n \in HashTableNode :
      Copies(dictionary)[n] > 0 => LookUp(Touch(dictionary), n.key) # NULL

(* "disallows two elements that have the same key" (dictionary.c:280).     *)
NoDuplicateKeys ==
  IsLive =>
    LET copies == Copies(dictionary)
        linked == {n \in HashTableNode : copies[n] > 0}
    IN  \A m, n \in linked : m.key = n.key => m = n /\ copies[n] = 1

(* "Return the index of a slot to which that we can add `key`"             *)
(* (dictionary.c:246), "Not in rehashing: add element to the first hash    *)
(* table([0]); otherwise second" (dictionary.c:269): the index is a slot   *)
(* of the table that the node is then added to.                            *)
AddsWithinTheTable ==
  dictionary.status \notin {"add_out_of_bounds", "add_null_slot"}

=============================================================================
