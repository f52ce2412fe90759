------------------------ MODULE DictionaryRefinement ------------------------
(***************************************************************************)
(* What a client sees of Dictionary: always a NodeStore, and a KeyValueMap *)
(* as long as no rehash ever starts.                                       *)
(***************************************************************************)
EXTENDS Dictionary

(* How many nodes of the dictionary are the node n.                        *)
Copies(d) ==
  LET places == UNION {{t} \X Places(d.table[t]) : t \in 0..1}
      At(p)  == d.table[p[1]].slot[p[2][1]][p[2][2]]
  IN  [n \in HashTableNode |-> Cardinality({p \in places : At(p) = n})]

Store == INSTANCE NodeStore WITH
  status <- IF dictionary.status \in Faults THEN "broken" ELSE dictionary.status,
  copies <- Copies(dictionary)

(* Through every interleaving of calls with the rehash, a call changes one *)
(* node of its own key at most, the rehash steps and the expansion hidden  *)
(* in it neither lose, copy nor change a node, an addition is refused and  *)
(* a value returned only for a key that has a node, and the result says    *)
(* what was done.                                                          *)
ImplementsNodeStore == Store!Spec

(* Where DictionaryFind() would find the key, were it not to rehash.       *)
Reachable(d) == {k \in Key : FoundIn(d, k) # -1}

Map == INSTANCE KeyValueMap WITH
  open     <- IsLive,
  contents <- [k \in Reachable(dictionary) |-> LookUp(dictionary, k)]

(* A dictionary that is never asked for more nodes, or for a larger table, *)
(* than DICTIONARY_HASH_TABLE_INITIAL_SIZE is an associative array up to   *)
(* its release.  (The release of nodes, a fault, maps to the closed map.)  *)
ImplementsMap == Map!Spec

=============================================================================
