------------------------ MODULE DictionaryNodeProofs ------------------------
(***************************************************************************)
(* The nodes of Dictionary, whatever slots they are in.  Held(d, C) counts *)
(* the nodes of d that are in a set C: no rehash step and no expansion     *)
(* changes it for any C, and each call adds, takes away or exchanges one   *)
(* node at most.  Read with the nodes of one key, or of one value, for C   *)
(* it is the account of references; with a single node for C it is the bag *)
(* of NodeStore.  The last part is about the dictionaries that never start *)
(* a rehash: they are associative arrays.                                  *)
(***************************************************************************)
EXTENDS DictionaryProofs, DictionaryRefinement

-----------------------------------------------------------------------------
(* How many nodes of a set C a dictionary has.                             *)

Held(d, C) ==
  Cardinality(NodesIn(d.table[0], C)) + Cardinality(NodesIn(d.table[1], C))

LEMMA HeldIsNat ==
  ASSUME NEW d, IsSound(d), NEW C
  PROVE  /\ Cardinality(NodesIn(d.table[0], C)) \in Nat
         /\ Cardinality(NodesIn(d.table[1], C)) \in Nat
         /\ Held(d, C) \in Nat
<1>1. IsHashTable(d.table[0]) /\ IsHashTable(d.table[1])
  BY SoundTables
<1>2. /\ Cardinality(NodesIn(d.table[0], C)) \in Nat
      /\ Cardinality(NodesIn(d.table[1], C)) \in Nat
  BY <1>1, NodesOfTable
<1>3. QED BY <1>2 DEF Held

LEMMA HeldByFault ==
  ASSUME NEW d, IsSound(d), NEW f, NEW C
  PROVE  Held(Fault(d, f), C) = Held(d, C)
<1>1. d = [table        |-> [u \in 0..1 |-> d.table[u]],
           rehash_index |-> d.rehash_index,
           status       |-> d.status]
  BY DEF IsSound, IsDictionary
<1>2. Fault(d, f).table = d.table
  BY <1>1 DEF Fault
<1>3. QED BY <1>2 DEF Held

(* No rehash step loses, copies or changes a node.                         *)
LEMMA HeldByRehash ==
  ASSUME NEW d, IsSound(d), NEW n, NEW C
  PROVE  Held(RehashSlots(d, n), C) = Held(d, C)
<1>1. CASE ~IsRehashing(d)
  BY <1>1 DEF RehashSlots
<1>2. CASE IsRehashing(d)
  <2>1. PICK e, j, m : /\ e = RehashSlots(d, n) /\ j = Min(LoopEndings(d, n))
                       /\ m = MoveSlots(d, j)
    OBVIOUS
  <2>2. /\ j \in d.rehash_index..d.table[0].size
        /\ \/ e = Fault(d, "rehash_out_of_bounds")
           \/ /\ \A i \in FilledSlots(d, j) : i < d.table[1].size
              /\ \/ m.table[0].count = 0 /\ e = FinishRehash(m)
                 \/ m.table[0].count # 0 /\ e = m
    BY <1>2, <2>1, RehashOutcomes
  <2>3. CASE e = Fault(d, "rehash_out_of_bounds")
    BY <2>1, <2>3, HeldByFault
  <2>4. CASE \A i \in FilledSlots(d, j) : i < d.table[1].size
    <3>1. m.table[0] = LeftTable(d, j) /\ m.table[1] = GainedTable(d, j)
      BY <2>1 DEF MoveSlots, Tables
    <3>2. Cardinality(NodesIn(LeftTable(d, j), C))
              + Cardinality(NodesIn(GainedTable(d, j), C)) =
            Cardinality(NodesIn(d.table[0], C)) + Cardinality(NodesIn(d.table[1], C))
      BY <1>2, <2>2, <2>4, NodesOfMoved
    <3>3. Held(m, C) = Held(d, C)
      BY <3>1, <3>2 DEF Held
    <3>4. CASE e = m
      BY <2>1, <3>3, <3>4
    <3>5. CASE m.table[0].count = 0 /\ e = FinishRehash(m)
      <4>1. e.table = Tables(m.table[1], EmptyTable(0))
        BY <3>5 DEF FinishRehash
      <4>2. e.table[0] = m.table[1] /\ e.table[1] = EmptyTable(0)
        BY <4>1 DEF Tables
      <4>3. Cardinality(NodesIn(EmptyTable(0), C)) = 0
        BY NodesOfEmpty
      <4>4. Cardinality(NodesIn(m.table[0], C)) = 0
        <5>1. IsCountedTable(m.table[0])
          BY <1>2, <2>2, <3>1, LeftTableCounted
        <5>2. QED BY <3>5, <5>1, NodesOfUncounted
      <4>5. Cardinality(NodesIn(m.table[1], C)) \in Nat
        <5>1. IsHashTable(m.table[1])
          BY <1>2, <2>2, <2>4, <3>1, GainedTableCounted DEF IsCountedTable
        <5>2. QED BY <5>1, NodesOfTable
      <4>6. Held(e, C) = Held(m, C)
        BY <4>2, <4>3, <4>4, <4>5 DEF Held
      <4>7. QED BY <2>1, <3>3, <4>6
    <3>6. CASE e = Fault(d, "rehash_out_of_bounds")
      BY <2>1, <3>6, HeldByFault
    <3>7. QED BY <2>2, <3>4, <3>5, <3>6
  <2>5. QED BY <2>2, <2>3, <2>4
<1>3. QED BY <1>1, <1>2

LEMMA HeldByTouch ==
  ASSUME NEW d, IsSound(d), NEW C
  PROVE  Held(Touch(d), C) = Held(d, C)
<1>1. Held(RehashSlots(d, 1), C) = Held(d, C)
  BY HeldByRehash
<1>2. Touch(d) = d \/ Touch(d) = RehashSlots(d, 1)
  BY DEF Touch, RehashStep
<1>3. QED BY <1>1, <1>2

(* Another table in the place of one of the two.                           *)
LEMMA HeldWithTable ==
  ASSUME NEW d, IsSound(d), NEW t \in 0..1, NEW T, IsHashTable(T), NEW C
  PROVE  Held([d EXCEPT !.table[t] = T], C) + Cardinality(NodesIn(d.table[t], C)) =
           Held(d, C) + Cardinality(NodesIn(T, C))
<1>1. d = [table        |-> [u \in 0..1 |-> d.table[u]],
           rehash_index |-> d.rehash_index,
           status       |-> d.status]
  BY DEF IsSound, IsDictionary
<1>2. PICK e : e = [d EXCEPT !.table[t] = T]
  OBVIOUS
<1>3. e.table[t] = T /\ \A u \in 0..1 : u # t => e.table[u] = d.table[u]
  BY <1>1, <1>2
<1>4. /\ Cardinality(NodesIn(d.table[0], C)) \in Nat
      /\ Cardinality(NodesIn(d.table[1], C)) \in Nat
      /\ Cardinality(NodesIn(T, C)) \in Nat
  BY HeldIsNat, NodesOfTable
<1>5. CASE t = 0
  <2>1. e.table[0] = T /\ e.table[1] = d.table[1]
    BY <1>3, <1>5
  <2>2. QED BY <1>2, <1>4, <1>5, <2>1 DEF Held
<1>6. CASE t = 1
  <2>1. e.table[1] = T /\ e.table[0] = d.table[0]
    BY <1>3, <1>6
  <2>2. QED BY <1>2, <1>4, <1>6, <2>1 DEF Held
<1>7. QED BY <1>5, <1>6

(* An expansion moves no node: what it replaces is empty.                  *)
LEMMA HeldByExpand ==
  ASSUME NEW d, IsSound(d), ~IsRehashing(d),
         NEW size, \E s \in TableSizes : size <= s, NEW C
  PROVE  Held(ExpandTo(d, size), C) = Held(d, C)
<1>1. PICK e, T : e = ExpandTo(d, size) /\ T = NewTable(size)
  OBVIOUS
<1>2. IsHashTable(T) /\ Cardinality(NodesIn(T, C)) = 0
  <2>1. NextPower(size) \in TableSizes
    BY NextPowerIsASize
  <2>2. IsHashTable(EmptyTable(NextPower(size)))
    BY <2>1, EmptyTableCounted DEF IsCountedTable
  <2>3. Cardinality(NodesIn(EmptyTable(NextPower(size)), C)) = 0
    BY <2>1, NodesOfEmpty
  <2>4. QED BY <1>1, <2>2, <2>3 DEF NewTable
<1>3. /\ Cardinality(NodesIn(d.table[0], C)) \in Nat
      /\ Cardinality(NodesIn(d.table[1], C)) \in Nat
      /\ Held(d, C) \in Nat
  BY HeldIsNat
<1>4. ASSUME NEW t \in 0..1, d.table[t].size = 0
      PROVE  Cardinality(NodesIn(d.table[t], C)) = 0
  <2>1. IsHashTable(d.table[t])
    BY DEF IsSound, IsDictionary
  <2>2. \A p : p \notin NodesIn(d.table[t], C)
    BY <1>4, <2>1, NodesOfTable
  <2>3. QED BY <2>2, FS_EmptySet
<1>5. d.table[1].size = 0
  BY SoundTables DEF IsSound, Frontier
<1>6. CASE d.table[0].size = 0
  <2>1. e = [d EXCEPT !.table[0] = T]
    BY <1>1, <1>6 DEF ExpandTo
  <2>2. Held(e, C) + Cardinality(NodesIn(d.table[0], C)) =
          Held(d, C) + Cardinality(NodesIn(T, C))
    BY <1>2, <2>1, HeldWithTable
  <2>3. Cardinality(NodesIn(d.table[0], C)) = 0
    BY <1>4, <1>6
  <2>4. Held(e, C) \in Nat
    <3>1. IsSound(e)
      BY <1>1, ExpandToSound
    <3>2. QED BY <3>1, HeldIsNat
  <2>5. QED BY <1>1, <1>2, <1>3, <2>2, <2>3, <2>4
<1>7. CASE d.table[0].size # 0
  <2>1. e.table = Tables(d.table[0], T)
    BY <1>1, <1>7 DEF ExpandTo
  <2>2. e.table[0] = d.table[0] /\ e.table[1] = T
    BY <2>1 DEF Tables
  <2>3. Cardinality(NodesIn(d.table[1], C)) = 0
    BY <1>4, <1>5
  <2>4. QED BY <1>1, <1>2, <1>3, <2>2, <2>3 DEF Held
<1>8. QED BY <1>6, <1>7

LEMMA HeldByExpandIfNeeded ==
  ASSUME NEW d, IsSound(d), NodeNumber(d) <= MaxNodes, NEW C
  PROVE  Held(ExpandIfNeeded(d), C) = Held(d, C)
<1>1. CASE WantsExpand(d) /\ CanExpand(d, WantedSize(d))
  <2>1. \E s \in TableSizes : WantedSize(d) <= s
    <3>1. CASE d.table[0].size = 0
      BY <3>1, SizesAssumption DEF WantedSize
    <3>2. CASE d.table[0].size # 0
      <4>1. d.table[0].count \in Nat /\ d.table[1].count \in Nat
        BY SoundTables
      <4>2. WantedSize(d) \in 0..(2 * MaxNodes)
        BY <3>2, <4>1, ParametersAssumption DEF WantedSize, NodeNumber
      <4>3. QED BY <4>2, GrowthAssumption
    <3>3. QED BY <3>1, <3>2
  <2>2. ~IsRehashing(d)
    BY <1>1 DEF CanExpand
  <2>3. ExpandIfNeeded(d) = ExpandTo(d, WantedSize(d))
    BY <1>1 DEF ExpandIfNeeded
  <2>4. QED BY <2>1, <2>2, <2>3, HeldByExpand
<1>2. CASE ~(WantsExpand(d) /\ CanExpand(d, WantedSize(d)))
  BY <1>2 DEF ExpandIfNeeded
<1>3. QED BY <1>1, <1>2

(* The nodes of an empty dictionary.                                       *)
LEMMA HeldByNone ==
  ASSUME NEW d, IsSound(d), ~(NodeNumber(d) > 0), NEW C
  PROVE  Held(d, C) = 0
<1>1. /\ IsCountedTable(d.table[0]) /\ IsCountedTable(d.table[1])
      /\ d.table[0].count \in Nat /\ d.table[1].count \in Nat
  BY SoundTables
<1>2. d.table[0].count = 0 /\ d.table[1].count = 0
  BY <1>1 DEF NodeNumber
<1>3. /\ Cardinality(NodesIn(d.table[0], C)) = 0
      /\ Cardinality(NodesIn(d.table[1], C)) = 0
  BY <1>1, <1>2, NodesOfUncounted
<1>4. QED BY <1>3 DEF Held

LEMMA HeldByNew ==
  ASSUME NEW s, NEW C
  PROVE  Held(NewDictionary(s), C) = 0
<1>1. NewDictionary(s).table = Tables(EmptyTable(0), EmptyTable(0))
  BY DEF NewDictionary
<1>2. /\ NewDictionary(s).table[0] = EmptyTable(0)
      /\ NewDictionary(s).table[1] = EmptyTable(0)
  BY <1>1 DEF Tables
<1>3. Cardinality(NodesIn(EmptyTable(0), C)) = 0
  BY NodesOfEmpty
<1>4. QED BY <1>2, <1>3 DEF Held

(* The node that a search has found.                                       *)
LEMMA HeldByRemove ==
  ASSUME NEW d, IsSound(d), NEW k \in Key, FoundIn(d, k) # -1, NEW C
  PROVE  Held(d, C) = Held(RemoveFound(d, k), C)
                        + Has(C, [key |-> k, value |-> LookUp(d, k)])
<1>1. PICK t, T, i, j, U :
        /\ t = FoundIn(d, k) /\ T = d.table[t] /\ i = SlotIndex(T, k)
        /\ j = FirstMatch(T.slot[i], k) /\ U = Unlink(T, i, j)
  OBVIOUS
<1>2. /\ t \in 0..1 /\ IsCountedTable(T) /\ IsHashTable(T) /\ i \in 0..(T.size - 1)
      /\ T.slot[i] \in Seq(HashTableNode) /\ j \in 1..Len(T.slot[i])
  BY <1>1, FoundNode DEF IsCountedTable
<1>3. IsHashTable(U)
  BY <1>1, <1>2, UnlinkCounted DEF IsCountedTable
<1>4. RemoveFound(d, k) = [d EXCEPT !.table[t] = U]
  BY <1>1 DEF RemoveFound, Chain
<1>5. T.slot[i][j] = [key |-> k, value |-> LookUp(d, k)]
  <2>1. T.slot[i][j].key = k
    BY <1>1, <1>2, FirstMatchFinds
  <2>2. LookUp(d, k) = T.slot[i][j].value
    BY <1>1 DEF LookUp, Chain
  <2>3. T.slot[i][j] \in HashTableNode
    BY <1>2
  <2>4. QED BY <2>1, <2>2, <2>3 DEF HashTableNode
<1>6. Cardinality(NodesIn(T, C)) =
        Cardinality(NodesIn(U, C)) + Has(C, T.slot[i][j])
  <2>1. IsCountedTable(T) /\ i \in 0..(T.size - 1) /\ j \in 1..Len(T.slot[i])
    BY <1>2
  <2>2. Cardinality(NodesIn(T, C)) =
          Cardinality(NodesIn(Unlink(T, i, j), C)) + Has(C, T.slot[i][j])
    BY <2>1, NodesOfUnlink
  <2>3. U = Unlink(T, i, j)
    BY <1>1
  <2>4. QED BY <2>2, <2>3, Zenon
<1>7. Held([d EXCEPT !.table[t] = U], C) + Cardinality(NodesIn(T, C)) =
        Held(d, C) + Cardinality(NodesIn(U, C))
  <2>1. Held([d EXCEPT !.table[t] = U], C) + Cardinality(NodesIn(d.table[t], C)) =
          Held(d, C) + Cardinality(NodesIn(U, C))
    BY <1>2, <1>3, HeldWithTable
  <2>2. T = d.table[t]
    BY <1>1
  <2>3. QED BY <2>1, <2>2, Zenon
<1>8. /\ Held(d, C) \in Nat /\ Held(RemoveFound(d, k), C) \in Nat
      /\ Cardinality(NodesIn(T, C)) \in Nat /\ Cardinality(NodesIn(U, C)) \in Nat
  <2>1. IsSound(RemoveFound(d, k))
    BY RemoveFoundSound
  <2>2. QED BY <1>2, <1>3, <2>1, HeldIsNat, NodesOfTable
<1>9. Has(C, T.slot[i][j]) \in Nat
  BY DEF Has
<1>10. Held(d, C) = Held(RemoveFound(d, k), C) + Has(C, T.slot[i][j])
  BY <1>4, <1>6, <1>7, <1>8, <1>9
<1>11. QED BY <1>5, <1>10

LEMMA HeldByReplace ==
  ASSUME NEW d, IsSound(d), NEW k \in Key, FoundIn(d, k) # -1, NEW v \in Value, NEW C
  PROVE  Held(ReplaceFound(d, k, v), C)
             + Has(C, [key |-> k, value |-> LookUp(d, k)]) =
           Held(d, C) + Has(C, [key |-> k, value |-> v])
<1>1. PICK t, T, i, j, U :
        /\ t = FoundIn(d, k) /\ T = d.table[t] /\ i = SlotIndex(T, k)
        /\ j = FirstMatch(T.slot[i], k) /\ U = SetValue(T, i, j, v)
  OBVIOUS
<1>2. /\ t \in 0..1 /\ IsCountedTable(T) /\ IsHashTable(T) /\ i \in 0..(T.size - 1)
      /\ T.slot[i] \in Seq(HashTableNode) /\ j \in 1..Len(T.slot[i])
  BY <1>1, FoundNode DEF IsCountedTable
<1>3. IsHashTable(U)
  BY <1>1, <1>2, SetValueCounted DEF IsCountedTable
<1>4. ReplaceFound(d, k, v) = [d EXCEPT !.table[t] = U]
  BY <1>1 DEF ReplaceFound, Chain
<1>5. T.slot[i][j] = [key |-> k, value |-> LookUp(d, k)] /\ T.slot[i][j].key = k
  <2>1. T.slot[i][j].key = k
    BY <1>1, <1>2, FirstMatchFinds
  <2>2. LookUp(d, k) = T.slot[i][j].value
    BY <1>1 DEF LookUp, Chain
  <2>3. T.slot[i][j] \in HashTableNode
    BY <1>2
  <2>4. QED BY <2>1, <2>2, <2>3 DEF HashTableNode
<1>6. Cardinality(NodesIn(U, C)) =
        Cardinality(NodesIn(T, C))
          + (Has(C, [key |-> T.slot[i][j].key, value |-> v]) - Has(C, T.slot[i][j]))
  <2>1. IsHashTable(T) /\ i \in 0..(T.size - 1) /\ j \in 1..Len(T.slot[i])
    BY <1>2
  <2>2. PICK old, new : old = T.slot[i][j] /\ new = [key |-> old.key, value |-> v]
    OBVIOUS
  <2>3. Cardinality(NodesIn(SetValue(T, i, j, v), C)) =
          Cardinality(NodesIn(T, C)) + (Has(C, new) - Has(C, old))
    <3>1. GetsValue(T, i, j, v, old, new)
      BY <2>2 DEF GetsValue
    <3>2. \A w \in Value : \A X, o, n : GetsValue(T, i, j, w, o, n) =>
            Cardinality(NodesIn(SetValue(T, i, j, w), X)) =
              Cardinality(NodesIn(T, X)) + (Has(X, n) - Has(X, o))
      BY <2>1, NodesOfSetValue
    <3>3. \A X, o, n : GetsValue(T, i, j, v, o, n) =>
            Cardinality(NodesIn(SetValue(T, i, j, v), X)) =
              Cardinality(NodesIn(T, X)) + (Has(X, n) - Has(X, o))
      BY <3>2
    <3>4. QED BY <3>1, <3>3
  <2>4. U = SetValue(T, i, j, v)
    BY <1>1
  <2>5. QED BY <2>2, <2>3, <2>4
<1>7. Held([d EXCEPT !.table[t] = U], C) + Cardinality(NodesIn(T, C)) =
        Held(d, C) + Cardinality(NodesIn(U, C))
  BY <1>1, <1>2, <1>3, HeldWithTable
<1>8. /\ Held(d, C) \in Nat /\ Held(ReplaceFound(d, k, v), C) \in Nat
      /\ Cardinality(NodesIn(T, C)) \in Nat /\ Cardinality(NodesIn(U, C)) \in Nat
  <2>1. IsSound(ReplaceFound(d, k, v))
    BY ReplaceFoundSound
  <2>2. QED BY <1>2, <1>3, <2>1, HeldIsNat, NodesOfTable
<1>9. Has(C, T.slot[i][j]) \in Nat /\ Has(C, [key |-> k, value |-> v]) \in Nat
  BY DEF Has
<1>10. Held(ReplaceFound(d, k, v), C) + Has(C, T.slot[i][j]) =
         Held(d, C) + Has(C, [key |-> k, value |-> v])
  BY <1>4, <1>5, <1>6, <1>7, <1>8, <1>9
<1>11. QED BY <1>5, <1>10

(* What DictionaryAddRaw() comes to: it stops before it links a node, or   *)
(* it links one inside the table that AddTable() names.                    *)
LEMMA AddNodeOutcome ==
  ASSUME NEW d, IsSound(d), d.status = "live", NodeNumber(d) < MaxNodes,
         NEW k \in Key, NEW v \in Value \cup {Unset}
  PROVE  LET outcome  == AddNode(d, k, v)
             stepped  == RehashStep(d)
             expanded == ExpandIfNeeded(stepped)
             node     == [key |-> k, value |-> v]
         IN  /\ IsSound(stepped) /\ IsSound(expanded)
             /\ NodeNumber(stepped) <= MaxNodes
             /\ \/ /\ ~outcome.added
                   /\ outcome.dict \in {stepped, expanded, Fault(expanded, "add_null_slot"),
                                        Fault(expanded, "add_out_of_bounds")}
                \/ /\ outcome.added /\ stepped.status = "live"
                   /\ \E t \in 0..1 : \E i \in 0..(expanded.table[t].size - 1) :
                        outcome.dict =
                          [expanded EXCEPT !.table[t] = Link(expanded.table[t], i, node)]
<1>1. PICK outcome, stepped, expanded, node, index, t, T :
        /\ outcome = AddNode(d, k, v) /\ stepped = RehashStep(d)
        /\ expanded = ExpandIfNeeded(stepped) /\ node = [key |-> k, value |-> v]
        /\ index = KeyIndex(stepped, k) /\ t = AddTable(d) /\ T = expanded.table[t]
  OBVIOUS
<1>2. IsSound(stepped) /\ NodeNumber(stepped) <= MaxNodes
  <2>1. IsSound(stepped) /\ NodeNumber(stepped) = NodeNumber(d)
    BY <1>1, RehashSlotsSound DEF RehashStep
  <2>2. NodeNumber(d) \in Nat
    BY SoundTables DEF NodeNumber
  <2>3. QED BY <2>1, <2>2, ParametersAssumption
<1>3. /\ IsSound(expanded)
      /\ expanded.table[0].size = 0
           => WantsExpand(stepped) /\ ~CanExpand(stepped, WantedSize(stepped))
  BY <1>1, <1>2, ExpandIfNeededSound
<1>4. outcome =
        IF stepped.status # "live" THEN [dict |-> stepped, added |-> FALSE]
        ELSE IF index = -1 THEN [dict |-> expanded, added |-> FALSE]
        ELSE IF T.size = 0
             THEN [dict |-> Fault(expanded, "add_null_slot"), added |-> FALSE]
        ELSE IF index >= T.size
             THEN [dict |-> Fault(expanded, "add_out_of_bounds"), added |-> FALSE]
        ELSE [dict  |-> [expanded EXCEPT !.table[t] = Link(@, index, node)],
              added |-> TRUE]
  BY <1>1 DEF AddNode
<1>5. t \in 0..1
  BY <1>1 DEF AddTable
<1>6. ASSUME index # -1, T.size # 0, ~(index >= T.size)
      PROVE  index \in 0..(T.size - 1)
  <2>1. PICK K : K = KeyTable(expanded)
    OBVIOUS
  <2>2. /\ index = SlotIndex(K, k)
        /\ ~(WantsExpand(stepped) /\ ~CanExpand(stepped, WantedSize(stepped)))
    BY <1>1, <1>6, <2>1 DEF KeyIndex
  <2>3. expanded.table[0].size # 0
    BY <1>3, <2>2
  <2>4. /\ IsHashTable(expanded.table[0]) /\ IsHashTable(expanded.table[1])
        /\ expanded.table[0].size \in Nat /\ expanded.table[1].size \in Nat
        /\ T.size \in Nat
    BY <1>1, <1>3, <1>5, SoundTables
  <2>5. IsHashTable(K) /\ K.size > 0 /\ K.size \in Nat
    <3>1. CASE IsRehashing(expanded)
      BY <1>3, <2>1, <2>4, <3>1 DEF IsSound, Frontier, KeyTable
    <3>2. CASE ~IsRehashing(expanded)
      BY <2>1, <2>3, <2>4, <3>2 DEF KeyTable
    <3>3. QED BY <3>1, <3>2
  <2>6. index \in 0..(K.size - 1)
    BY <2>2, <2>5, SlotIndexInTable
  <2>7. QED BY <1>6, <2>4, <2>5, <2>6
<1>7. CASE stepped.status # "live"
  <2>1. outcome = [dict |-> stepped, added |-> FALSE]
    BY <1>4, <1>7
  <2>2. ~outcome.added /\ outcome.dict = stepped
    BY <2>1
  <2>3. QED BY <1>1, <1>2, <1>3, <2>2
<1>8. CASE stepped.status = "live" /\ (index = -1 \/ T.size = 0 \/ index >= T.size)
  <2>1. outcome \in {[dict |-> expanded, added |-> FALSE],
                     [dict |-> Fault(expanded, "add_null_slot"), added |-> FALSE],
                     [dict |-> Fault(expanded, "add_out_of_bounds"), added |-> FALSE]}
    BY <1>4, <1>8
  <2>2. /\ ~outcome.added
        /\ outcome.dict \in {expanded, Fault(expanded, "add_null_slot"),
                             Fault(expanded, "add_out_of_bounds")}
    BY <2>1
  <2>3. QED BY <1>1, <1>2, <1>3, <2>2
<1>9. CASE stepped.status = "live" /\ ~(index = -1 \/ T.size = 0 \/ index >= T.size)
  <2>1. outcome = [dict  |-> [expanded EXCEPT !.table[t] = Link(@, index, node)],
                   added |-> TRUE]
    BY <1>4, <1>9
  <2>2. /\ outcome.added
        /\ outcome.dict = [expanded EXCEPT !.table[t] = Link(T, index, node)]
    BY <1>1, <2>1
  <2>3. index \in 0..(T.size - 1)
    BY <1>6, <1>9
  <2>4. \E u \in 0..1 : \E i \in 0..(expanded.table[u].size - 1) :
          outcome.dict = [expanded EXCEPT !.table[u] = Link(expanded.table[u], i, node)]
    BY <1>1, <1>5, <2>2, <2>3
  <2>5. QED BY <1>1, <1>2, <1>3, <1>9, <2>2, <2>4
<1>10. QED BY <1>7, <1>8, <1>9

(* An addition adds its node if it says so, and no other ever.             *)
LEMMA HeldByAdd ==
  ASSUME NEW d, IsSound(d), d.status = "live", NodeNumber(d) < MaxNodes,
         NEW k \in Key, NEW v \in Value \cup {Unset}, NEW C
  PROVE  /\ AddNode(d, k, v).added =>
              Held(AddNode(d, k, v).dict, C) =
                Held(d, C) + Has(C, [key |-> k, value |-> v])
         /\ ~AddNode(d, k, v).added => Held(AddNode(d, k, v).dict, C) = Held(d, C)
<1>1. PICK outcome, stepped, expanded, node :
        /\ outcome = AddNode(d, k, v) /\ stepped = RehashStep(d)
        /\ expanded = ExpandIfNeeded(stepped) /\ node = [key |-> k, value |-> v]
  OBVIOUS
<1>2. /\ IsSound(stepped) /\ IsSound(expanded) /\ NodeNumber(stepped) <= MaxNodes
      /\ \/ /\ ~outcome.added
            /\ outcome.dict \in {stepped, expanded, Fault(expanded, "add_null_slot"),
                                 Fault(expanded, "add_out_of_bounds")}
         \/ /\ outcome.added
            /\ \E t \in 0..1 : \E i \in 0..(expanded.table[t].size - 1) :
                 outcome.dict =
                   [expanded EXCEPT !.table[t] = Link(expanded.table[t], i, node)]
  BY <1>1, AddNodeOutcome, SMTT(40)
<1>3. Held(stepped, C) = Held(d, C)
  <2>1. Held(RehashSlots(d, 1), C) = Held(d, C)
    BY HeldByRehash
  <2>2. stepped = RehashSlots(d, 1)
    BY <1>1 DEF RehashStep
  <2>3. QED BY <2>1, <2>2, Zenon
<1>4. Held(expanded, C) = Held(d, C)
  BY <1>1, <1>2, <1>3, HeldByExpandIfNeeded
<1>5. CASE ~outcome.added
  <2>1. /\ Held(Fault(expanded, "add_null_slot"), C) = Held(d, C)
        /\ Held(Fault(expanded, "add_out_of_bounds"), C) = Held(d, C)
    BY <1>2, <1>4, HeldByFault
  <2>2. Held(outcome.dict, C) = Held(d, C)
    BY <1>2, <1>3, <1>4, <1>5, <2>1
  <2>3. QED BY <1>1, <1>5, <2>2
<1>6. CASE outcome.added
  <2>1. PICK t \in 0..1 : \E i \in 0..(expanded.table[t].size - 1) :
          outcome.dict = [expanded EXCEPT !.table[t] = Link(expanded.table[t], i, node)]
    BY <1>2, <1>6
  <2>a. PICK i \in 0..(expanded.table[t].size - 1) :
          outcome.dict = [expanded EXCEPT !.table[t] = Link(expanded.table[t], i, node)]
    BY <2>1
  <2>2. PICK U : /\ U = Link(expanded.table[t], i, node)
                 /\ outcome.dict = [expanded EXCEPT !.table[t] = U]
    BY <2>a
  <2>3. PICK T : T = expanded.table[t]
    OBVIOUS
  <2>4. IsCountedTable(T) /\ IsHashTable(T) /\ i \in 0..(T.size - 1)
    BY <1>2, <2>3, SoundTables
  <2>5. node \in HashTableNode
    BY <1>1 DEF HashTableNode
  <2>6. U = Link(T, i, node)
    BY <2>2, <2>3
  <2>7. IsHashTable(U)
    <3>1. IsCountedTable(Link(T, i, node))
      BY <2>4, <2>5, LinkCounted
    <3>2. QED BY <2>6, <3>1 DEF IsCountedTable
  <2>8. Cardinality(NodesIn(U, C)) = Cardinality(NodesIn(T, C)) + Has(C, node)
    <3>1. Cardinality(NodesIn(Link(T, i, node), C)) =
            Cardinality(NodesIn(T, C)) + Has(C, node)
      BY <2>4, <2>5, NodesOfLink
    <3>2. QED BY <2>6, <3>1
  <2>9. Held([expanded EXCEPT !.table[t] = U], C) + Cardinality(NodesIn(T, C)) =
          Held(expanded, C) + Cardinality(NodesIn(U, C))
    BY <1>2, <2>3, <2>7, HeldWithTable
  <2>10. /\ Held(expanded, C) \in Nat /\ Held(outcome.dict, C) \in Nat
         /\ Cardinality(NodesIn(T, C)) \in Nat
    <3>1. IsSound(outcome.dict)
      BY <1>1, AddNodeSound
    <3>2. QED BY <1>2, <2>4, <3>1, HeldIsNat, NodesOfTable
  <2>11. Has(C, node) \in Nat
    BY DEF Has
  <2>12. Held(outcome.dict, C) = Held(d, C) + Has(C, node)
    BY <1>4, <2>2, <2>8, <2>9, <2>10, <2>11
  <2>13. QED BY <1>1, <1>6, <2>12
<1>7. QED BY <1>5, <1>6

(* What a part of a call does to the nodes, whatever nodes one counts.     *)
SameNodes(d, e) == \A C : Held(e, C) = Held(d, C)

Gains(d, e, n) == \A C : Held(e, C) = Held(d, C) + Has(C, n)

Loses(d, e, n) == \A C : Held(d, C) = Held(e, C) + Has(C, n)

Swaps(d, e, old, new) ==
  \A C : Held(e, C) + Has(C, old) = Held(d, C) + Has(C, new)

Vacant(d) == \A C : Held(d, C) = 0

(* A call never leaves a dictionary that is absent, but for its release.   *)
LEMMA AddNodeStatus ==
  ASSUME NEW d, IsSound(d), d.status = "live", NodeNumber(d) < MaxNodes,
         NEW k \in Key, NEW v \in Value \cup {Unset}
  PROVE  /\ AddNode(d, k, v).dict.status \in {"live"} \cup Faults
         /\ AddNode(d, k, v).added => AddNode(d, k, v).dict.status = "live"
<1>1. PICK outcome, stepped, expanded, node :
        /\ outcome = AddNode(d, k, v) /\ stepped = RehashStep(d)
        /\ expanded = ExpandIfNeeded(stepped) /\ node = [key |-> k, value |-> v]
  OBVIOUS
<1>2. /\ IsSound(stepped) /\ IsSound(expanded) /\ NodeNumber(stepped) <= MaxNodes
      /\ \/ /\ ~outcome.added
            /\ outcome.dict \in {stepped, expanded, Fault(expanded, "add_null_slot"),
                                 Fault(expanded, "add_out_of_bounds")}
         \/ /\ outcome.added /\ stepped.status = "live"
            /\ \E t \in 0..1 : \E i \in 0..(expanded.table[t].size - 1) :
                 outcome.dict =
                   [expanded EXCEPT !.table[t] = Link(expanded.table[t], i, node)]
  BY <1>1, AddNodeOutcome, SMTT(40)
<1>3. stepped.status \in {"live", "rehash_out_of_bounds"}
  BY <1>1, RehashSlotsSound DEF RehashStep
<1>4. expanded.status = stepped.status
  BY <1>1, <1>2, ExpandIfNeededSound
<1>5. /\ Fault(expanded, "add_null_slot").status = "add_null_slot"
      /\ Fault(expanded, "add_out_of_bounds").status = "add_out_of_bounds"
  <2>1. {"add_null_slot", "add_out_of_bounds"} \subseteq Faults \ {"rehash_overrun"}
    BY DEF Faults
  <2>2. QED BY <1>2, <2>1, SoundFault
<1>6. CASE ~outcome.added
  BY <1>1, <1>2, <1>3, <1>4, <1>5, <1>6 DEF Faults
<1>7. CASE outcome.added
  <2>1. \E t \in 0..1 : \E i :
          outcome.dict = [expanded EXCEPT !.table[t] = Link(expanded.table[t], i, node)]
    BY <1>2, <1>7
  <2>2. expanded = [table        |-> [u \in 0..1 |-> expanded.table[u]],
                    rehash_index |-> expanded.rehash_index,
                    status       |-> expanded.status]
    BY <1>2 DEF IsSound, IsDictionary
  <2>3. outcome.dict.status = expanded.status
    <3>1. PICK t \in 0..1 : \E i :
            outcome.dict = [expanded EXCEPT !.table[t] = Link(expanded.table[t], i, node)]
      BY <2>1
    <3>2. PICK i :
            outcome.dict = [expanded EXCEPT !.table[t] = Link(expanded.table[t], i, node)]
      BY <3>1
    <3>3. QED BY <2>2, <3>2
  <2>4. stepped.status = "live"
    BY <1>2, <1>7
  <2>5. QED BY <1>1, <1>4, <2>3, <2>4
<1>8. QED BY <1>6, <1>7

-----------------------------------------------------------------------------
(* The account of references.                                              *)

WithKey(k) == {n \in HashTableNode : n.key = k}

OfValue(v) == {n \in HashTableNode : n.value = v}

(* One reference to the key and one to the value of each node.             *)
Accounts(d, refs) ==
  /\ \A k \in Key : refs.key[k] = Held(d, WithKey(k))
  /\ \A v \in Value \cup {Unset} : refs.value[v] = Held(d, OfValue(v))

LEMMA HasNode ==
  ASSUME NEW k \in Key, NEW v \in Value \cup {Unset}
  PROVE  /\ \A h \in Key : Has(WithKey(h), [key |-> k, value |-> v]) = IF h = k THEN 1 ELSE 0
         /\ \A w \in Value \cup {Unset} :
              Has(OfValue(w), [key |-> k, value |-> v]) = IF w = v THEN 1 ELSE 0
<1>1. PICK n \in HashTableNode : n = [key |-> k, value |-> v]
  BY DEF HashTableNode
<1>2. n.key = k /\ n.value = v
  BY <1>1
<1>3. \A h \in Key : n \in WithKey(h) <=> h = k
  BY <1>2 DEF WithKey
<1>4. \A w \in Value \cup {Unset} : n \in OfValue(w) <=> w = v
  BY <1>2 DEF OfValue
<1>5. QED BY <1>1, <1>3, <1>4 DEF Has

LEMMA AccountsSame ==
  ASSUME NEW d, NEW e, NEW refs, Accounts(d, refs), SameNodes(d, e)
  PROVE  Accounts(e, refs)
BY DEF Accounts, SameNodes

LEMMA AccountsGain ==
  ASSUME NEW d, NEW e, IsSound(d), NEW refs \in References, Accounts(d, refs),
         NEW k \in Key, NEW v \in Value \cup {Unset},
         Gains(d, e, [key |-> k, value |-> v])
  PROVE  Accounts(e, TakeBoth(refs, k, v))
<1>1. PICK n : n = [key |-> k, value |-> v]
  OBVIOUS
<1>2. refs.key \in [Key -> Int] /\ refs.value \in [Value \cup {Unset} -> Int]
  BY DEF References
<1>3. /\ TakeBoth(refs, k, v).key = [refs.key EXCEPT ![k] = @ + 1]
      /\ TakeBoth(refs, k, v).value = [refs.value EXCEPT ![v] = @ + 1]
  BY DEF TakeBoth, Acquire
<1>4. \A C : Held(e, C) = Held(d, C) + Has(C, n)
  BY <1>1 DEF Gains
<1>5. /\ \A h \in Key : Has(WithKey(h), n) = IF h = k THEN 1 ELSE 0
      /\ \A w \in Value \cup {Unset} : Has(OfValue(w), n) = IF w = v THEN 1 ELSE 0
  BY <1>1, HasNode
<1>6. ASSUME NEW h \in Key PROVE TakeBoth(refs, k, v).key[h] = Held(e, WithKey(h))
  <2>1. refs.key[h] = Held(d, WithKey(h)) /\ refs.key[h] \in Int
    BY <1>2 DEF Accounts
  <2>2. TakeBoth(refs, k, v).key[h] = refs.key[h] + (IF h = k THEN 1 ELSE 0)
    BY <1>2, <1>3
  <2>3. QED BY <1>4, <1>5, <2>1, <2>2
<1>7. ASSUME NEW w \in Value \cup {Unset}
      PROVE  TakeBoth(refs, k, v).value[w] = Held(e, OfValue(w))
  <2>1. refs.value[w] = Held(d, OfValue(w)) /\ refs.value[w] \in Int
    BY <1>2 DEF Accounts
  <2>2. TakeBoth(refs, k, v).value[w] = refs.value[w] + (IF w = v THEN 1 ELSE 0)
    BY <1>2, <1>3
  <2>3. QED BY <1>4, <1>5, <2>1, <2>2
<1>8. QED BY <1>6, <1>7 DEF Accounts

LEMMA AccountsLoss ==
  ASSUME NEW d, NEW e, IsSound(e), NEW refs \in References, Accounts(d, refs),
         NEW k \in Key, NEW v \in Value \cup {Unset},
         Loses(d, e, [key |-> k, value |-> v])
  PROVE  Accounts(e, GiveUpBoth(refs, k, v))
<1>1. PICK n : n = [key |-> k, value |-> v]
  OBVIOUS
<1>2. refs.key \in [Key -> Int] /\ refs.value \in [Value \cup {Unset} -> Int]
  BY DEF References
<1>3. /\ GiveUpBoth(refs, k, v).key = [refs.key EXCEPT ![k] = @ - 1]
      /\ GiveUpBoth(refs, k, v).value = [refs.value EXCEPT ![v] = @ - 1]
  BY DEF GiveUpBoth, Destroy
<1>4. \A C : Held(d, C) = Held(e, C) + Has(C, n) /\ Held(e, C) \in Nat
  BY <1>1, HeldIsNat DEF Loses
<1>5. /\ \A h \in Key : Has(WithKey(h), n) = IF h = k THEN 1 ELSE 0
      /\ \A w \in Value \cup {Unset} : Has(OfValue(w), n) = IF w = v THEN 1 ELSE 0
  BY <1>1, HasNode
<1>6. ASSUME NEW h \in Key PROVE GiveUpBoth(refs, k, v).key[h] = Held(e, WithKey(h))
  <2>1. refs.key[h] = Held(d, WithKey(h))
    BY DEF Accounts
  <2>2. GiveUpBoth(refs, k, v).key[h] = refs.key[h] - (IF h = k THEN 1 ELSE 0)
    BY <1>2, <1>3
  <2>3. Held(d, WithKey(h)) = Held(e, WithKey(h)) + (IF h = k THEN 1 ELSE 0)
        /\ Held(e, WithKey(h)) \in Nat
    BY <1>4, <1>5
  <2>4. QED BY <2>1, <2>2, <2>3
<1>7. ASSUME NEW w \in Value \cup {Unset}
      PROVE  GiveUpBoth(refs, k, v).value[w] = Held(e, OfValue(w))
  <2>1. refs.value[w] = Held(d, OfValue(w))
    BY DEF Accounts
  <2>2. GiveUpBoth(refs, k, v).value[w] = refs.value[w] - (IF w = v THEN 1 ELSE 0)
    BY <1>2, <1>3
  <2>3. Held(d, OfValue(w)) = Held(e, OfValue(w)) + (IF w = v THEN 1 ELSE 0)
        /\ Held(e, OfValue(w)) \in Nat
    BY <1>4, <1>5
  <2>4. QED BY <2>1, <2>2, <2>3
<1>8. QED BY <1>6, <1>7 DEF Accounts

(* The value that goes in and the one that comes out may be the same.      *)
LEMMA AccountsSwap ==
  ASSUME NEW d, NEW e, IsSound(d), IsSound(e),
         NEW refs \in References, Accounts(d, refs),
         NEW k \in Key, NEW old \in Value \cup {Unset}, NEW v \in Value,
         Swaps(d, e, [key |-> k, value |-> old], [key |-> k, value |-> v])
  PROVE  Accounts(e, SetThenFree(refs, v, old))
<1>1. PICK n, m : n = [key |-> k, value |-> old] /\ m = [key |-> k, value |-> v]
  OBVIOUS
<1>2. refs.key \in [Key -> Int] /\ refs.value \in [Value \cup {Unset} -> Int]
  BY DEF References
<1>3. /\ SetThenFree(refs, v, old).key = refs.key
      /\ SetThenFree(refs, v, old).value =
           [[refs.value EXCEPT ![v] = @ + 1] EXCEPT ![old] = @ - 1]
  BY DEF SetThenFree, Acquire, Destroy
<1>4. \A C : /\ Held(e, C) + Has(C, n) = Held(d, C) + Has(C, m)
             /\ Held(e, C) \in Nat /\ Held(d, C) \in Nat
  BY <1>1, HeldIsNat DEF Swaps
<1>5. /\ \A h \in Key : Has(WithKey(h), n) = IF h = k THEN 1 ELSE 0
      /\ \A w \in Value \cup {Unset} : Has(OfValue(w), n) = IF w = old THEN 1 ELSE 0
  BY <1>1, HasNode
<1>6. /\ \A h \in Key : Has(WithKey(h), m) = IF h = k THEN 1 ELSE 0
      /\ \A w \in Value \cup {Unset} : Has(OfValue(w), m) = IF w = v THEN 1 ELSE 0
  BY <1>1, HasNode
<1>7. ASSUME NEW h \in Key PROVE SetThenFree(refs, v, old).key[h] = Held(e, WithKey(h))
  <2>1. refs.key[h] = Held(d, WithKey(h))
    BY DEF Accounts
  <2>2. PICK x \in Nat : x = IF h = k THEN 1 ELSE 0
    OBVIOUS
  <2>3. /\ Held(e, WithKey(h)) + x = Held(d, WithKey(h)) + x
        /\ Held(e, WithKey(h)) \in Nat /\ Held(d, WithKey(h)) \in Nat
    BY <1>4, <1>5, <1>6, <2>2
  <2>4. QED BY <1>3, <2>1, <2>3
<1>8. ASSUME NEW w \in Value \cup {Unset}
      PROVE  SetThenFree(refs, v, old).value[w] = Held(e, OfValue(w))
  <2>1. refs.value[w] = Held(d, OfValue(w)) /\ refs.value[w] \in Int
    BY <1>2 DEF Accounts
  <2>2. PICK x \in Nat, y \in Nat : /\ x = (IF w = v THEN 1 ELSE 0)
                                    /\ y = (IF w = old THEN 1 ELSE 0)
    OBVIOUS
  <2>3. SetThenFree(refs, v, old).value[w] = (refs.value[w] + x) - y
    <3>1. PICK f : f = [refs.value EXCEPT ![v] = @ + 1]
      OBVIOUS
    <3>2. f \in [Value \cup {Unset} -> Int] /\ f[w] = refs.value[w] + x
      BY <1>2, <2>2, <3>1
    <3>3. [f EXCEPT ![old] = @ - 1][w] = f[w] - y
      BY <2>2, <3>2
    <3>4. QED BY <1>3, <3>1, <3>2, <3>3
  <2>4. /\ Held(e, OfValue(w)) + y = Held(d, OfValue(w)) + x
        /\ Held(e, OfValue(w)) \in Nat /\ Held(d, OfValue(w)) \in Nat
    BY <1>4, <1>5, <1>6, <2>2
  <2>5. QED BY <2>1, <2>2, <2>3, <2>4
<1>9. QED BY <1>7, <1>8 DEF Accounts

-----------------------------------------------------------------------------
(* The calls.                                                              *)

(* What DictionaryCreate() replaces has no node.                           *)
AbsentIsVacant(d) == d.status = "absent" => Vacant(d)

(* The inductive invariant.                                                *)
HoldInv ==
  /\ Inv
  /\ Accounts(dictionary, references)
  /\ AbsentIsVacant(dictionary)

LEMMA SameFault ==
  ASSUME NEW d, IsSound(d), NEW f \in Faults
  PROVE  /\ SameNodes(d, Fault(d, f)) /\ AbsentIsVacant(Fault(d, f))
<1>1. d = [table        |-> [u \in 0..1 |-> d.table[u]],
           rehash_index |-> d.rehash_index,
           status       |-> d.status]
  BY DEF IsSound, IsDictionary
<1>2. Fault(d, f).status = f /\ f # "absent"
  BY <1>1 DEF Fault, Faults
<1>3. SameNodes(d, Fault(d, f))
  BY HeldByFault DEF SameNodes
<1>4. QED BY <1>2, <1>3 DEF AbsentIsVacant

LEMMA SameByTouch ==
  ASSUME NEW d, IsSound(d), d.status = "live"
  PROVE  SameNodes(d, Touch(d)) /\ AbsentIsVacant(Touch(d))
<1>1. SameNodes(d, Touch(d))
  BY HeldByTouch DEF SameNodes
<1>2. Touch(d).status \in {d.status, "rehash_out_of_bounds"}
  BY TouchSound
<1>3. QED BY <1>1, <1>2 DEF AbsentIsVacant

(* DictionaryAddRaw(): one node more, or the same ones.                    *)
LEMMA AddNodeAccounts ==
  ASSUME NEW d, IsSound(d), d.status = "live", NodeNumber(d) < MaxNodes,
         NEW k \in Key, NEW v \in Value \cup {Unset},
         NEW refs \in References, Accounts(d, refs)
  PROVE  /\ Accounts(AddNode(d, k, v).dict,
                     IF AddNode(d, k, v).added THEN TakeBoth(refs, k, v) ELSE refs)
         /\ AbsentIsVacant(AddNode(d, k, v).dict)
<1>1. PICK outcome, e : outcome = AddNode(d, k, v) /\ e = outcome.dict
  OBVIOUS
<1>2. AbsentIsVacant(e)
  <2>1. e.status \in {"live"} \cup Faults
    BY <1>1, AddNodeStatus
  <2>2. QED BY <2>1 DEF AbsentIsVacant, Faults
<1>3. \A C : /\ outcome.added => Held(e, C) = Held(d, C) + Has(C, [key |-> k, value |-> v])
             /\ ~outcome.added => Held(e, C) = Held(d, C)
  BY <1>1, HeldByAdd
<1>4. CASE outcome.added
  <2>1. Gains(d, e, [key |-> k, value |-> v])
    BY <1>3, <1>4 DEF Gains
  <2>2. Accounts(e, TakeBoth(refs, k, v))
    BY <2>1, AccountsGain
  <2>3. QED BY <1>1, <1>2, <1>4, <2>2
<1>5. CASE ~outcome.added
  <2>1. SameNodes(d, e)
    BY <1>3, <1>5 DEF SameNodes
  <2>2. Accounts(e, refs)
    BY <2>1, AccountsSame
  <2>3. QED BY <1>1, <1>2, <1>5, <2>2
<1>6. QED BY <1>4, <1>5

(* DictionaryDelete().                                                     *)
LEMMA RemoveAccounts ==
  ASSUME NEW d, IsSound(d), NEW k \in Key, FoundIn(d, k) # -1,
         NEW refs \in References, Accounts(d, refs)
  PROVE  /\ Accounts(RemoveFound(d, k), GiveUpBoth(refs, k, LookUp(d, k)))
         /\ AbsentIsVacant(RemoveFound(d, k))
<1>1. PICK e, v : e = RemoveFound(d, k) /\ v = LookUp(d, k)
  OBVIOUS
<1>2. IsSound(e) /\ e.status = "live" /\ v \in Value \cup {Unset}
  BY <1>1, RemoveFoundSound, FoundValueType
<1>3. \A C : Held(d, C) = Held(e, C) + Has(C, [key |-> k, value |-> v])
  BY <1>1, HeldByRemove
<1>4. Loses(d, e, [key |-> k, value |-> v])
  BY <1>3 DEF Loses
<1>5. Accounts(e, GiveUpBoth(refs, k, v))
  BY <1>2, <1>4, AccountsLoss
<1>6. QED BY <1>1, <1>2, <1>5 DEF AbsentIsVacant

(* DictionaryReplace() of a value.                                         *)
LEMMA ReplaceAccounts ==
  ASSUME NEW d, IsSound(d), NEW k \in Key, FoundIn(d, k) # -1, NEW v \in Value,
         NEW refs \in References, Accounts(d, refs)
  PROVE  /\ Accounts(ReplaceFound(d, k, v), SetThenFree(refs, v, LookUp(d, k)))
         /\ AbsentIsVacant(ReplaceFound(d, k, v))
<1>1. PICK e, old : e = ReplaceFound(d, k, v) /\ old = LookUp(d, k)
  OBVIOUS
<1>2. IsSound(e) /\ e.status = "live" /\ old \in Value \cup {Unset}
  BY <1>1, ReplaceFoundSound, FoundValueType
<1>3. \A C : Held(e, C) + Has(C, [key |-> k, value |-> old]) =
               Held(d, C) + Has(C, [key |-> k, value |-> v])
  BY <1>1, HeldByReplace
<1>4. Swaps(d, e, [key |-> k, value |-> old], [key |-> k, value |-> v])
  BY <1>3 DEF Swaps
<1>5. Accounts(e, SetThenFree(refs, v, old))
  BY <1>2, <1>4, AccountsSwap
<1>6. QED BY <1>1, <1>2, <1>5 DEF AbsentIsVacant

(* DictionaryReplace(), its insertion and its lookup.                      *)
LEMMA ReplaceHolds ==
  ASSUME HoldInv, NEW k \in Key, NEW v \in Value, Replace(k, v)
  PROVE  Accounts(dictionary', references') /\ AbsentIsVacant(dictionary')
<1>1. PICK outcome, added, touched :
        /\ outcome = AddNode(dictionary, k, v) /\ added = outcome.dict
        /\ touched = Touch(added)
  OBVIOUS
<1>2. /\ IsSound(dictionary) /\ references \in References
      /\ Accounts(dictionary, references)
      /\ dictionary.status = "live" /\ NodeNumber(dictionary) < MaxNodes
  BY DEF HoldInv, Inv, Replace, IsLive
<1>3. /\ Accounts(added, IF outcome.added THEN TakeBoth(references, k, v)
                         ELSE references)
      /\ AbsentIsVacant(added)
  BY <1>1, <1>2, AddNodeAccounts
<1>4. IsSound(added)
  BY <1>1, <1>2, AddNodeSound
<1>5. \/ /\ dictionary' = added
         /\ references' = IF outcome.added THEN TakeBoth(references, k, v)
                          ELSE references
      \/ /\ ~outcome.added /\ added.status = "live"
         /\ dictionary' = IF touched.status # "live" THEN touched
                          ELSE IF FoundIn(touched, k) = -1
                          THEN Fault(touched, "replace_null_node")
                          ELSE ReplaceFound(touched, k, v)
         /\ references' = IF FoundIn(touched, k) = -1 THEN references
                          ELSE SetThenFree(references, v, LookUp(touched, k))
  BY <1>1 DEF Replace
<1>6. CASE /\ dictionary' = added
           /\ references' = IF outcome.added THEN TakeBoth(references, k, v)
                            ELSE references
  BY <1>3, <1>6
<1>7. CASE /\ ~outcome.added /\ added.status = "live"
           /\ dictionary' = IF touched.status # "live" THEN touched
                            ELSE IF FoundIn(touched, k) = -1
                            THEN Fault(touched, "replace_null_node")
                            ELSE ReplaceFound(touched, k, v)
           /\ references' = IF FoundIn(touched, k) = -1 THEN references
                            ELSE SetThenFree(references, v, LookUp(touched, k))
  <2>1. SameNodes(added, touched) /\ AbsentIsVacant(touched) /\ IsSound(touched)
    BY <1>1, <1>4, <1>7, SameByTouch, TouchSound
  <2>2. Accounts(touched, references)
    <3>1. Accounts(added, references)
      BY <1>3, <1>7
    <3>2. QED BY <2>1, <3>1, AccountsSame
  <2>3. CASE FoundIn(touched, k) = -1
    <3>1. "replace_null_node" \in Faults
      BY DEF Faults
    <3>2. /\ SameNodes(touched, Fault(touched, "replace_null_node"))
          /\ AbsentIsVacant(Fault(touched, "replace_null_node"))
      BY <2>1, <3>1, SameFault
    <3>3. Accounts(Fault(touched, "replace_null_node"), references)
      BY <2>2, <3>2, AccountsSame
    <3>4. QED BY <1>7, <2>1, <2>2, <2>3, <3>2, <3>3
  <2>4. CASE FoundIn(touched, k) # -1
    <3>1. touched.status = "live"
      BY <2>4 DEF FoundIn
    <3>2. /\ Accounts(ReplaceFound(touched, k, v),
                      SetThenFree(references, v, LookUp(touched, k)))
          /\ AbsentIsVacant(ReplaceFound(touched, k, v))
      BY <1>2, <2>1, <2>2, <2>4, ReplaceAccounts
    <3>3. QED BY <1>7, <2>4, <3>1, <3>2
  <2>5. QED BY <2>3, <2>4
<1>8. QED BY <1>5, <1>6, <1>7

(* One step per action of Next, and the stuttering step.                   *)
LEMMA HoldStep ==
  ASSUME HoldInv, [Next]_vars
  PROVE  Accounts(dictionary', references') /\ AbsentIsVacant(dictionary')
<1> DEFINE Goal == Accounts(dictionary', references') /\ AbsentIsVacant(dictionary')
<1>0. /\ IsSound(dictionary) /\ references \in References
      /\ Accounts(dictionary, references) /\ AbsentIsVacant(dictionary)
  BY DEF HoldInv, Inv
<1>a. ASSUME references' = references, SameNodes(dictionary, dictionary')
      PROVE  Accounts(dictionary', references')
  BY <1>0, <1>a, AccountsSame
<1>1. CASE Create
  <2>1. /\ dictionary' = NewDictionary("live") /\ references' = references
        /\ dictionary.status = "absent"
    BY <1>1 DEF Create
  <2>2. SameNodes(dictionary, dictionary')
    BY <1>0, <2>1, HeldByNew DEF SameNodes, Vacant, AbsentIsVacant
  <2>3. dictionary'.status = "live"
    BY <2>1 DEF NewDictionary
  <2>4. QED BY <1>a, <2>1, <2>2, <2>3 DEF AbsentIsVacant
<1>2. CASE Release
  <2>1. references' = references
    BY <1>2 DEF Release
  <2>2. CASE NodeNumber(dictionary) > 0
    <3>1. dictionary' = Fault(dictionary, "double_free") /\ "double_free" \in Faults
      BY <1>2, <2>2 DEF Release, Faults
    <3>2. QED BY <1>0, <1>a, <2>1, <3>1, SameFault
  <2>3. CASE ~(NodeNumber(dictionary) > 0)
    <3>1. dictionary' = NewDictionary("absent")
      BY <1>2, <2>3 DEF Release
    <3>2. \A C : Held(dictionary, C) = 0
      BY <1>0, <2>3, HeldByNone
    <3>3. SameNodes(dictionary, dictionary') /\ Vacant(dictionary')
      BY <3>1, <3>2, HeldByNew DEF SameNodes, Vacant
    <3>4. QED BY <1>a, <2>1, <3>3 DEF AbsentIsVacant
  <2>4. QED BY <2>2, <2>3
<1>3. CASE dictionary' = dictionary /\ references' = references
  BY <1>0, <1>3
<1>4. ASSUME NEW n \in RehashCounts, Rehash(n) PROVE Goal
  <2>1. /\ dictionary' = RehashSlots(dictionary, n) /\ references' = references
        /\ dictionary.status = "live"
    BY <1>4 DEF Rehash, IsLive
  <2>2. SameNodes(dictionary, RehashSlots(dictionary, n))
    BY <1>0, HeldByRehash DEF SameNodes
  <2>3. RehashSlots(dictionary, n).status
          \in {dictionary.status, "rehash_out_of_bounds"}
    BY <1>0, RehashSlotsSound
  <2>4. QED BY <1>a, <2>1, <2>2, <2>3 DEF AbsentIsVacant
<1>5. ASSUME NEW size \in ExpandSizes, Expand(size) PROVE Goal
  <2>1. references' = references /\ dictionary.status = "live"
    BY <1>5 DEF Expand, IsLive
  <2>2. CASE LargeEnough(size) = {}
    <3>1. dictionary' = Fault(dictionary, "size_overflow") /\ "size_overflow" \in Faults
      BY <1>5, <2>2 DEF Expand, Faults
    <3>2. QED BY <1>0, <1>a, <2>1, <3>1, SameFault
  <2>3. CASE LargeEnough(size) # {} /\ CanExpand(dictionary, size)
    <3>1. /\ dictionary' = ExpandTo(dictionary, size)
          /\ ~IsRehashing(dictionary)
          /\ \E s \in TableSizes : size <= s
      BY <1>5, <2>3 DEF Expand, CanExpand, LargeEnough
    <3>2. \A C : Held(ExpandTo(dictionary, size), C) = Held(dictionary, C)
      BY <1>0, <3>1, HeldByExpand
    <3>3. ExpandTo(dictionary, size).status = dictionary.status
      BY <1>0, <3>1, ExpandToSound
    <3>4. SameNodes(dictionary, dictionary')
      BY <3>1, <3>2 DEF SameNodes
    <3>5. QED BY <1>a, <2>1, <3>1, <3>3, <3>4 DEF AbsentIsVacant
  <2>4. CASE LargeEnough(size) # {} /\ ~CanExpand(dictionary, size)
    BY <1>3, <1>5, <2>4 DEF Expand
  <2>5. QED BY <2>2, <2>3, <2>4
<1>6. ASSUME NEW k \in Key, AddRaw(k) PROVE Goal
  <2>1. /\ dictionary.status = "live" /\ NodeNumber(dictionary) < MaxNodes
        /\ dictionary' = AddNode(dictionary, k, Unset).dict
        /\ references' = IF AddNode(dictionary, k, Unset).added
                         THEN TakeBoth(references, k, Unset) ELSE references
    BY <1>6 DEF AddRaw, IsLive
  <2>2. QED BY <1>0, <2>1, AddNodeAccounts
<1>7. ASSUME NEW k \in Key, NEW v \in Value, Add(k, v) PROVE Goal
  <2>1. /\ dictionary.status = "live" /\ NodeNumber(dictionary) < MaxNodes
        /\ dictionary' = AddNode(dictionary, k, v).dict
        /\ references' = IF AddNode(dictionary, k, v).added
                         THEN TakeBoth(references, k, v) ELSE references
    BY <1>7 DEF Add, IsLive
  <2>2. QED BY <1>0, <2>1, AddNodeAccounts
<1>8. ASSUME NEW k \in Key, Find(k) PROVE Goal
  <2>1. /\ dictionary' = Touch(dictionary) /\ references' = references
        /\ dictionary.status = "live"
    BY <1>8 DEF Find, IsLive
  <2>2. QED BY <1>0, <1>a, <2>1, SameByTouch
<1>9. ASSUME NEW k \in Key, NEW v \in Value, Replace(k, v) PROVE Goal
  BY <1>9, ReplaceHolds
<1>10. ASSUME NEW k \in Key, Delete(k) PROVE Goal
  <2>1. PICK touched : touched = Touch(dictionary)
    OBVIOUS
  <2>2. dictionary.status = "live"
    BY <1>10 DEF Delete, IsLive
  <2>3. SameNodes(dictionary, touched) /\ AbsentIsVacant(touched) /\ IsSound(touched)
    BY <1>0, <2>1, <2>2, SameByTouch, TouchSound
  <2>4. Accounts(touched, references)
    BY <1>0, <2>3, AccountsSame
  <2>5. \/ dictionary' = touched /\ references' = references
        \/ /\ FoundIn(touched, k) # -1
           /\ dictionary' = RemoveFound(touched, k)
           /\ references' = GiveUpBoth(references, k, LookUp(touched, k))
    BY <1>10, <2>1 DEF Delete
  <2>6. FoundIn(touched, k) # -1
          => /\ Accounts(RemoveFound(touched, k),
                         GiveUpBoth(references, k, LookUp(touched, k)))
             /\ AbsentIsVacant(RemoveFound(touched, k))
    BY <1>0, <2>3, <2>4, RemoveAccounts
  <2>7. QED BY <2>3, <2>4, <2>5, <2>6
<1>11. \/ dictionary' = dictionary /\ references' = references
       \/ Create \/ Release
       \/ (\E n \in RehashCounts : Rehash(n))
       \/ (\E size \in ExpandSizes : Expand(size))
       \/ (\E k \in Key : AddRaw(k) \/ Find(k) \/ Delete(k))
       \/ (\E k \in Key, v \in Value : Add(k, v) \/ Replace(k, v))
  BY DEF Next, vars, EnableResize, DisableResize
<1>12. QED
  BY <1>1, <1>2, <1>3, <1>4, <1>5, <1>6, <1>7, <1>8, <1>9, <1>10, <1>11

(* The two tables counted as one set of places.                            *)
LEMMA HeldIsCount ==
  ASSUME NEW d, IsSound(d), NEW C
  PROVE  Cardinality({p \in UNION {{t} \X Places(d.table[t]) : t \in 0..1} :
                        d.table[p[1]].slot[p[2][1]][p[2][2]] \in C}) = Held(d, C)
<1>1. PICK P, N0, N1, T, S, R :
        /\ P = UNION {{t} \X Places(d.table[t]) : t \in 0..1}
        /\ N0 = NodesIn(d.table[0], C) /\ N1 = NodesIn(d.table[1], C)
        /\ T = {p \in P : d.table[p[1]].slot[p[2][1]][p[2][2]] \in C}
        /\ S = {p \in T : p[1] = 0} /\ R = {p \in T : p[1] = 1}
  OBVIOUS
<1>2. /\ IsFiniteSet(N0) /\ IsFiniteSet(N1)
      /\ Cardinality(N0) \in Nat /\ Cardinality(N1) \in Nat
  BY <1>1, SoundTables, NodesOfTable
<1>3. \A p : p \in P <=> \E t \in 0..1 : \E q \in Places(d.table[t]) : p = <<t, q>>
  <2>1. P = UNION {{t} \X Places(d.table[t]) : t \in 0..1}
    BY <1>1
  <2>2. \A p : p \in P <=> \E t \in 0..1 : p \in {t} \X Places(d.table[t])
    BY <2>1
  <2>3. \A t : \A p : p \in {t} \X Places(d.table[t])
                        <=> \E q \in Places(d.table[t]) : p = <<t, q>>
    OBVIOUS
  <2>4. QED BY <2>2, <2>3
<1>4. \A p : p \in T <=>
        \E t \in 0..1 : \E q \in NodesIn(d.table[t], C) : p = <<t, q>>
  <2>1. ASSUME NEW t \in 0..1, NEW q \in Places(d.table[t])
        PROVE  <<t, q>> \in T <=> q \in NodesIn(d.table[t], C)
    <3>a. PICK p : p = <<t, q>>
      OBVIOUS
    <3>1. p = <<t, q>> /\ p[1] = t /\ p[2] = q
      BY <3>a
    <3>2. p \in P
      BY <1>3, <3>1
    <3>3. p \in T <=> d.table[t].slot[q[1]][q[2]] \in C
      BY <1>1, <3>1, <3>2
    <3>4. QED BY <3>1, <3>3 DEF NodesIn
  <2>2. \A t \in 0..1 : \A q \in NodesIn(d.table[t], C) : q \in Places(d.table[t])
    BY DEF NodesIn
  <2>3. \A p \in T : p \in P
    BY <1>1
  <2>4. QED BY <1>3, <2>1, <2>2, <2>3
<1>a. \A p : p \in T <=> (\E q \in N0 : p = <<0, q>>) \/ (\E q \in N1 : p = <<1, q>>)
  <2>1. \A t : t \in 0..1 <=> t = 0 \/ t = 1
    OBVIOUS
  <2>2. N0 = NodesIn(d.table[0], C) /\ N1 = NodesIn(d.table[1], C)
    BY <1>1
  <2>3. QED BY <1>4, <2>1, <2>2
<1>b. \A p : /\ p \in S <=> p \in T /\ p[1] = 0
             /\ p \in R <=> p \in T /\ p[1] = 1
  <2>1. S = {p \in T : p[1] = 0} /\ R = {p \in T : p[1] = 1}
    BY <1>1
  <2>2. QED BY <2>1
<1>c. \A q : <<0, q>>[1] = 0 /\ <<1, q>>[1] = 1
  OBVIOUS
<1>5. \A p : p \in S <=> \E q \in N0 : p = <<0, q>>
  <2>1. ASSUME NEW p, p \in S PROVE \E q \in N0 : p = <<0, q>>
    <3>1. p \in T /\ p[1] = 0
      <4>1. p \in S <=> p \in T /\ p[1] = 0
        BY <1>b, Zenon
      <4>2. QED BY <2>1, <4>1
    <3>2. ASSUME NEW q \in N1, p = <<1, q>> PROVE FALSE
      <4>1. p[1] = 1
        BY <1>c, <3>2
      <4>2. QED BY <3>1, <4>1
    <3>3. QED BY <1>a, <3>1, <3>2, Zenon
  <2>2. ASSUME NEW q \in N0 PROVE <<0, q>> \in S
    <3>1. PICK p : p = <<0, q>>
      OBVIOUS
    <3>2. p \in T /\ p[1] = 0
      BY <1>a, <1>c, <3>1, Zenon
    <3>3. p \in S <=> p \in T /\ p[1] = 0
      BY <1>b, Zenon
    <3>4. QED BY <3>1, <3>2, <3>3
  <2>3. QED BY <2>1, <2>2, Zenon
<1>6. \A p : p \in R <=> \E q \in N1 : p = <<1, q>>
  <2>1. ASSUME NEW p, p \in R PROVE \E q \in N1 : p = <<1, q>>
    <3>1. p \in T /\ p[1] = 1
      <4>1. p \in R <=> p \in T /\ p[1] = 1
        BY <1>b, Zenon
      <4>2. QED BY <2>1, <4>1
    <3>2. ASSUME NEW q \in N0, p = <<0, q>> PROVE FALSE
      <4>1. p[1] = 0
        BY <1>c, <3>2
      <4>2. QED BY <3>1, <4>1
    <3>3. QED BY <1>a, <3>1, <3>2, Zenon
  <2>2. ASSUME NEW q \in N1 PROVE <<1, q>> \in R
    <3>1. PICK p : p = <<1, q>>
      OBVIOUS
    <3>2. p \in T /\ p[1] = 1
      BY <1>a, <1>c, <3>1, Zenon
    <3>3. p \in R <=> p \in T /\ p[1] = 1
      BY <1>b, Zenon
    <3>4. QED BY <3>1, <3>2, <3>3
  <2>3. QED BY <2>1, <2>2, Zenon
<1>7. PICK f, g : f = [q \in N0 |-> <<0, q>>] /\ g = [q \in N1 |-> <<1, q>>]
  OBVIOUS
<1>8. Cardinality(R) = Cardinality(N1) /\ IsFiniteSet(R)
  <2>1. /\ g \in [N1 -> R]
        /\ \A x, y \in N1 : g[x] = g[y] => x = y
        /\ {} \subseteq R /\ \A x \in N1 : g[x] \notin {}
        /\ \A z \in R : z \in {} \/ \E x \in N1 : g[x] = z
    BY <1>6, <1>7
  <2>2. IsFiniteSet({}) /\ Cardinality({}) = 0
    BY FS_EmptySet
  <2>3. IsFiniteSet(R) /\ Cardinality(R) = Cardinality(N1) + Cardinality({})
    BY <1>2, <2>1, <2>2, PartAndImage
  <2>4. QED BY <1>2, <2>2, <2>3
<1>9. Cardinality(T) = Cardinality(N0) + Cardinality(R)
  <2>1. f \in [N0 -> T]
    <3>1. f = [q \in N0 |-> <<0, q>>]
      BY <1>7
    <3>2. \A q \in N0 : <<0, q>> \in T
      BY <1>a
    <3>3. QED BY <3>1, <3>2
  <2>2. \A x, y \in N0 : f[x] = f[y] => x = y
    BY <1>7
  <2>3. R \subseteq T
    BY <1>1
  <2>4. \A x \in N0 : f[x] \notin R
    BY <1>6, <1>7
  <2>5. \A z \in T : z \in R \/ \E x \in N0 : f[x] = z
    <3>1. \A q \in N0 : f[q] = <<0, q>>
      BY <1>7
    <3>2. QED BY <1>6, <1>a, <3>1
  <2>6. QED BY <1>2, <1>8, <2>1, <2>2, <2>3, <2>4, <2>5, PartAndImage
<1>10. QED BY <1>1, <1>2, <1>8, <1>9 DEF Held

(* Every place of a dictionary has a node.                                 *)
LEMMA PlacesHaveNodes ==
  ASSUME NEW d, IsSound(d)
  PROVE  \A p \in UNION {{t} \X Places(d.table[t]) : t \in 0..1} :
           d.table[p[1]].slot[p[2][1]][p[2][2]] \in HashTableNode
<1>1. ASSUME NEW t \in 0..1, NEW q \in Places(d.table[t])
      PROVE  d.table[t].slot[q[1]][q[2]] \in HashTableNode
  <2>1. PICK T : T = d.table[t] /\ IsHashTable(T)
    BY SoundTables DEF IsSound, IsDictionary
  <2>a. PICK i \in 0..(T.size - 1) : \E j \in 1..Len(T.slot[i]) : q = <<i, j>>
    <3>1. q \in Places(T)
      BY <2>1
    <3>2. \A p : p \in Places(T) <=>
            \E i \in 0..(T.size - 1) : \E j \in 1..Len(T.slot[i]) : p = <<i, j>>
      <4>1. IsHashTable(T)
        BY <2>1
      <4>2. QED BY <4>1, PlacesOfTable
    <3>3. QED BY <3>1, <3>2
  <2>2. PICK j \in 1..Len(T.slot[i]) : q = <<i, j>>
    BY <2>a
  <2>3. T.slot[i] \in Seq(HashTableNode)
    BY <2>1 DEF IsHashTable
  <2>4. T.slot[i][j] \in HashTableNode
    BY <2>3
  <2>5. QED BY <2>1, <2>2, <2>4
<1>2. ASSUME NEW p \in UNION {{t} \X Places(d.table[t]) : t \in 0..1}
      PROVE  p[1] \in 0..1 /\ p[2] \in Places(d.table[p[1]])
  OBVIOUS
<1>3. QED BY <1>1, <1>2

(* NodesHoldReferences of any dictionary.                                  *)
NodesHold(d, refs) ==
  LET places == UNION {{t} \X Places(d.table[t]) : t \in 0..1}
      At(p)  == d.table[p[1]].slot[p[2][1]][p[2][2]]
  IN  /\ \A k \in Key :
           refs.key[k] = Cardinality({p \in places : At(p).key = k})
      /\ \A v \in Value \cup {Unset} :
           refs.value[v] = Cardinality({p \in places : At(p).value = v})

LEMMA AccountsAreNodes ==
  ASSUME NEW d, IsSound(d), NEW refs, Accounts(d, refs)
  PROVE  NodesHold(d, refs)
<1> DEFINE places == UNION {{t} \X Places(d.table[t]) : t \in 0..1}
           At(p)  == d.table[p[1]].slot[p[2][1]][p[2][2]]
<1>1. \A p \in places : At(p) \in HashTableNode
  BY PlacesHaveNodes
<1>2. \A C : Cardinality({p \in places : At(p) \in C}) = Held(d, C)
  BY HeldIsCount
<1> HIDE DEF places, At
<1>3. ASSUME NEW k \in Key
      PROVE  refs.key[k] = Cardinality({p \in places : At(p).key = k})
  <2>1. {p \in places : At(p).key = k} = {p \in places : At(p) \in WithKey(k)}
    BY <1>1 DEF WithKey
  <2>2. refs.key[k] = Held(d, WithKey(k))
    BY DEF Accounts
  <2>3. QED BY <1>2, <2>1, <2>2
<1>4. ASSUME NEW v \in Value \cup {Unset}
      PROVE  refs.value[v] = Cardinality({p \in places : At(p).value = v})
  <2>1. {p \in places : At(p).value = v} = {p \in places : At(p) \in OfValue(v)}
    BY <1>1 DEF OfValue
  <2>2. refs.value[v] = Held(d, OfValue(v))
    BY DEF Accounts
  <2>3. QED BY <1>2, <2>1, <2>2
<1>5. QED BY <1>3, <1>4 DEF NodesHold, places, At

LEMMA HoldInit == Init => HoldInv
<1> SUFFICES ASSUME Init PROVE HoldInv
  OBVIOUS
<1>1. dictionary = NewDictionary("absent") /\ references = NoReferences
  BY DEF Init
<1>2. Vacant(dictionary)
  BY <1>1, HeldByNew DEF Vacant
<1>3. Accounts(dictionary, references)
  BY <1>1, <1>2 DEF Accounts, Vacant, NoReferences
<1>4. QED
  BY <1>2, <1>3, InvInit DEF HoldInv, AbsentIsVacant

LEMMA HoldNext == HoldInv /\ [Next]_vars => HoldInv'
<1> SUFFICES ASSUME HoldInv, [Next]_vars PROVE HoldInv'
  OBVIOUS
<1>1. Inv'
  BY InvNext DEF HoldInv
<1>2. Accounts(dictionary', references') /\ AbsentIsVacant(dictionary')
  BY HoldStep
<1>3. Accounts(dictionary, references)' /\ AbsentIsVacant(dictionary)'
  BY <1>2 DEF Accounts, AbsentIsVacant, Vacant, Held, NodesIn, Places
<1>4. QED
  BY <1>1, <1>3 DEF HoldInv

(* Every call leaves as many references to each key and to each value as   *)
(* nodes that hold it, whatever the hash function, the sizes and the       *)
(* bounds are: no step of a rehash loses or doubles a node, and a value    *)
(* replaced by itself is neither freed early nor leaked.                   *)
THEOREM ReferencesAreTheNodes == Spec => []NodesHoldReferences
<1>1. HoldInv => NodesHoldReferences
  <2> SUFFICES ASSUME HoldInv PROVE NodesHoldReferences
    OBVIOUS
  <2>2. IsSound(dictionary) /\ Accounts(dictionary, references)
    BY DEF HoldInv, Inv
  <2>3. NodesHold(dictionary, references)
    BY <2>2, AccountsAreNodes
  <2>4. QED BY <2>3 DEF NodesHold, NodesHoldReferences
<1>2. QED
  BY <1>1, HoldInit, HoldNext, PTL DEF Spec

-----------------------------------------------------------------------------
(* The bag of nodes that a dictionary is to its clients.                   *)

StatusOf(d) == IF d.status \in Faults THEN "broken" ELSE d.status

LEMMA CopiesAreHeld ==
  ASSUME NEW d, IsSound(d)
  PROVE  Copies(d) = [n \in HashTableNode |-> Held(d, {n})]
<1> DEFINE places == UNION {{t} \X Places(d.table[t]) : t \in 0..1}
           At(p)  == d.table[p[1]].slot[p[2][1]][p[2][2]]
<1>1. \A C : Cardinality({p \in places : At(p) \in C}) = Held(d, C)
  BY HeldIsCount
<1>2. Copies(d) = [n \in HashTableNode |-> Cardinality({p \in places : At(p) = n})]
  BY DEF Copies
<1> HIDE DEF places, At
<1>3. ASSUME NEW n
      PROVE  Cardinality({p \in places : At(p) = n}) = Held(d, {n})
  <2>1. {p \in places : At(p) = n} = {p \in places : At(p) \in {n}}
    OBVIOUS
  <2>2. QED BY <1>1, <2>1
<1>4. QED BY <1>2, <1>3

LEMMA CopiesOfSame ==
  ASSUME NEW d, NEW e, IsSound(d), IsSound(e), SameNodes(d, e)
  PROVE  Copies(e) = Copies(d)
BY CopiesAreHeld DEF SameNodes

LEMMA HasOne ==
  ASSUME NEW n, NEW m
  PROVE  Has({m}, n) = IF m = n THEN 1 ELSE 0
BY DEF Has

LEMMA CopiesOfGain ==
  ASSUME NEW d, NEW e, IsSound(d), IsSound(e), NEW n \in HashTableNode,
         Gains(d, e, n)
  PROVE  Copies(e) = [Copies(d) EXCEPT ![n] = @ + 1]
<1>1. /\ Copies(d) = [m \in HashTableNode |-> Held(d, {m})]
      /\ Copies(e) = [m \in HashTableNode |-> Held(e, {m})]
  BY CopiesAreHeld
<1>2. ASSUME NEW m \in HashTableNode
      PROVE  Held(e, {m}) = IF m = n THEN Held(d, {m}) + 1 ELSE Held(d, {m})
  <2>1. Held(d, {m}) \in Nat
    BY HeldIsNat
  <2>2. Held(e, {m}) = Held(d, {m}) + Has({m}, n)
    BY DEF Gains
  <2>3. Has({m}, n) = IF m = n THEN 1 ELSE 0
    BY HasOne
  <2>4. QED BY <2>1, <2>2, <2>3
<1>3. QED BY <1>1, <1>2

LEMMA CopiesOfLoss ==
  ASSUME NEW d, NEW e, IsSound(d), IsSound(e), NEW n \in HashTableNode,
         Loses(d, e, n)
  PROVE  Copies(e) = [Copies(d) EXCEPT ![n] = @ - 1]
<1>1. /\ Copies(d) = [m \in HashTableNode |-> Held(d, {m})]
      /\ Copies(e) = [m \in HashTableNode |-> Held(e, {m})]
  BY CopiesAreHeld
<1>2. ASSUME NEW m \in HashTableNode
      PROVE  Held(e, {m}) = IF m = n THEN Held(d, {m}) - 1 ELSE Held(d, {m})
  <2>1. Held(e, {m}) \in Nat
    BY HeldIsNat
  <2>2. Held(d, {m}) = Held(e, {m}) + Has({m}, n)
    BY DEF Loses
  <2>3. Has({m}, n) = IF m = n THEN 1 ELSE 0
    BY HasOne
  <2>4. QED BY <2>1, <2>2, <2>3
<1>3. QED BY <1>1, <1>2

LEMMA CopiesOfSwap ==
  ASSUME NEW d, NEW e, IsSound(d), IsSound(e),
         NEW old \in HashTableNode, NEW new \in HashTableNode,
         Swaps(d, e, old, new)
  PROVE  Copies(e) = [[Copies(d) EXCEPT ![old] = @ - 1] EXCEPT ![new] = @ + 1]
<1>1. /\ Copies(d) = [m \in HashTableNode |-> Held(d, {m})]
      /\ Copies(e) = [m \in HashTableNode |-> Held(e, {m})]
  BY CopiesAreHeld
<1>2. PICK c : c = [Copies(d) EXCEPT ![old] = @ - 1]
  OBVIOUS
<1>3. ASSUME NEW m \in HashTableNode
      PROVE  Held(e, {m}) = IF m = new THEN c[m] + 1 ELSE c[m]
  <2>1. Held(d, {m}) \in Nat /\ Held(e, {m}) \in Nat
    BY HeldIsNat
  <2>2. Held(e, {m}) + Has({m}, old) = Held(d, {m}) + Has({m}, new)
    BY DEF Swaps
  <2>3. c[m] = IF m = old THEN Held(d, {m}) - 1 ELSE Held(d, {m})
    BY <1>1, <1>2
  <2>4. Has({m}, old) = (IF m = old THEN 1 ELSE 0)
        /\ Has({m}, new) = (IF m = new THEN 1 ELSE 0)
    BY HasOne
  <2>5. QED BY <2>1, <2>2, <2>3, <2>4
<1>4. c \in [HashTableNode -> Int]
  <2>1. \A m \in HashTableNode : Held(d, {m}) \in Nat
    BY HeldIsNat
  <2>2. PICK h : h = Copies(d)
    OBVIOUS
  <2>3. h \in [HashTableNode -> Int]
    BY <1>1, <2>1, <2>2
  <2>4. QED BY <1>2, <2>2, <2>3
<1>5. Copies(e) = [c EXCEPT ![new] = @ + 1]
  BY <1>1, <1>3, <1>4
<1>6. QED BY <1>2, <1>5

LEMMA CopiesOfVacant ==
  ASSUME NEW d, IsSound(d), Vacant(d)
  PROVE  Copies(d) = [n \in HashTableNode |-> 0]
<1>1. Copies(d) = [n \in HashTableNode |-> Held(d, {n})]
  BY CopiesAreHeld
<1>2. \A n : Held(d, {n}) = 0
  BY DEF Vacant
<1>3. QED BY <1>1, <1>2

(* A node of a chain is a node of the bag.                                 *)
LEMMA ChainedIsCopied ==
  ASSUME NEW d, IsSound(d), NEW t \in 0..1,
         NEW i \in 0..(d.table[t].size - 1), NEW j \in 1..Len(d.table[t].slot[i])
  PROVE  /\ d.table[t].slot[i][j] \in HashTableNode
         /\ Copies(d)[d.table[t].slot[i][j]] > 0
<1>1. PICK T, n : T = d.table[t] /\ n = T.slot[i][j]
  OBVIOUS
<1>2. IsHashTable(T)
  <2>1. IsHashTable(d.table[t])
    BY DEF IsSound, IsDictionary
  <2>2. QED BY <1>1, <2>1
<1>3. n \in HashTableNode
  <2>1. T.slot[i] \in Seq(HashTableNode)
    BY <1>1, <1>2 DEF IsHashTable
  <2>2. QED BY <1>1, <2>1
<1>4. <<i, j>> \in NodesIn(T, {n})
  <2>1. j \in Hits(T.slot[i], {n})
    BY <1>1 DEF Hits
  <2>2. PICK C : C = {n}
    OBVIOUS
  <2>3. \A p : p \in NodesIn(T, C) <=>
          \E h \in 0..(T.size - 1) : \E g \in Hits(T.slot[h], C) : p = <<h, g>>
    BY <1>2, NodesOfTable
  <2>4. QED BY <1>1, <2>1, <2>2, <2>3
<1>5. IsFiniteSet(NodesIn(T, {n})) /\ Cardinality(NodesIn(T, {n})) \in Nat
  BY <1>2, NodesOfTable
<1>6. Cardinality(NodesIn(T, {n})) # 0
  BY <1>4, <1>5, FS_EmptySet
<1>7. Held(d, {n}) > 0
  <2>1. /\ Cardinality(NodesIn(d.table[0], {n})) \in Nat
        /\ Cardinality(NodesIn(d.table[1], {n})) \in Nat
    BY HeldIsNat
  <2>2. \/ Cardinality(NodesIn(d.table[0], {n})) # 0
        \/ Cardinality(NodesIn(d.table[1], {n})) # 0
    BY <1>1, <1>6
  <2>3. QED BY <2>1, <2>2 DEF Held
<1>8. QED BY <1>1, <1>3, <1>7, CopiesAreHeld

LEMMA FoundIsCopied ==
  ASSUME NEW d, IsSound(d), NEW k \in Key, FoundIn(d, k) # -1
  PROVE  /\ [key |-> k, value |-> LookUp(d, k)] \in HashTableNode
         /\ Copies(d)[[key |-> k, value |-> LookUp(d, k)]] > 0
<1>1. PICK n : n = [key |-> k, value |-> LookUp(d, k)]
  OBVIOUS
<1>2. n \in HashTableNode
  BY <1>1, FoundValueType DEF HashTableNode
<1>3. PICK e : e = RemoveFound(d, k) /\ IsSound(e)
  BY RemoveFoundSound
<1>4. Held(d, {n}) = Held(e, {n}) + Has({n}, n)
  BY <1>1, <1>3, HeldByRemove
<1>5. Held(e, {n}) \in Nat
  BY <1>3, HeldIsNat
<1>6. Has({n}, n) = 1
  BY DEF Has
<1>7. Held(d, {n}) > 0
  BY <1>4, <1>5, <1>6
<1>8. Copies(d)[n] = Held(d, {n})
  BY <1>2, CopiesAreHeld
<1>9. QED BY <1>1, <1>2, <1>7, <1>8

(* What made DictionaryAdd() refuse the key.                               *)
LEMMA RefusedIsCopied ==
  ASSUME NEW d, IsSound(d), d.status = "live", NodeNumber(d) < MaxNodes,
         NEW k \in Key, NEW v \in Value \cup {Unset},
         ~AddNode(d, k, v).added, AddNode(d, k, v).dict.status = "live"
  PROVE  \E n \in HashTableNode : n.key = k /\ Copies(AddNode(d, k, v).dict)[n] > 0
<1>1. PICK e : e = AddNode(d, k, v).dict
  OBVIOUS
<1>2. IsSound(e)
  BY <1>1, AddNodeSound
<1>3. e.table[0].size # 0 /\ FirstMatch(Chain(KeyTable(e), k), k) # 0
  BY <1>1, RefusalHasItsNode
<1>4. PICK t \in 0..1 : KeyTable(e) = e.table[t] /\ e.table[t].size > 0
  <2>1. e.table[0].size \in Nat
    BY <1>2, SoundTables
  <2>2. CASE IsRehashing(e)
    <3>1. e.table[1].size > 0
      BY <1>2, <2>2 DEF IsSound, Frontier
    <3>2. QED BY <2>2, <3>1 DEF KeyTable
  <2>3. CASE ~IsRehashing(e)
    BY <1>3, <2>1, <2>3 DEF KeyTable
  <2>4. QED BY <2>2, <2>3
<1>5. PICK T, i, j : /\ T = e.table[t] /\ i = SlotIndex(T, k)
                     /\ j = FirstMatch(T.slot[i], k)
  OBVIOUS
<1>6. IsHashTable(T) /\ T.size > 0
  <2>1. IsHashTable(e.table[t])
    BY <1>2 DEF IsSound, IsDictionary
  <2>2. QED BY <1>4, <1>5, <2>1
<1>7. i \in 0..(T.size - 1)
  BY <1>5, <1>6, SlotIndexInTable
<1>8. T.slot[i] \in Seq(HashTableNode)
  BY <1>6, <1>7 DEF IsHashTable
<1>9. FirstMatch(T.slot[i], k) # 0
  BY <1>3, <1>4, <1>5 DEF Chain
<1>10. j \in 1..Len(T.slot[i]) /\ T.slot[i][j].key = k
  BY <1>5, <1>8, <1>9, FirstMatchFinds
<1>11. T.slot[i][j] \in HashTableNode /\ Copies(e)[T.slot[i][j]] > 0
  BY <1>2, <1>5, <1>7, <1>10, ChainedIsCopied
<1>12. QED BY <1>1, <1>10, <1>11

-----------------------------------------------------------------------------
(* Each call is one of NodeStore's, or leaves the bag alone.               *)

LEMMA StatusesApart ==
  "live" \notin Faults /\ "absent" \notin Faults /\ "broken" \notin Faults
BY DEF Faults

LEMMA ImageOfNext ==
  /\ Copies(dictionary)' = Copies(dictionary')
  /\ StatusOf(dictionary)' = StatusOf(dictionary')
BY DEF Copies, Places, StatusOf

LEMMA StoreBreaks ==
  ASSUME IsLive, dictionary'.status \in Faults, Copies(dictionary') = Copies(dictionary)
  PROVE  Store!Break
BY StatusesApart, ImageOfNext DEF Store!Break, StatusOf, IsLive

LEMMA StoreStutters ==
  ASSUME dictionary'.status = dictionary.status,
         Copies(dictionary') = Copies(dictionary), result' = result
  PROVE  UNCHANGED Store!vars
BY ImageOfNext DEF Store!vars, StatusOf

LEMMA StoreStays ==
  ASSUME IsLive, dictionary'.status = "live"
  PROVE  /\ (IF dictionary.status \in Faults THEN "broken" ELSE dictionary.status) = "live"
         /\ (IF dictionary'.status \in Faults THEN "broken" ELSE dictionary'.status) = "live"
BY StatusesApart DEF IsLive

(* DictionaryAddRaw() and DictionaryAdd().                                 *)
LEMMA StoreInserts ==
  ASSUME Inv, IsSound(dictionary'), IsLive, NodeNumber(dictionary) < MaxNodes,
         NEW k \in Key, NEW v \in Value \cup {Unset}, NEW call, NEW refused,
         dictionary' = AddNode(dictionary, k, v).dict,
         result' = Reply(call, k, IF AddNode(dictionary, k, v).added THEN 1 ELSE refused)
  PROVE  Store!Break \/ Store!Insert(call, k, v, refused)
<1>1. PICK outcome, n : /\ outcome = AddNode(dictionary, k, v)
                        /\ n = [key |-> k, value |-> v]
  OBVIOUS
<1>2. IsSound(dictionary) /\ dictionary.status = "live" /\ n \in HashTableNode
  BY <1>1 DEF Inv, IsLive, HashTableNode
<1>3. /\ dictionary'.status \in {"live"} \cup Faults
      /\ outcome.added => dictionary'.status = "live"
  BY <1>1, <1>2, AddNodeStatus
<1>4. \A C : /\ outcome.added => Held(dictionary', C) = Held(dictionary, C) + Has(C, n)
             /\ ~outcome.added => Held(dictionary', C) = Held(dictionary, C)
  BY <1>1, <1>2, HeldByAdd
<1>5. CASE outcome.added
  <2>1. Gains(dictionary, dictionary', n)
    BY <1>4, <1>5 DEF Gains
  <2>2. Copies(dictionary') = [Copies(dictionary) EXCEPT ![n] = @ + 1]
    BY <1>2, <2>1, CopiesOfGain
  <2>3. result' = Reply(call, k, 1)
    BY <1>1, <1>5
  <2>4. /\ (IF dictionary.status \in Faults THEN "broken" ELSE dictionary.status) = "live"
        /\ (IF dictionary'.status \in Faults THEN "broken" ELSE dictionary'.status) = "live"
    BY <1>3, <1>5, StoreStays
  <2>5. QED
    BY <1>1, <2>2, <2>3, <2>4, ImageOfNext
       DEF Store!Insert, Store!Reply, Reply, Store!Plus, Store!NewNode
<1>6. CASE ~outcome.added
  <2>1. SameNodes(dictionary, dictionary')
    BY <1>4, <1>6 DEF SameNodes
  <2>2. Copies(dictionary') = Copies(dictionary)
    BY <1>2, <2>1, CopiesOfSame
  <2>3. CASE dictionary'.status \in Faults
    BY <2>2, <2>3, StoreBreaks
  <2>4. CASE dictionary'.status = "live"
    <3>1. \E m \in HashTableNode : m.key = k /\ Copies(dictionary')[m] > 0
      BY <1>1, <1>2, <1>6, <2>4, RefusedIsCopied
    <3>2. Store!NodesOf(k) # {}
      BY <2>2, <3>1 DEF Store!NodesOf, Store!Node, HashTableNode
    <3>3. result' = Reply(call, k, refused)
      BY <1>1, <1>6
    <3>4. /\ (IF dictionary.status \in Faults THEN "broken" ELSE dictionary.status) = "live"
          /\ (IF dictionary'.status \in Faults THEN "broken" ELSE dictionary'.status) = "live"
      BY <2>4, StoreStays
    <3>5. QED
      BY <2>2, <3>2, <3>3, <3>4, ImageOfNext DEF Store!Insert, Store!Reply, Reply
  <2>5. QED BY <1>3, <2>3, <2>4
<1>7. QED BY <1>5, <1>6

(* DictionaryFind().                                                       *)
LEMMA StoreLooksUp ==
  ASSUME Inv, NEW k \in Key, Find(k)
  PROVE  Store!Break \/ Store!Lookup(k)
<1>1. /\ IsSound(dictionary) /\ IsLive /\ dictionary.status = "live"
      /\ dictionary' = Touch(dictionary)
      /\ result' = Reply("Find", k, LookUp(dictionary', k))
  BY DEF Inv, Find, IsLive
<1>2. /\ IsSound(dictionary') /\ SameNodes(dictionary, dictionary')
      /\ dictionary'.status \in {"live", "rehash_out_of_bounds"}
  BY <1>1, TouchSound, SameByTouch
<1>3. Copies(dictionary') = Copies(dictionary)
  BY <1>1, <1>2, CopiesOfSame
<1>4. CASE dictionary'.status = "rehash_out_of_bounds"
  <2>1. dictionary'.status \in Faults
    BY <1>4 DEF Faults
  <2>2. QED BY <1>1, <1>3, <2>1, StoreBreaks
<1>5. CASE dictionary'.status = "live"
  <2>1. PICK v : v = LookUp(dictionary', k)
    OBVIOUS
  <2>2. /\ v \in Value \cup {Unset, NULL}
        /\ v # NULL => Copies(dictionary)[[key |-> k, value |-> v]] > 0
    <3>1. CASE FoundIn(dictionary', k) = -1
      BY <2>1, <3>1 DEF LookUp
    <3>2. CASE FoundIn(dictionary', k) # -1
      <4>1. v \in Value \cup {Unset}
        BY <1>2, <2>1, <3>2, FoundValueType
      <4>2. Copies(dictionary')[[key |-> k, value |-> v]] > 0
        BY <1>2, <2>1, <3>2, FoundIsCopied
      <4>3. QED BY <1>3, <4>1, <4>2
    <3>3. QED BY <3>1, <3>2
  <2>3. /\ (IF dictionary.status \in Faults THEN "broken" ELSE dictionary.status) = "live"
        /\ (IF dictionary'.status \in Faults THEN "broken" ELSE dictionary'.status) = "live"
    BY <1>1, <1>5, StoreStays
  <2>4. result' = Reply("Find", k, v)
    BY <1>1, <2>1
  <2>5. QED
    BY <1>3, <2>2, <2>3, <2>4, ImageOfNext
       DEF Store!Lookup, Store!Reply, Reply, Store!NewNode
<1>6. QED BY <1>2, <1>4, <1>5

(* DictionaryDelete().                                                     *)
LEMMA StoreRemoves ==
  ASSUME Inv, NEW k \in Key, Delete(k)
  PROVE  Store!Break \/ Store!Remove(k)
<1>1. PICK touched : touched = Touch(dictionary)
  OBVIOUS
<1>2. IsSound(dictionary) /\ IsLive /\ dictionary.status = "live"
  BY DEF Inv, Delete, IsLive
<1>3. /\ IsSound(touched) /\ SameNodes(dictionary, touched)
      /\ touched.status \in {"live", "rehash_out_of_bounds"}
  BY <1>1, <1>2, TouchSound, SameByTouch
<1>4. Copies(touched) = Copies(dictionary)
  BY <1>2, <1>3, CopiesOfSame
<1>5. \/ /\ dictionary' = touched
         /\ result' = Reply("Delete", k, 0)
      \/ /\ FoundIn(touched, k) # -1
         /\ dictionary' = RemoveFound(touched, k)
         /\ result' = Reply("Delete", k, 1)
  BY <1>1 DEF Delete
<1>6. CASE dictionary' = touched /\ touched.status = "rehash_out_of_bounds"
  <2>1. dictionary'.status \in Faults
    BY <1>6 DEF Faults
  <2>2. QED BY <1>2, <1>4, <1>6, <2>1, StoreBreaks
<1>7. CASE /\ dictionary' = touched /\ touched.status = "live"
           /\ result' = Reply("Delete", k, 0)
  <2>1. /\ (IF dictionary.status \in Faults THEN "broken" ELSE dictionary.status) = "live"
        /\ (IF dictionary'.status \in Faults THEN "broken" ELSE dictionary'.status) = "live"
    BY <1>2, <1>7, StoreStays
  <2>2. Copies(dictionary') = Copies(dictionary)
    BY <1>4, <1>7
  <2>3. QED
    BY <1>7, <2>1, <2>2, ImageOfNext DEF Store!Remove, Store!Reply, Reply
<1>8. CASE /\ FoundIn(touched, k) # -1
           /\ dictionary' = RemoveFound(touched, k)
           /\ result' = Reply("Delete", k, 1)
  <2>1. PICK n : n = [key |-> k, value |-> LookUp(touched, k)]
    OBVIOUS
  <2>2. /\ n \in HashTableNode /\ n.key = k
        /\ Copies(touched)[n] > 0
    BY <1>3, <1>8, <2>1, FoundIsCopied
  <2>3. IsSound(dictionary') /\ dictionary'.status = "live"
    BY <1>3, <1>8, RemoveFoundSound
  <2>4. \A C : Held(touched, C) = Held(dictionary', C) + Has(C, n)
    BY <1>3, <1>8, <2>1, HeldByRemove
  <2>5. Loses(touched, dictionary', n)
    BY <2>4 DEF Loses
  <2>6. Copies(dictionary') = [Copies(dictionary) EXCEPT ![n] = @ - 1]
    BY <1>3, <1>4, <2>2, <2>3, <2>5, CopiesOfLoss
  <2>7. n \in Store!NodesOf(k)
    BY <1>4, <2>2 DEF Store!NodesOf, Store!Node, HashTableNode
  <2>8. /\ (IF dictionary.status \in Faults THEN "broken" ELSE dictionary.status) = "live"
        /\ (IF dictionary'.status \in Faults THEN "broken" ELSE dictionary'.status) = "live"
    BY <1>2, <2>3, StoreStays
  <2>9. QED
    BY <1>8, <2>6, <2>7, <2>8, ImageOfNext DEF Store!Remove, Store!Minus, Store!Reply, Reply
<1>9. QED BY <1>3, <1>5, <1>6, <1>7, <1>8

(* DictionaryReplace().                                                    *)
LEMMA StorePuts ==
  ASSUME Inv, IsSound(dictionary'), NEW k \in Key, NEW v \in Value, Replace(k, v)
  PROVE  Store!Break \/ Store!Put(k, v)
<1>1. PICK outcome, added, touched :
        /\ outcome = AddNode(dictionary, k, v) /\ added = outcome.dict
        /\ touched = Touch(added)
  OBVIOUS
<1>2. /\ IsSound(dictionary) /\ IsLive /\ dictionary.status = "live"
      /\ NodeNumber(dictionary) < MaxNodes
  BY DEF Inv, Replace, IsLive
<1>3. /\ added.status \in {"live"} \cup Faults
      /\ outcome.added => added.status = "live"
  BY <1>1, <1>2, AddNodeStatus
<1>4. \A C : /\ outcome.added => Held(added, C) = Held(dictionary, C)
                                   + Has(C, [key |-> k, value |-> v])
             /\ ~outcome.added => Held(added, C) = Held(dictionary, C)
  BY <1>1, <1>2, HeldByAdd
<1>a. PICK n : n = [key |-> k, value |-> v]
  OBVIOUS
<1>5. n = [key |-> k, value |-> v] /\ n \in HashTableNode
  BY <1>a DEF HashTableNode
<1>6. IsSound(added)
  BY <1>1, <1>2, AddNodeSound
<1>7. \/ /\ outcome.added \/ added.status # "live"
         /\ dictionary' = added /\ result' = Reply("Replace", k, 1)
      \/ /\ ~outcome.added /\ added.status = "live"
         /\ dictionary' = IF touched.status # "live" THEN touched
                          ELSE IF FoundIn(touched, k) = -1
                          THEN Fault(touched, "replace_null_node")
                          ELSE ReplaceFound(touched, k, v)
         /\ result' = Reply("Replace", k, 0)
  BY <1>1 DEF Replace
<1>8. ~outcome.added => Copies(added) = Copies(dictionary)
  <2>1. ~outcome.added => SameNodes(dictionary, added)
    BY <1>4 DEF SameNodes
  <2>2. QED BY <1>2, <1>6, <2>1, CopiesOfSame
<1>9. CASE /\ outcome.added
           /\ dictionary' = added /\ result' = Reply("Replace", k, 1)
  <2>1. Gains(dictionary, added, n)
    BY <1>4, <1>5, <1>9 DEF Gains
  <2>2. Copies(dictionary') = [Copies(dictionary) EXCEPT ![n] = @ + 1]
    BY <1>2, <1>5, <1>6, <1>9, <2>1, CopiesOfGain
  <2>3. /\ (IF dictionary.status \in Faults THEN "broken" ELSE dictionary.status) = "live"
        /\ (IF dictionary'.status \in Faults THEN "broken" ELSE dictionary'.status) = "live"
    BY <1>2, <1>3, <1>9, StoreStays
  <2>4. QED
    BY <1>5, <1>9, <2>2, <2>3, ImageOfNext
       DEF Store!Put, Store!Reply, Reply, Store!Plus, Store!NewNode
<1>10. CASE /\ ~outcome.added /\ added.status # "live"
            /\ dictionary' = added
  <2>1. dictionary'.status \in Faults
    BY <1>3, <1>10
  <2>2. QED BY <1>2, <1>8, <1>10, <2>1, StoreBreaks
<1>11. CASE /\ ~outcome.added /\ added.status = "live"
            /\ dictionary' = IF touched.status # "live" THEN touched
                             ELSE IF FoundIn(touched, k) = -1
                             THEN Fault(touched, "replace_null_node")
                             ELSE ReplaceFound(touched, k, v)
            /\ result' = Reply("Replace", k, 0)
  <2>1. /\ IsSound(touched) /\ SameNodes(added, touched)
        /\ touched.status \in {"live", "rehash_out_of_bounds"}
    BY <1>1, <1>6, <1>11, TouchSound, SameByTouch
  <2>2. Copies(touched) = Copies(dictionary)
    BY <1>6, <1>8, <1>11, <2>1, CopiesOfSame
  <2>3. CASE touched.status # "live"
    <3>1. dictionary' = touched /\ dictionary'.status \in Faults
      BY <1>11, <2>1, <2>3 DEF Faults
    <3>2. QED BY <1>2, <2>2, <3>1, StoreBreaks
  <2>4. CASE touched.status = "live" /\ FoundIn(touched, k) = -1
    <3>1. dictionary' = Fault(touched, "replace_null_node")
      BY <1>11, <2>4
    <3>2. "replace_null_node" \in Faults \ {"rehash_overrun"}
      BY DEF Faults
    <3>3. /\ dictionary'.status \in Faults
          /\ SameNodes(touched, dictionary')
      BY <2>1, <3>1, <3>2, SoundFault, SameFault
    <3>4. Copies(dictionary') = Copies(dictionary)
      BY <2>1, <2>2, <3>3, CopiesOfSame
    <3>5. QED BY <1>2, <3>3, <3>4, StoreBreaks
  <2>5. CASE touched.status = "live" /\ FoundIn(touched, k) # -1
    <3>1. dictionary' = ReplaceFound(touched, k, v) /\ dictionary'.status = "live"
      BY <1>11, <2>1, <2>5, ReplaceFoundSound
    <3>2. PICK old : old = [key |-> k, value |-> LookUp(touched, k)]
      OBVIOUS
    <3>3. old \in HashTableNode /\ old.key = k /\ Copies(touched)[old] > 0
      BY <2>1, <2>5, <3>2, FoundIsCopied
    <3>4. \A C : Held(dictionary', C) + Has(C, old) = Held(touched, C) + Has(C, n)
      BY <1>5, <2>1, <2>5, <3>1, <3>2, HeldByReplace
    <3>5. Swaps(touched, dictionary', old, n)
      BY <3>4 DEF Swaps
    <3>6. Copies(dictionary')
            = [[Copies(dictionary) EXCEPT ![old] = @ - 1] EXCEPT ![n] = @ + 1]
      BY <1>5, <2>1, <2>2, <3>3, <3>5, CopiesOfSwap
    <3>7. old \in Store!NodesOf(k)
      BY <2>2, <3>3 DEF Store!NodesOf, Store!Node, HashTableNode
    <3>8. /\ (IF dictionary.status \in Faults THEN "broken" ELSE dictionary.status) = "live"
          /\ (IF dictionary'.status \in Faults THEN "broken" ELSE dictionary'.status) = "live"
      BY <1>2, <3>1, StoreStays
    <3>9. Copies(dictionary') = Store!Plus(Store!Minus(Copies(dictionary), old),
                                           Store!NewNode(k, v))
      BY <1>5, <3>6 DEF Store!Plus, Store!Minus, Store!NewNode
    <3>10. QED
      BY <1>11, <3>7, <3>8, <3>9, ImageOfNext DEF Store!Put, Store!Reply, Reply
  <2>6. QED BY <2>3, <2>4, <2>5
<1>12. QED BY <1>7, <1>9, <1>10, <1>11

(* DictionaryCreate() and DictionaryRelease().                             *)
LEMMA StoreOpensOrCloses ==
  ASSUME HoldInv, IsSound(dictionary'), Create \/ Release
  PROVE  Store!Break \/ Store!Open \/ Store!Close
<1>1. IsSound(dictionary) /\ AbsentIsVacant(dictionary)
  BY DEF HoldInv, Inv
<1>2. ASSUME NEW s \in {"live", "absent"}, dictionary' = NewDictionary(s)
      PROVE  /\ dictionary'.status = s
             /\ Copies(dictionary') = [n \in HashTableNode |-> 0]
  <2>1. Vacant(dictionary')
    BY <1>2, HeldByNew DEF Vacant
  <2>2. QED BY <1>2, <2>1, CopiesOfVacant DEF NewDictionary
<1>3. CASE Create
  <2>1. dictionary.status = "absent" /\ dictionary' = NewDictionary("live")
        /\ result' = result
    BY <1>3 DEF Create
  <2>2. /\ dictionary'.status = "live"
        /\ Copies(dictionary') = [n \in HashTableNode |-> 0]
    BY <1>2, <2>1
  <2>3. QED
    BY <2>1, <2>2, StatusesApart, ImageOfNext
       DEF Store!Open, Store!Nothing, Store!Node, HashTableNode
<1>4. CASE Release
  <2>1. IsLive /\ result' = result /\ dictionary.status = "live"
    BY <1>4 DEF Release, IsLive
  <2>2. CASE NodeNumber(dictionary) > 0
    <3>1. dictionary' = Fault(dictionary, "double_free")
      BY <1>4, <2>2 DEF Release
    <3>2. "double_free" \in Faults \ {"rehash_overrun"}
      BY DEF Faults
    <3>3. dictionary'.status \in Faults /\ SameNodes(dictionary, dictionary')
      BY <1>1, <3>1, <3>2, SoundFault, SameFault
    <3>4. Copies(dictionary') = Copies(dictionary)
      BY <1>1, <3>3, CopiesOfSame
    <3>5. QED BY <2>1, <3>3, <3>4, StoreBreaks
  <2>3. CASE ~(NodeNumber(dictionary) > 0)
    <3>1. dictionary' = NewDictionary("absent")
      BY <1>4, <2>3 DEF Release
    <3>2. Vacant(dictionary)
      BY <1>1, <2>3, HeldByNone DEF Vacant
    <3>3. /\ dictionary'.status = "absent"
          /\ Copies(dictionary') = [n \in HashTableNode |-> 0]
      BY <1>2, <3>1
    <3>4. Copies(dictionary) = [n \in HashTableNode |-> 0]
      BY <1>1, <3>2, CopiesOfVacant
    <3>5. QED
      BY <2>1, <3>3, <3>4, StatusesApart, ImageOfNext
         DEF Store!Close, Store!Nothing, Store!Node, HashTableNode
  <2>4. QED BY <2>2, <2>3
<1>5. QED BY <1>3, <1>4

(* One step per action of Next, and the stuttering step.                   *)
LEMMA StoreStep ==
  ASSUME HoldInv, [Next]_vars
  PROVE  [Store!Next]_Store!vars
<1> DEFINE Goal == Store!Next \/ UNCHANGED Store!vars
<1>0. Inv /\ IsSound(dictionary)
  BY DEF HoldInv, Inv
<1>a. IsSound(dictionary')
  <2>1. Inv'
    BY <1>0, InvNext
  <2>2. IsSound(dictionary)'
    BY <2>1 DEF Inv
  <2>3. QED BY <2>2 DEF IsSound, IsDictionary, IsHashTable, CountsMatch, Places,
                       Frontier, IsRehashing
<1>b. Store!Break => Goal
  BY DEF Store!Next
<1>c. ASSUME dictionary'.status = dictionary.status, SameNodes(dictionary, dictionary'),
             result' = result
      PROVE  Goal
  <2>1. Copies(dictionary') = Copies(dictionary)
    BY <1>0, <1>a, <1>c, CopiesOfSame
  <2>2. UNCHANGED Store!vars
    BY <1>c, <2>1, StoreStutters
  <2>3. QED BY <2>2
<1>d. ASSUME IsLive, dictionary'.status \in Faults, SameNodes(dictionary, dictionary')
      PROVE  Goal
  <2>1. Copies(dictionary') = Copies(dictionary)
    BY <1>0, <1>a, <1>d, CopiesOfSame
  <2>2. QED BY <1>b, <1>d, <2>1, StoreBreaks
<1>1. CASE Create \/ Release
  BY <1>1, <1>a, StoreOpensOrCloses DEF Store!Next
<1>2. CASE dictionary' = dictionary /\ result' = result
  <2>1. SameNodes(dictionary, dictionary)
    BY DEF SameNodes
  <2>2. QED BY <1>c, <1>2, <2>1
<1>3. ASSUME NEW m \in RehashCounts, Rehash(m) PROVE Goal
  <2>1. /\ dictionary' = RehashSlots(dictionary, m) /\ result' = result
        /\ dictionary.status = "live" /\ IsLive
    BY <1>3 DEF Rehash, IsLive
  <2>2. SameNodes(dictionary, dictionary')
    BY <1>0, <2>1, HeldByRehash DEF SameNodes
  <2>3. dictionary'.status \in {dictionary.status, "rehash_out_of_bounds"}
    BY <1>0, <2>1, RehashSlotsSound
  <2>4. "rehash_out_of_bounds" \in Faults
    BY DEF Faults
  <2>5. QED BY <1>c, <1>d, <2>1, <2>2, <2>3, <2>4
<1>4. ASSUME NEW size \in ExpandSizes, Expand(size) PROVE Goal
  <2>1. result' = result /\ IsLive
    BY <1>4 DEF Expand
  <2>2. CASE LargeEnough(size) = {}
    <3>1. /\ dictionary' = Fault(dictionary, "size_overflow")
          /\ "size_overflow" \in Faults \ {"rehash_overrun"}
      BY <1>4, <2>2 DEF Expand, Faults
    <3>2. dictionary'.status \in Faults /\ SameNodes(dictionary, dictionary')
      BY <1>0, <3>1, SoundFault, SameFault
    <3>3. QED BY <1>d, <2>1, <3>2
  <2>3. CASE LargeEnough(size) # {} /\ CanExpand(dictionary, size)
    <3>1. /\ dictionary' = ExpandTo(dictionary, size)
          /\ ~IsRehashing(dictionary)
          /\ \E s \in TableSizes : size <= s
      BY <1>4, <2>3 DEF Expand, CanExpand, LargeEnough
    <3>2. \A C : Held(ExpandTo(dictionary, size), C) = Held(dictionary, C)
      BY <1>0, <3>1, HeldByExpand
    <3>3. ExpandTo(dictionary, size).status = dictionary.status
      BY <1>0, <3>1, ExpandToSound
    <3>4. SameNodes(dictionary, dictionary')
      BY <3>1, <3>2 DEF SameNodes
    <3>5. QED BY <1>c, <2>1, <3>1, <3>3, <3>4
  <2>4. CASE LargeEnough(size) # {} /\ ~CanExpand(dictionary, size)
    BY <1>2, <1>4, <2>4 DEF Expand
  <2>5. QED BY <2>2, <2>3, <2>4
<1>5. ASSUME NEW k \in Key, AddRaw(k) PROVE Goal
  <2>1. /\ IsLive /\ NodeNumber(dictionary) < MaxNodes
        /\ dictionary' = AddNode(dictionary, k, Unset).dict
        /\ result' = Reply("AddRaw", k, IF AddNode(dictionary, k, Unset).added
                                        THEN 1 ELSE NULL)
    BY <1>5 DEF AddRaw
  <2>2. Store!Break \/ Store!Insert("AddRaw", k, Unset, NULL)
    BY <1>0, <1>a, <2>1, StoreInserts
  <2>3. QED BY <2>2 DEF Store!Next
<1>6. ASSUME NEW k \in Key, NEW v \in Value, Add(k, v) PROVE Goal
  <2>1. /\ IsLive /\ NodeNumber(dictionary) < MaxNodes
        /\ dictionary' = AddNode(dictionary, k, v).dict
        /\ result' = Reply("Add", k, IF AddNode(dictionary, k, v).added
                                     THEN 1 ELSE 0)
    BY <1>6 DEF Add
  <2>2. Store!Break \/ Store!Insert("Add", k, v, 0)
    BY <1>0, <1>a, <2>1, StoreInserts
  <2>3. QED BY <2>2 DEF Store!Next
<1>7. ASSUME NEW k \in Key, Find(k) PROVE Goal
  BY <1>0, <1>7, StoreLooksUp DEF Store!Next
<1>8. ASSUME NEW k \in Key, NEW v \in Value, Replace(k, v) PROVE Goal
  BY <1>0, <1>a, <1>8, StorePuts DEF Store!Next
<1>9. ASSUME NEW k \in Key, Delete(k) PROVE Goal
  BY <1>0, <1>9, StoreRemoves DEF Store!Next
<1>10. \/ dictionary' = dictionary /\ result' = result
       \/ Create \/ Release
       \/ (\E m \in RehashCounts : Rehash(m))
       \/ (\E size \in ExpandSizes : Expand(size))
       \/ (\E k \in Key : AddRaw(k) \/ Find(k) \/ Delete(k))
       \/ (\E k \in Key, v \in Value : Add(k, v) \/ Replace(k, v))
  BY DEF Next, vars, EnableResize, DisableResize
<1>11. QED
  BY <1>1, <1>2, <1>3, <1>4, <1>5, <1>6, <1>7, <1>8, <1>9, <1>10

LEMMA StoreInit == Init => Store!Init
<1> SUFFICES ASSUME Init PROVE Store!Init
  OBVIOUS
<1>1. dictionary = NewDictionary("absent") /\ result = NULL
  BY DEF Init
<1>2. dictionary.status = "absent" /\ Vacant(dictionary)
  BY <1>1, HeldByNew DEF Vacant, NewDictionary
<1>3. IsSound(dictionary)
  BY InvInit DEF Inv
<1>4. Copies(dictionary) = [n \in HashTableNode |-> 0]
  BY <1>2, <1>3, CopiesOfVacant
<1>5. QED
  BY <1>1, <1>2, <1>4, StatusesApart
     DEF Store!Init, Store!Nothing, Store!Node, HashTableNode

(* Through every interleaving of calls with the rehash, a dictionary of    *)
(* any hash function and any sizes is the bag of nodes that NodeStore      *)
(* promises its clients: the nodes a call adds, changes and removes are of *)
(* its own key, and its result says which.                                 *)
THEOREM DictionaryImplementsStore == Spec => ImplementsNodeStore
<1>1. HoldInv /\ [Next]_vars => [Store!Next]_Store!vars
  BY StoreStep
<1>2. QED
  BY <1>1, StoreInit, HoldInit, HoldNext, PTL DEF Spec, ImplementsNodeStore, Store!Spec

-----------------------------------------------------------------------------
(* The associative array.  As long as the first table has as many slots as *)
(* the dictionary may get nodes, and no larger table is asked for, no      *)
(* rehash starts; then no chain gets a key twice, and the search of one    *)
(* chain decides what every call answers.                                  *)

(* The bounds of a dictionary in which no rehash ever starts, those of the *)
(* run that checks ImplementsMap among them.                               *)
StaysSmall ==
  /\ MaxNodes <= InitialSize
  /\ \A size \in ExpandSizes : size <= InitialSize

NoTwins(chain) == \A k \in Key : Cardinality(Hits(chain, WithKey(k))) <= 1

(* What the search of the chain returns for k.                             *)
Answers(chain, k, v) ==
  FirstMatch(chain, k) # 0 /\ chain[FirstMatch(chain, k)].value = v

(* The two chains are the same to a search for k.                          *)
AnswerAlike(a, b, k) ==
  /\ FirstMatch(a, k) = 0 <=> FirstMatch(b, k) = 0
  /\ \A v : Answers(a, k, v) <=> Answers(b, k, v)

LEMMA SearchOfChain ==
  ASSUME NEW chain \in Seq(HashTableNode), NoTwins(chain), NEW k \in Key
  PROVE  /\ FirstMatch(chain, k) = 0 <=> Cardinality(Hits(chain, WithKey(k))) = 0
         /\ \A v \in Value \cup {Unset} :
              Answers(chain, k, v) <=>
                Cardinality(Hits(chain, {[key |-> k, value |-> v]})) > 0
<1>1. PICK j : j = FirstMatch(chain, k)
  OBVIOUS
<1>2. /\ j \in 0..Len(chain)
      /\ j # 0 => chain[j].key = k
      /\ j = 0 => \A i \in 1..Len(chain) : chain[i].key # k
  BY <1>1, FirstMatchFinds
<1>3. PICK S : S = Hits(chain, WithKey(k))
  OBVIOUS
<1>4. \A i : i \in S <=> i \in 1..Len(chain) /\ chain[i].key = k
  <2>1. \A i \in 1..Len(chain) : chain[i] \in HashTableNode
    OBVIOUS
  <2>2. QED BY <1>3, <2>1 DEF Hits, WithKey
<1>5. IsFiniteSet(S) /\ Cardinality(S) \in Nat /\ Cardinality(S) <= 1
  BY <1>3, HitsFinite DEF NoTwins
<1>6. j = 0 <=> Cardinality(S) = 0
  <2>1. j = 0 <=> S = {}
    <3>1. CASE j = 0
      BY <1>2, <1>4, <3>1
    <3>2. CASE j # 0
      <4>1. j \in S
        BY <1>2, <1>4, <3>2
      <4>2. QED BY <3>2, <4>1
    <3>3. QED BY <3>1, <3>2
  <2>2. QED BY <1>5, <2>1, FS_EmptySet
<1>7. \A x, y \in S : x = y
  <2> SUFFICES ASSUME NEW x \in S, NEW y \in S, x # y PROVE FALSE
    OBVIOUS
  <2>1. IsFiniteSet(S \ {x}) /\ Cardinality(S \ {x}) = Cardinality(S) - 1
    BY <1>5, FS_RemoveElement
  <2>2. Cardinality(S \ {x}) # 0
    <3>1. S \ {x} # {}
      OBVIOUS
    <3>2. QED BY <2>1, <3>1, FS_EmptySet
  <2>3. Cardinality(S \ {x}) \in Nat
    BY <2>1, FS_CardinalityType
  <2>4. QED BY <1>5, <2>1, <2>2, <2>3
<1>8. ASSUME NEW v \in Value \cup {Unset}
      PROVE  Answers(chain, k, v) <=>
               Cardinality(Hits(chain, {[key |-> k, value |-> v]})) > 0
  <2>1. PICK n, R : n = [key |-> k, value |-> v] /\ R = Hits(chain, {n})
    OBVIOUS
  <2>2. n.key = k /\ n.value = v
    BY <2>1
  <2>3. IsFiniteSet(R) /\ Cardinality(R) \in Nat
    BY <2>1, HitsFinite
  <2>4. \A i : i \in R <=> i \in 1..Len(chain) /\ chain[i] = n
    BY <2>1 DEF Hits
  <2>5. Cardinality(R) > 0 <=> R # {}
    BY <2>3, FS_EmptySet
  <2>6. ASSUME Answers(chain, k, v) PROVE R # {}
    <3>1. j \in 1..Len(chain) /\ chain[j].key = k /\ chain[j].value = v
      BY <1>1, <1>2, <2>6 DEF Answers
    <3>2. chain[j] \in HashTableNode
      BY <3>1
    <3>3. chain[j] = n
      BY <2>1, <3>1, <3>2 DEF HashTableNode
    <3>4. QED BY <2>4, <3>1, <3>3
  <2>7. ASSUME R # {} PROVE Answers(chain, k, v)
    <3>1. PICK i \in R : TRUE
      BY <2>7
    <3>2. i \in 1..Len(chain) /\ chain[i] = n
      BY <2>4, <3>1
    <3>3. i \in S
      BY <1>4, <2>2, <3>2
    <3>4. j # 0
      BY <1>2, <2>2, <3>2
    <3>5. j \in S
      BY <1>2, <1>4, <3>4
    <3>6. i = j
      BY <1>7, <3>3, <3>5
    <3>7. QED BY <1>1, <2>2, <3>2, <3>4, <3>6 DEF Answers
  <2>8. QED BY <2>1, <2>5, <2>6, <2>7
<1>9. QED BY <1>1, <1>3, <1>6, <1>8

(* Chains with the same nodes of key k.                                    *)
LEMMA SearchesAlike ==
  ASSUME NEW a \in Seq(HashTableNode), NoTwins(a),
         NEW b \in Seq(HashTableNode), NoTwins(b), NEW k \in Key,
         Cardinality(Hits(a, WithKey(k))) = Cardinality(Hits(b, WithKey(k))),
         \A v \in Value \cup {Unset} :
           Cardinality(Hits(a, {[key |-> k, value |-> v]})) =
             Cardinality(Hits(b, {[key |-> k, value |-> v]}))
  PROVE  AnswerAlike(a, b, k)
<1>1. FirstMatch(a, k) = 0 <=> FirstMatch(b, k) = 0
  BY SearchOfChain
<1>2. \A v \in Value \cup {Unset} : Answers(a, k, v) <=> Answers(b, k, v)
  BY SearchOfChain
<1>3. ASSUME NEW c \in Seq(HashTableNode), NEW v, Answers(c, k, v)
      PROVE  v \in Value \cup {Unset}
  <2>1. PICK j : j = FirstMatch(c, k)
    OBVIOUS
  <2>2. j \in 1..Len(c) /\ v = c[j].value
    BY <1>3, <2>1, FirstMatchFinds DEF Answers
  <2>3. c[j] \in HashTableNode
    BY <2>2
  <2>4. QED BY <2>2, <2>3 DEF HashTableNode
<1>4. \A v : Answers(a, k, v) <=> Answers(b, k, v)
  BY <1>2, <1>3
<1>5. QED BY <1>1, <1>4 DEF AnswerAlike

(* b has the nodes of a, but for those of key k.                           *)
SameBut(a, b, k) ==
  \A C : C \cap WithKey(k) = {} =>
           Cardinality(Hits(a, C)) = Cardinality(Hits(b, C))

LEMMA OtherKeysAlike ==
  ASSUME NEW a \in Seq(HashTableNode), NoTwins(a),
         NEW b \in Seq(HashTableNode), NEW k \in Key, SameBut(a, b, k),
         Cardinality(Hits(b, WithKey(k))) <= 1
  PROVE  NoTwins(b) /\ \A x \in Key \ {k} : AnswerAlike(a, b, x)
<1>1. ASSUME NEW x \in Key \ {k}
      PROVE  /\ WithKey(x) \cap WithKey(k) = {}
             /\ \A v : {[key |-> x, value |-> v]} \cap WithKey(k) = {}
  BY DEF WithKey
<1>2. ASSUME NEW x \in Key \ {k}
      PROVE  /\ Cardinality(Hits(a, WithKey(x))) = Cardinality(Hits(b, WithKey(x)))
             /\ \A v : Cardinality(Hits(a, {[key |-> x, value |-> v]})) =
                        Cardinality(Hits(b, {[key |-> x, value |-> v]}))
  BY <1>1 DEF SameBut
<1>3. NoTwins(b)
  <2> SUFFICES ASSUME NEW x \in Key PROVE Cardinality(Hits(b, WithKey(x))) <= 1
    BY DEF NoTwins
  <2>1. CASE x = k
    BY <2>1
  <2>2. CASE x # k
    <3>1. Cardinality(Hits(a, WithKey(x))) = Cardinality(Hits(b, WithKey(x)))
      BY <1>2, <2>2
    <3>2. QED BY <3>1 DEF NoTwins
  <2>3. QED BY <2>1, <2>2
<1>4. ASSUME NEW x \in Key \ {k} PROVE AnswerAlike(a, b, x)
  BY <1>2, <1>3, SearchesAlike
<1>5. QED BY <1>3, <1>4

(* A node put before a chain that has none of its key.                     *)
LEMMA LinkedChain ==
  ASSUME NEW a \in Seq(HashTableNode), NoTwins(a), NEW k \in Key,
         FirstMatch(a, k) = 0, NEW v \in Value \cup {Unset},
         NEW b, b = <<[key |-> k, value |-> v]>> \o a
  PROVE  /\ b \in Seq(HashTableNode) /\ NoTwins(b) /\ Answers(b, k, v)
         /\ \A x \in Key \ {k} : AnswerAlike(a, b, x)
<1>1. PICK n \in HashTableNode : n = [key |-> k, value |-> v]
  BY DEF HashTableNode
<1>2. b \in Seq(HashTableNode)
  BY <1>1, LinkChain
<1>3. \A C : Cardinality(Hits(b, C)) = Cardinality(Hits(a, C)) + Has(C, n)
  BY <1>1, HitsOfLinked
<1>4. n \in WithKey(k)
  BY <1>1 DEF WithKey
<1>5. \A C : Cardinality(Hits(a, C)) \in Nat
  BY HitsFinite
<1>6. SameBut(a, b, k)
  <2> SUFFICES ASSUME NEW C, C \cap WithKey(k) = {}
               PROVE  Cardinality(Hits(a, C)) = Cardinality(Hits(b, C))
    BY DEF SameBut
  <2>1. Has(C, n) = 0
    BY <1>4 DEF Has
  <2>2. QED BY <1>3, <1>5, <2>1
<1>7. Cardinality(Hits(b, WithKey(k))) <= 1
  <2>1. Cardinality(Hits(a, WithKey(k))) = 0
    BY SearchOfChain
  <2>2. Has(WithKey(k), n) = 1
    BY <1>4 DEF Has
  <2>3. Cardinality(Hits(b, WithKey(k))) = 1
    BY <1>3, <2>1, <2>2
  <2>4. QED BY <2>3
<1>8. NoTwins(b) /\ \A x \in Key \ {k} : AnswerAlike(a, b, x)
  BY <1>2, <1>6, <1>7, OtherKeysAlike
<1>9. Cardinality(Hits(b, {n})) > 0
  <2>1. Has({n}, n) = 1
    BY DEF Has
  <2>2. QED BY <1>3, <1>5, <2>1
<1>10. Answers(b, k, v)
  BY <1>1, <1>2, <1>8, <1>9, SearchOfChain
<1>11. QED BY <1>2, <1>8, <1>10

(* The node that the search of a chain returns.                            *)
LEMMA MatchedNode ==
  ASSUME NEW a \in Seq(HashTableNode), NEW k \in Key, FirstMatch(a, k) # 0,
         NEW j, j = FirstMatch(a, k)
  PROVE  j \in 1..Len(a) /\ a[j] \in WithKey(k)
<1>1. j \in 0..Len(a) /\ a[j].key = k
  BY FirstMatchFinds
<1>2. j \in 1..Len(a)
  BY <1>1
<1>3. QED BY <1>1, <1>2 DEF WithKey

(* A chain without the node that the search returns.                       *)
LEMMA UnlinkedChain ==
  ASSUME NEW a \in Seq(HashTableNode), NoTwins(a), NEW k \in Key,
         FirstMatch(a, k) # 0, NEW b, b = RemoveAt(a, FirstMatch(a, k))
  PROVE  /\ b \in Seq(HashTableNode) /\ NoTwins(b) /\ FirstMatch(b, k) = 0
         /\ \A x \in Key \ {k} : AnswerAlike(a, b, x)
<1>1. PICK j, n : j = FirstMatch(a, k) /\ n = a[j]
  OBVIOUS
<1>2. j \in 1..Len(a) /\ n \in WithKey(k)
  BY <1>1, MatchedNode
<1>3. b \in Seq(HashTableNode)
  BY <1>1, <1>2, RemoveAtChain
<1>4. \A C : Cardinality(Hits(a, C)) = Cardinality(Hits(b, C)) + Has(C, n)
  BY <1>1, <1>2, HitsOfRemoved
<1>5. \A C : Cardinality(Hits(b, C)) \in Nat
  BY <1>3, HitsFinite
<1>6. SameBut(a, b, k)
  <2> SUFFICES ASSUME NEW C, C \cap WithKey(k) = {}
               PROVE  Cardinality(Hits(a, C)) = Cardinality(Hits(b, C))
    BY DEF SameBut
  <2>1. Has(C, n) = 0
    BY <1>2 DEF Has
  <2>2. QED BY <1>4, <1>5, <2>1
<1>7. Cardinality(Hits(b, WithKey(k))) = 0
  <2>1. Cardinality(Hits(a, WithKey(k))) <= 1
    BY DEF NoTwins
  <2>2. Has(WithKey(k), n) = 1
    BY <1>2 DEF Has
  <2>3. QED BY <1>4, <1>5, <2>1, <2>2
<1>8. NoTwins(b) /\ \A x \in Key \ {k} : AnswerAlike(a, b, x)
  BY <1>3, <1>6, <1>7, OtherKeysAlike
<1>9. FirstMatch(b, k) = 0
  BY <1>3, <1>7, <1>8, SearchOfChain
<1>10. QED BY <1>3, <1>8, <1>9

(* A chain whose node of key k gets another value.                         *)
LEMMA RevaluedChain ==
  ASSUME NEW a \in Seq(HashTableNode), NoTwins(a), NEW k \in Key,
         FirstMatch(a, k) # 0, NEW v \in Value,
         NEW b, b = [a EXCEPT ![FirstMatch(a, k)] = [key |-> k, value |-> v]]
  PROVE  /\ b \in Seq(HashTableNode) /\ NoTwins(b) /\ Answers(b, k, v)
         /\ \A x \in Key \ {k} : AnswerAlike(a, b, x)
<1>1. PICK j, old : j = FirstMatch(a, k) /\ old = a[j]
  OBVIOUS
<1>2. PICK n \in HashTableNode : n = [key |-> k, value |-> v]
  BY DEF HashTableNode
<1>3. j \in 1..Len(a) /\ old \in WithKey(k) /\ n \in WithKey(k)
  BY <1>1, <1>2, MatchedNode DEF WithKey
<1>4. b \in Seq(HashTableNode)
  BY <1>1, <1>2, <1>3, HitsOfChanged
<1>a. \A C : Cardinality(Hits(b, C)) + Has(C, old)
              = Cardinality(Hits(a, C)) + Has(C, n)
  BY <1>1, <1>2, <1>3, HitsOfChanged
<1>5. \A C : Cardinality(Hits(b, C)) \in Nat /\ Cardinality(Hits(a, C)) \in Nat
  BY <1>4, HitsFinite
<1>6. SameBut(a, b, k)
  <2> SUFFICES ASSUME NEW C, C \cap WithKey(k) = {}
               PROVE  Cardinality(Hits(a, C)) = Cardinality(Hits(b, C))
    BY DEF SameBut
  <2>1. Has(C, n) = 0 /\ Has(C, old) = 0
    BY <1>3 DEF Has
  <2>2. Cardinality(Hits(b, C)) + 0 = Cardinality(Hits(a, C)) + 0
    BY <1>a, <2>1
  <2>3. PICK p \in Nat, q \in Nat :
          p = Cardinality(Hits(b, C)) /\ q = Cardinality(Hits(a, C))
    BY <1>5
  <2>4. p + 0 = q + 0
    BY <2>2, <2>3
  <2>5. p = q
    BY <2>4
  <2>6. QED BY <2>3, <2>5
<1>7. Cardinality(Hits(b, WithKey(k))) <= 1
  <2>1. Cardinality(Hits(a, WithKey(k))) <= 1
    BY DEF NoTwins
  <2>2. Has(WithKey(k), n) = 1 /\ Has(WithKey(k), old) = 1
    BY <1>3 DEF Has
  <2>3. Cardinality(Hits(b, WithKey(k))) + 1 = Cardinality(Hits(a, WithKey(k))) + 1
    BY <1>a, <2>2
  <2>4. PICK p \in Nat, q \in Nat :
          p = Cardinality(Hits(b, WithKey(k))) /\ q = Cardinality(Hits(a, WithKey(k)))
    BY <1>5
  <2>5. p + 1 = q + 1 /\ q <= 1
    BY <2>1, <2>3, <2>4
  <2>6. p <= 1
    BY <2>5
  <2>7. QED BY <2>4, <2>6
<1>8. NoTwins(b) /\ \A x \in Key \ {k} : AnswerAlike(a, b, x)
  BY <1>4, <1>6, <1>7, OtherKeysAlike
<1>9. Answers(b, k, v)
  <2>1. PICK m \in 1..Len(b) : b[m] = n
    <3>1. Len(b) = Len(a) /\ b[j] = n
      BY <1>1, <1>2, <1>3
    <3>2. QED BY <1>3, <3>1
  <2>2. m \in Hits(b, {n})
    BY <2>1 DEF Hits
  <2>3. IsFiniteSet(Hits(b, {n})) /\ Hits(b, {n}) # {}
    BY <1>4, <2>2, HitsFinite
  <2>4. Cardinality(Hits(b, {n})) > 0
    <3>1. Cardinality(Hits(b, {n})) # 0 /\ Cardinality(Hits(b, {n})) \in Nat
      BY <1>5, <2>3, FS_EmptySet
    <3>2. QED BY <3>1
  <2>5. QED BY <1>2, <1>4, <1>8, <2>4, SearchOfChain
<1>10. QED BY <1>4, <1>8, <1>9

(* Twice the size of another is never less than the first of them all.     *)
LEMMA LeastSize == \A s \in TableSizes : InitialSize <= s
<1> DEFINE S == {s \in TableSizes : ~(InitialSize <= s)}
<1> SUFFICES ASSUME S # {} PROVE FALSE
  OBVIOUS
<1>1. S \in SUBSET Nat
  BY SizesAssumption
<1>2. PICK m \in S : \A y \in S : m <= y
  <2> HIDE DEF S
  <2>1. QED BY <1>1, SmallestNat
<1>3. m \in TableSizes /\ ~(InitialSize <= m) /\ m \in Nat \ {0} /\ InitialSize \in Nat
  BY SizesAssumption
<1>4. PICK h \in TableSizes : m = 2 * h
  <2>1. m # InitialSize
    BY <1>3
  <2>2. QED BY <1>3, <2>1, SizesAssumption
<1>5. h \in Nat \ {0}
  BY SizesAssumption
<1>6. h < m /\ ~(InitialSize <= h)
  BY <1>3, <1>4, <1>5
<1>7. h \in S
  BY <1>6
<1>8. QED BY <1>2, <1>3, <1>5, <1>6, <1>7

LEMMA SmallPower ==
  ASSUME NEW n \in Nat, n <= InitialSize
  PROVE  LargeEnough(n) # {} /\ NextPower(n) = InitialSize
<1>1. PICK S : S = LargeEnough(n)
  OBVIOUS
<1>2. InitialSize \in S
  BY <1>1, SizesAssumption DEF LargeEnough
<1>3. S \in SUBSET Nat /\ S # {} /\ \A s \in S : InitialSize <= s
  BY <1>1, <1>2, LeastSize, SizesAssumption DEF LargeEnough
<1>4. Min(S) \in S /\ \A y \in S : Min(S) <= y
  BY <1>3, MinIsLeast
<1>5. Min(S) \in Nat /\ InitialSize \in Nat /\ Min(S) <= InitialSize /\ InitialSize <= Min(S)
  BY <1>2, <1>3, <1>4
<1>6. QED BY <1>1, <1>3, <1>5 DEF NextPower

(* No rehash, at most the first table, and no key twice in a chain.        *)
IsSmall(d) ==
  /\ IsSound(d)
  /\ ~IsRehashing(d)
  /\ d.table[0].size \in {0, InitialSize}
  /\ \A i \in 0..(d.table[0].size - 1) : NoTwins(d.table[0].slot[i])

ContentsOf(d) == [k \in Reachable(d) |-> LookUp(d, k)]

Binds(d, k, v) == FoundIn(d, k) # -1 /\ LookUp(d, k) = v

(* Lookups of all keys, or of all but k, do not tell d from e.             *)
SameBindings(d, e) ==
  \A x \in Key : /\ FoundIn(d, x) = -1 <=> FoundIn(e, x) = -1
                 /\ LookUp(d, x) = LookUp(e, x)

SameElsewhere(d, e, k) ==
  \A x \in Key \ {k} : /\ FoundIn(d, x) = -1 <=> FoundIn(e, x) = -1
                       /\ LookUp(d, x) = LookUp(e, x)

(* A function with k bound to v, and one with k forgotten.                 *)
Bound(c, k, v) == [x \in DOMAIN c \cup {k} |-> IF x = k THEN v ELSE c[x]]

Forgotten(c, k) == [x \in DOMAIN c \ {k} |-> c[x]]

LEMMA ContentsSame ==
  ASSUME NEW d, NEW e, SameBindings(d, e)
  PROVE  ContentsOf(e) = ContentsOf(d)
<1>1. Reachable(e) = Reachable(d)
  BY DEF Reachable, SameBindings
<1>2. \A x \in Reachable(d) : x \in Key
  BY DEF Reachable
<1>3. QED BY <1>1, <1>2 DEF ContentsOf, SameBindings

LEMMA ContentsBound ==
  ASSUME NEW d, NEW e, NEW k \in Key, NEW v, SameElsewhere(d, e, k), Binds(e, k, v)
  PROVE  ContentsOf(e) = Bound(ContentsOf(d), k, v)
<1>1. DOMAIN ContentsOf(d) = Reachable(d)
  BY DEF ContentsOf
<1>2. Reachable(e) = Reachable(d) \cup {k}
  BY DEF Reachable, SameElsewhere, Binds
<1>3. \A x \in Reachable(d) : x \in Key /\ ContentsOf(d)[x] = LookUp(d, x)
  BY DEF Reachable, ContentsOf
<1>4. \A x \in Reachable(d) \cup {k} :
        LookUp(e, x) = IF x = k THEN v ELSE ContentsOf(d)[x]
  BY <1>3 DEF SameElsewhere, Binds
<1>5. ContentsOf(e) = [x \in Reachable(d) \cup {k} |-> LookUp(e, x)]
  BY <1>2 DEF ContentsOf
<1>6. QED BY <1>1, <1>4, <1>5 DEF Bound

LEMMA ContentsForgotten ==
  ASSUME NEW d, NEW e, NEW k \in Key, SameElsewhere(d, e, k), FoundIn(e, k) = -1
  PROVE  ContentsOf(e) = Forgotten(ContentsOf(d), k)
<1>1. DOMAIN ContentsOf(d) = Reachable(d)
  BY DEF ContentsOf
<1>2. Reachable(e) = Reachable(d) \ {k}
  BY DEF Reachable, SameElsewhere
<1>3. \A x \in Reachable(d) : x \in Key /\ ContentsOf(d)[x] = LookUp(d, x)
  BY DEF Reachable, ContentsOf
<1>4. \A x \in Reachable(d) \ {k} : LookUp(e, x) = ContentsOf(d)[x]
  BY <1>3 DEF SameElsewhere
<1>5. ContentsOf(e) = [x \in Reachable(d) \ {k} |-> LookUp(e, x)]
  BY <1>2 DEF ContentsOf
<1>6. QED BY <1>1, <1>4, <1>5 DEF Forgotten

(* Without a rehash the search is that of one chain.                       *)
LEMMA SmallLookUp ==
  ASSUME NEW d, ~IsRehashing(d), d.status = "live", d.table[0].size # 0, NEW k
  PROVE  LET chain == Chain(d.table[0], k) IN
         /\ FoundIn(d, k) \in {-1, 0}
         /\ FoundIn(d, k) = -1 <=> FirstMatch(chain, k) = 0
         /\ \A v : Binds(d, k, v) <=> Answers(chain, k, v)
<1>1. PICK c, j : c = Chain(d.table[0], k) /\ j = FirstMatch(c, k)
  OBVIOUS
<1>2. FoundIn(d, k) = IF j # 0 THEN 0 ELSE -1
  BY <1>1 DEF FoundIn
<1>3. FoundIn(d, k) = 0 => LookUp(d, k) = c[j].value
  BY <1>1 DEF LookUp
<1>4. QED BY <1>1, <1>2, <1>3 DEF Binds, Answers

LEMMA NotFound ==
  ASSUME NEW d, NEW k, FoundIn(d, k) = -1
  PROVE  LookUp(d, k) = NULL
BY DEF LookUp

(* U is T with a change of the chain of k, that keeps what the chain       *)
(* answers for other keys.                                                 *)
Rechained(T, U, k) ==
  LET i == SlotIndex(T, k)
  IN  /\ IsCountedTable(U)
      /\ U.size = T.size
      /\ \A h \in 0..(T.size - 1) : h # i => U.slot[h] = T.slot[h]
      /\ NoTwins(U.slot[i])
      /\ \A x \in Key \ {k} : AnswerAlike(T.slot[i], U.slot[i], x)

WithFirst(d, T) == [d EXCEPT !.table[0] = T]

LEMMA SmallChange ==
  ASSUME NEW d, IsSmall(d), d.status = "live", d.table[0].size # 0, NEW k \in Key,
         NEW T, Rechained(d.table[0], T, k),
         NEW e, e = WithFirst(d, T)
  PROVE  /\ IsSmall(e) /\ e.status = "live" /\ e.table[0] = T
         /\ SameElsewhere(d, e, k)
<1>a. PICK i : i = SlotIndex(d.table[0], k)
  OBVIOUS
<1>c. e = [d EXCEPT !.table[0] = T]
  BY DEF WithFirst
<1>b. /\ IsCountedTable(T) /\ T.size = d.table[0].size
      /\ \A h \in 0..(T.size - 1) : h # i => T.slot[h] = d.table[0].slot[h]
      /\ NoTwins(T.slot[i])
      /\ \A x \in Key \ {k} : AnswerAlike(d.table[0].slot[i], T.slot[i], x)
  BY <1>a DEF Rechained
<1>1. IsSound(d) /\ ~IsRehashing(d) /\ d.rehash_index = -1
  BY DEF IsSmall, IsRehashing
<1>2. IsSound(e)
  <2>1. 0 \in 0..1 /\ \A h \in 0..(d.rehash_index - 1) : T.slot[h] = <<>>
    BY <1>1
  <2>2. QED BY <1>1, <1>b, <1>c, <2>1, SoundWithTable
<1>3. e.status = "live" /\ e.table[0] = T /\ e.rehash_index = d.rehash_index
  <2>1. d = [table        |-> [u \in 0..1 |-> d.table[u]],
             rehash_index |-> d.rehash_index,
             status       |-> d.status]
    BY <1>1 DEF IsSound, IsDictionary
  <2>2. QED BY <1>c, <2>1
<1>4. IsSmall(e)
  <2>1. \A h \in 0..(T.size - 1) : NoTwins(T.slot[h])
    <3> SUFFICES ASSUME NEW h \in 0..(T.size - 1) PROVE NoTwins(T.slot[h])
      OBVIOUS
    <3>1. CASE h = i
      BY <1>b, <3>1
    <3>2. CASE h # i
      BY <1>b, <3>2 DEF IsSmall
    <3>3. QED BY <3>1, <3>2
  <2>2. QED BY <1>1, <1>2, <1>3, <1>b, <2>1 DEF IsSmall, IsRehashing
<1>5. ASSUME NEW x \in Key \ {k}
      PROVE  /\ FoundIn(d, x) = -1 <=> FoundIn(e, x) = -1
             /\ LookUp(d, x) = LookUp(e, x)
  <2>1. PICK a, b : a = Chain(d.table[0], x) /\ b = Chain(T, x)
    OBVIOUS
  <2>2. AnswerAlike(a, b, x)
    <3>1. SlotIndex(T, x) = SlotIndex(d.table[0], x)
      BY <1>b DEF SlotIndex
    <3>2. SlotIndex(T, x) \in 0..(T.size - 1)
      <4>1. IsHashTable(T) /\ T.size > 0
        BY <1>b, SizesAssumption DEF IsCountedTable, IsSmall
      <4>2. QED BY <4>1, SlotIndexInTable
    <3>3. CASE SlotIndex(T, x) = i
      BY <1>b, <2>1, <3>1, <3>3 DEF Chain
    <3>4. CASE SlotIndex(T, x) # i
      <4>1. a = b
        BY <1>b, <2>1, <3>1, <3>2, <3>4 DEF Chain
      <4>2. QED BY <4>1 DEF AnswerAlike
    <3>5. QED BY <3>3, <3>4
  <2>3. /\ FoundIn(d, x) = -1 <=> FirstMatch(a, x) = 0
        /\ \A v : Binds(d, x, v) <=> Answers(a, x, v)
    BY <1>1, <2>1, SmallLookUp
  <2>4. /\ FoundIn(e, x) = -1 <=> FirstMatch(b, x) = 0
        /\ \A v : Binds(e, x, v) <=> Answers(b, x, v)
    <3>1. ~IsRehashing(e) /\ e.table[0].size # 0 /\ b = Chain(e.table[0], x)
      BY <1>1, <1>3, <1>b, <2>1 DEF IsRehashing
    <3>2. QED BY <1>3, <3>1, SmallLookUp
  <2>5. FoundIn(d, x) = -1 <=> FoundIn(e, x) = -1
    BY <2>2, <2>3, <2>4 DEF AnswerAlike
  <2>6. \A v : Binds(d, x, v) <=> Binds(e, x, v)
    BY <2>2, <2>3, <2>4 DEF AnswerAlike
  <2>7. LookUp(d, x) = LookUp(e, x)
    <3>1. CASE FoundIn(d, x) = -1
      BY <2>5, <3>1, NotFound
    <3>2. CASE FoundIn(d, x) # -1
      <4>1. Binds(d, x, LookUp(d, x))
        BY <3>2 DEF Binds
      <4>2. Binds(e, x, LookUp(d, x))
        BY <2>6, <4>1
      <4>3. QED BY <4>2 DEF Binds
    <3>3. QED BY <3>1, <3>2
  <2>8. QED BY <2>5, <2>7
<1>6. QED BY <1>3, <1>4, <1>5 DEF SameElsewhere

(* The first table of a dictionary.                                        *)
LEMMA SmallFirstTable ==
  ASSUME NEW d, IsSmall(d), d.table[0].size = 0, NEW n \in Nat, n <= InitialSize
  PROVE  LET e == ExpandTo(d, n) IN
         /\ IsSmall(e) /\ e.status = d.status /\ SameBindings(d, e)
         /\ e.table[0].size = InitialSize
<1>1. PICK e : e = ExpandTo(d, n)
  OBVIOUS
<1>2. IsSound(d) /\ ~IsRehashing(d) /\ d.rehash_index = -1
  BY DEF IsSmall, IsRehashing
<1>3. NextPower(n) = InitialSize /\ \E s \in TableSizes : n <= s
  BY SmallPower DEF LargeEnough
<1>4. IsSound(e) /\ e.status = d.status
  BY <1>1, <1>2, <1>3, ExpandToSound
<1>5. e = [d EXCEPT !.table[0] = EmptyTable(InitialSize)]
  BY <1>1, <1>3 DEF ExpandTo, NewTable
<1>6. e.table[0] = EmptyTable(InitialSize) /\ e.rehash_index = -1
  <2>1. d = [table        |-> [u \in 0..1 |-> d.table[u]],
             rehash_index |-> d.rehash_index,
             status       |-> d.status]
    BY <1>2 DEF IsSound, IsDictionary
  <2>2. QED BY <1>2, <1>5, <2>1
<1>7. /\ e.table[0].size = InitialSize
      /\ \A i \in 0..(InitialSize - 1) : e.table[0].slot[i] = <<>>
  BY <1>6 DEF EmptyTable
<1>8. <<>> \in Seq(HashTableNode) /\ NoTwins(<<>>) /\ \A x : FirstMatch(<<>>, x) = 0
  <2>1. <<>> \in Seq(HashTableNode) /\ Len(<<>>) = 0
    OBVIOUS
  <2>2. \A C : Hits(<<>>, C) = {}
    BY <2>1 DEF Hits
  <2>3. NoTwins(<<>>)
    BY <2>2, FS_EmptySet DEF NoTwins
  <2>4. \A x : FirstMatch(<<>>, x) \in 0..0
    BY <2>1, FirstMatchFinds
  <2>5. QED BY <2>1, <2>3, <2>4
<1>9. IsSmall(e)
  BY <1>4, <1>6, <1>7, <1>8 DEF IsSmall, IsRehashing
<1>10. ASSUME NEW x \in Key PROVE FoundIn(d, x) = -1 /\ FoundIn(e, x) = -1
  <2>1. FoundIn(d, x) = -1
    BY DEF FoundIn
  <2>2. CASE e.status # "live"
    BY <2>1, <2>2 DEF FoundIn
  <2>3. CASE e.status = "live"
    <3>1. IsHashTable(e.table[0]) /\ e.table[0].size > 0 /\ InitialSize # 0
      BY <1>4, <1>7, SoundTables, SizesAssumption
    <3>2. SlotIndex(e.table[0], x) \in 0..(InitialSize - 1)
      BY <1>7, <3>1, SlotIndexInTable
    <3>3. FirstMatch(Chain(e.table[0], x), x) = 0
      BY <1>7, <1>8, <3>2 DEF Chain
    <3>4. ~IsRehashing(e)
      BY <1>6 DEF IsRehashing
    <3>5. QED BY <1>7, <2>1, <2>3, <3>1, <3>3, <3>4, SmallLookUp
  <2>4. QED BY <2>2, <2>3
<1>11. SameBindings(d, e)
  BY <1>10, NotFound DEF SameBindings
<1>12. QED BY <1>1, <1>4, <1>7, <1>9, <1>11

(* DictionaryExpandIfNeeded() makes the first table and nothing else.      *)
LEMMA SmallExpanded ==
  ASSUME StaysSmall, NEW d, IsSmall(d), NodeNumber(d) < MaxNodes
  PROVE  LET e == ExpandIfNeeded(d) IN
         /\ IsSmall(e) /\ e.status = d.status /\ SameBindings(d, e)
         /\ e.table[0].size = InitialSize
         /\ d.table[0].size # 0 => e = d
<1>1. IsSound(d) /\ d.table[0].count \in Nat /\ d.table[1].count \in Nat
  BY SoundTables DEF IsSmall
<1>2. CASE d.table[0].size = 0
  <2>1. WantsExpand(d) /\ WantedSize(d) = InitialSize
    BY <1>2 DEF WantsExpand, WantedSize
  <2>2. NodeNumber(d) <= MaxNodes
    BY <1>1, ParametersAssumption DEF NodeNumber
  <2>3. CanExpand(d, WantedSize(d))
    BY <1>1, <2>1, <2>2, WantedExpansionIsMade
  <2>4. ExpandIfNeeded(d) = ExpandTo(d, InitialSize)
    BY <2>1, <2>3 DEF ExpandIfNeeded
  <2>5. InitialSize \in Nat /\ InitialSize <= InitialSize
    BY SizesAssumption
  <2>6. QED BY <1>2, <2>4, <2>5, SmallFirstTable
<1>3. CASE d.table[0].size # 0
  <2>1. d.table[0].size = InitialSize /\ InitialSize \in Nat \ {0}
    BY <1>3, SizesAssumption DEF IsSmall
  <2>2. d.table[0].count < InitialSize
    BY <1>1, <2>1, ParametersAssumption DEF NodeNumber, StaysSmall
  <2>3. d.table[0].count \div d.table[0].size = 0
    BY <1>1, <2>1, <2>2
  <2>4. ~WantsExpand(d)
    BY <1>3, <2>3 DEF WantsExpand
  <2>5. ExpandIfNeeded(d) = d
    BY <2>4 DEF ExpandIfNeeded
  <2>6. SameBindings(d, d)
    BY DEF SameBindings
  <2>7. QED BY <1>3, <2>1, <2>5, <2>6
<1>4. QED BY <1>2, <1>3

LEMMA SmallSteps ==
  ASSUME NEW d, IsSmall(d)
  PROVE  Touch(d) = d /\ RehashStep(d) = d /\ \A n : RehashSlots(d, n) = d
BY DEF IsSmall, Touch, RehashStep, RehashSlots

(* DictionaryAddRaw() refuses exactly a key that is bound, and changes no  *)
(* binding then.                                                           *)
LEMMA SmallAdd ==
  ASSUME StaysSmall, NEW d, IsSmall(d), d.status = "live", NodeNumber(d) < MaxNodes,
         NEW k \in Key, NEW v \in Value \cup {Unset}
  PROVE  LET outcome == AddNode(d, k, v) IN
         /\ IsSmall(outcome.dict) /\ outcome.dict.status = "live"
         /\ outcome.added <=> FoundIn(d, k) = -1
         /\ outcome.added => Binds(outcome.dict, k, v) /\ SameElsewhere(d, outcome.dict, k)
         /\ ~outcome.added => outcome.dict = d
<1>1. PICK outcome, e, T, i, node :
        /\ outcome = AddNode(d, k, v) /\ e = ExpandIfNeeded(d) /\ T = e.table[0]
        /\ i = SlotIndex(T, k) /\ node = [key |-> k, value |-> v]
  OBVIOUS
<1>2. /\ IsSmall(e) /\ e.status = "live" /\ SameBindings(d, e)
      /\ T.size = InitialSize
      /\ d.table[0].size # 0 => e = d
  BY <1>1, SmallExpanded
<1>3. RehashStep(d) = d /\ ~IsRehashing(d) /\ ~IsRehashing(e) /\ IsSound(d) /\ IsSound(e)
  BY <1>2, SmallSteps DEF IsSmall
<1>4. IsCountedTable(T) /\ IsHashTable(T) /\ T.size > 0 /\ T.size # 0 /\ T.size \in Nat
  BY <1>1, <1>2, <1>3, SoundTables, SizesAssumption
<1>5. i \in 0..(T.size - 1)
  BY <1>1, <1>4, SlotIndexInTable
<1>6. i # -1 /\ ~(i >= T.size)
  BY <1>4, <1>5
<1>7. T.slot[i] \in Seq(HashTableNode) /\ NoTwins(T.slot[i]) /\ Chain(T, k) = T.slot[i]
  BY <1>1, <1>2, <1>4, <1>5 DEF IsHashTable, IsSmall, Chain
<1>8. KeyIndex(d, k) = IF FirstMatch(T.slot[i], k) # 0 THEN -1 ELSE i
  <2>1. NodeNumber(d) <= MaxNodes
    BY <1>3, SoundTables, ParametersAssumption DEF NodeNumber
  <2>2. ~(WantsExpand(d) /\ ~CanExpand(d, WantedSize(d)))
    BY <1>3, <2>1, WantedExpansionIsMade
  <2>3. KeyTable(e) = T
    BY <1>1, <1>3 DEF KeyTable
  <2>4. QED BY <1>1, <1>7, <2>2, <2>3 DEF KeyIndex
<1>9. AddTable(d) = 0
  BY <1>3 DEF AddTable
<1>10. outcome = IF FirstMatch(T.slot[i], k) # 0 THEN [dict |-> e, added |-> FALSE]
                 ELSE [dict |-> [e EXCEPT !.table[0] = Link(T, i, node)], added |-> TRUE]
  BY <1>1, <1>3, <1>4, <1>6, <1>8, <1>9 DEF AddNode
<1>11. FoundIn(d, k) = -1 <=> FirstMatch(T.slot[i], k) = 0
  <2>1. FoundIn(e, k) = -1 <=> FirstMatch(T.slot[i], k) = 0
    BY <1>1, <1>2, <1>3, <1>4, <1>7, SmallLookUp
  <2>2. QED BY <1>2, <2>1 DEF SameBindings
<1>12. CASE FirstMatch(T.slot[i], k) # 0
  <2>1. d.table[0].size # 0
    <3>1. FoundIn(d, k) # -1
      BY <1>11, <1>12
    <3>2. QED BY <3>1 DEF FoundIn
  <2>2. outcome.dict = d /\ ~outcome.added
    BY <1>2, <1>10, <1>12, <2>1
  <2>3. QED BY <1>1, <1>11, <1>12, <2>2
<1>13. CASE FirstMatch(T.slot[i], k) = 0
  <2>1. PICK f, U : U = Link(T, i, node) /\ f = [e EXCEPT !.table[0] = U]
    OBVIOUS
  <2>2. outcome.dict = f /\ outcome.added
    BY <1>10, <1>13, <2>1
  <2>3. node \in HashTableNode
    BY <1>1 DEF HashTableNode
  <2>4. /\ IsCountedTable(U) /\ U.size = T.size
        /\ \A h \in 0..(T.size - 1) : h # i => U.slot[h] = T.slot[h]
    BY <1>4, <1>5, <2>1, <2>3, LinkCounted
  <2>5. U.slot[i] = <<[key |-> k, value |-> v]>> \o T.slot[i]
    BY <1>1, <1>4, <1>5, <2>1 DEF Link, IsHashTable
  <2>6. /\ NoTwins(U.slot[i]) /\ Answers(U.slot[i], k, v)
        /\ \A x \in Key \ {k} : AnswerAlike(T.slot[i], U.slot[i], x)
    <3>1. PICK a, b : a = T.slot[i] /\ b = U.slot[i]
      OBVIOUS
    <3>2. /\ a \in Seq(HashTableNode) /\ NoTwins(a) /\ FirstMatch(a, k) = 0
          /\ b = <<[key |-> k, value |-> v]>> \o a
      BY <1>7, <1>13, <2>5, <3>1
    <3>3. /\ NoTwins(b) /\ Answers(b, k, v)
          /\ \A x \in Key \ {k} : AnswerAlike(a, b, x)
      BY <3>2, LinkedChain
    <3>4. QED BY <3>1, <3>3
  <2>7. /\ IsSmall(f) /\ f.status = "live" /\ f.table[0] = U
        /\ SameElsewhere(e, f, k)
    <3>1. Rechained(e.table[0], U, k)
      BY <1>1, <2>4, <2>6 DEF Rechained
    <3>2. e.table[0].size # 0 /\ f = WithFirst(e, U)
      BY <1>1, <1>4, <2>1 DEF WithFirst
    <3>3. QED BY <1>2, <3>1, <3>2, SmallChange
  <2>8. Binds(f, k, v)
    <3>1. Chain(U, k) = U.slot[i]
      BY <1>1, <2>4 DEF Chain, SlotIndex
    <3>2. ~IsRehashing(f) /\ f.table[0].size # 0
      BY <1>4, <2>4, <2>7 DEF IsSmall
    <3>3. \A w : Binds(f, k, w) <=> Answers(U.slot[i], k, w)
      BY <2>7, <3>1, <3>2, SmallLookUp
    <3>4. QED BY <2>6, <3>3
  <2>9. SameElsewhere(d, f, k)
    BY <1>2, <2>7 DEF SameElsewhere, SameBindings
  <2>10. QED BY <1>1, <1>11, <1>13, <2>2, <2>7, <2>8, <2>9
<1>14. QED BY <1>12, <1>13

(* The chain in which a small dictionary finds k.                          *)
LEMMA SmallFound ==
  ASSUME NEW d, IsSmall(d), NEW k \in Key, FoundIn(d, k) # -1
  PROVE  LET T == d.table[0]
             i == SlotIndex(T, k)
         IN  /\ FoundIn(d, k) = 0 /\ d.status = "live" /\ T.size # 0
             /\ IsCountedTable(T) /\ i \in 0..(T.size - 1)
             /\ T.slot[i] \in Seq(HashTableNode) /\ NoTwins(T.slot[i])
             /\ FirstMatch(T.slot[i], k) \in 1..Len(T.slot[i])
             /\ FirstMatch(T.slot[i], k) # 0
<1>1. d.status = "live" /\ d.table[0].size # 0 /\ ~IsRehashing(d) /\ IsSound(d)
  BY DEF FoundIn, IsSmall
<1>2. FoundIn(d, k) = 0
  BY <1>1, SmallLookUp
<1>3. PICK T, i : T = d.table[0] /\ i = SlotIndex(T, k)
  OBVIOUS
<1>4. /\ IsCountedTable(T) /\ i \in 0..(T.size - 1)
      /\ T.slot[i] \in Seq(HashTableNode)
      /\ FirstMatch(T.slot[i], k) \in 1..Len(T.slot[i])
  BY <1>1, <1>2, <1>3, FoundNode
<1>5. NoTwins(T.slot[i])
  BY <1>3, <1>4 DEF IsSmall
<1>6. FirstMatch(T.slot[i], k) # 0
  BY <1>4
<1>7. QED BY <1>1, <1>2, <1>3, <1>4, <1>5, <1>6

LEMMA SmallRemove ==
  ASSUME NEW d, IsSmall(d), NEW k \in Key, FoundIn(d, k) # -1
  PROVE  LET e == RemoveFound(d, k) IN
         /\ IsSmall(e) /\ e.status = "live" /\ SameElsewhere(d, e, k)
         /\ FoundIn(e, k) = -1
<1>1. PICK T, i, j, U, e :
        /\ T = d.table[0] /\ i = SlotIndex(T, k) /\ j = FirstMatch(T.slot[i], k)
        /\ U = Unlink(T, i, j) /\ e = RemoveFound(d, k)
  OBVIOUS
<1>2. /\ FoundIn(d, k) = 0 /\ d.status = "live" /\ T.size # 0
      /\ IsCountedTable(T) /\ i \in 0..(T.size - 1)
      /\ T.slot[i] \in Seq(HashTableNode) /\ NoTwins(T.slot[i])
      /\ j \in 1..Len(T.slot[i]) /\ j # 0
  BY <1>1, SmallFound
<1>3. e = WithFirst(d, U)
  BY <1>1, <1>2 DEF RemoveFound, Chain, WithFirst
<1>4. /\ IsCountedTable(U) /\ U.size = T.size
      /\ \A h \in 0..(T.size - 1) : h # i => U.slot[h] = T.slot[h]
  <2>1. IsCountedTable(T) /\ i \in 0..(T.size - 1) /\ j \in 1..Len(T.slot[i])
    BY <1>2
  <2>2. PICK V : V = Unlink(T, i, j)
    OBVIOUS
  <2>3. /\ IsCountedTable(V) /\ V.size = T.size
        /\ \A h \in 0..(T.size - 1) : h # i => V.slot[h] = T.slot[h]
    BY <2>1, <2>2, UnlinkCounted
  <2>4. U = V
    BY <1>1, <2>2
  <2>5. QED BY <2>3, <2>4
<1>5. U.slot[i] = RemoveAt(T.slot[i], j)
  <2>1. T.slot \in [0..(T.size - 1) -> Seq(HashTableNode)]
    BY <1>2 DEF IsCountedTable, IsHashTable
  <2>2. U.slot = [T.slot EXCEPT ![i] = RemoveAt(T.slot[i], j)]
    BY <1>1 DEF Unlink
  <2>3. QED BY <1>2, <2>1, <2>2
<1>6. /\ NoTwins(U.slot[i]) /\ FirstMatch(U.slot[i], k) = 0
      /\ \A x \in Key \ {k} : AnswerAlike(T.slot[i], U.slot[i], x)
  <2>1. PICK a, b : a = T.slot[i] /\ b = U.slot[i]
    OBVIOUS
  <2>2. /\ a \in Seq(HashTableNode) /\ NoTwins(a) /\ FirstMatch(a, k) # 0
        /\ b = RemoveAt(a, FirstMatch(a, k))
    BY <1>1, <1>2, <1>5, <2>1
  <2>3. /\ NoTwins(b) /\ FirstMatch(b, k) = 0
        /\ \A x \in Key \ {k} : AnswerAlike(a, b, x)
    BY <2>2, UnlinkedChain
  <2>4. QED BY <2>1, <2>3
<1>7. Rechained(T, U, k)
  <2>1. i = SlotIndex(T, k)
    BY <1>1
  <2>2. QED BY <1>4, <1>6, <2>1 DEF Rechained
<1>8. IsSmall(e) /\ e.status = "live" /\ e.table[0] = U /\ SameElsewhere(d, e, k)
  <2>1. /\ d.status = "live" /\ d.table[0].size # 0 /\ e = WithFirst(d, U)
        /\ Rechained(d.table[0], U, k)
    BY <1>1, <1>2, <1>3, <1>7
  <2>2. QED BY <2>1, SmallChange
<1>9. FoundIn(e, k) = -1
  <2>1. Chain(e.table[0], k) = U.slot[i]
    BY <1>1, <1>4, <1>8 DEF Chain, SlotIndex
  <2>2. ~IsRehashing(e) /\ e.table[0].size # 0
    BY <1>2, <1>4, <1>8 DEF IsSmall
  <2>3. QED BY <1>6, <1>8, <2>1, <2>2, SmallLookUp
<1>10. QED BY <1>1, <1>8, <1>9

LEMMA SmallReplace ==
  ASSUME NEW d, IsSmall(d), NEW k \in Key, FoundIn(d, k) # -1, NEW v \in Value
  PROVE  LET e == ReplaceFound(d, k, v) IN
         /\ IsSmall(e) /\ e.status = "live" /\ SameElsewhere(d, e, k)
         /\ Binds(e, k, v)
<1>1. PICK T, i, j, U, e :
        /\ T = d.table[0] /\ i = SlotIndex(T, k) /\ j = FirstMatch(T.slot[i], k)
        /\ U = SetValue(T, i, j, v) /\ e = ReplaceFound(d, k, v)
  OBVIOUS
<1>2. /\ FoundIn(d, k) = 0 /\ d.status = "live" /\ T.size # 0
      /\ IsCountedTable(T) /\ i \in 0..(T.size - 1)
      /\ T.slot[i] \in Seq(HashTableNode) /\ NoTwins(T.slot[i])
      /\ j \in 1..Len(T.slot[i]) /\ j # 0
  BY <1>1, SmallFound
<1>3. e = WithFirst(d, U)
  BY <1>1, <1>2 DEF ReplaceFound, Chain, WithFirst
<1>4. /\ IsCountedTable(U) /\ U.size = T.size
      /\ \A h \in 0..(T.size - 1) : h # i => U.slot[h] = T.slot[h]
  <2>1. IsCountedTable(T) /\ i \in 0..(T.size - 1) /\ j \in 1..Len(T.slot[i])
    BY <1>2
  <2>2. PICK V : V = SetValue(T, i, j, v)
    OBVIOUS
  <2>3. /\ IsCountedTable(V) /\ V.size = T.size
        /\ \A h \in 0..(T.size - 1) : h # i => V.slot[h] = T.slot[h]
    BY <2>1, <2>2, SetValueCounted
  <2>4. U = V
    BY <1>1, <2>2
  <2>5. QED BY <2>3, <2>4
<1>5. U.slot[i] = [T.slot[i] EXCEPT ![j] = [key |-> k, value |-> v]]
  <2>1. T.slot[i][j] \in HashTableNode /\ T.slot[i][j].key = k
    BY <1>1, <1>2, FirstMatchFinds
  <2>2. [T.slot[i][j] EXCEPT !.value = v] = [key |-> k, value |-> v]
    BY <2>1 DEF HashTableNode
  <2>3. U.slot[i] = [T.slot[i] EXCEPT ![j] = [T.slot[i][j] EXCEPT !.value = v]]
    <3>1. /\ T = [slot |-> T.slot, size |-> T.size, count |-> T.count]
          /\ T.slot \in [0..(T.size - 1) -> Seq(HashTableNode)]
      BY <1>2 DEF IsCountedTable, IsHashTable
    <3>2. QED BY <1>1, <1>2, <3>1 DEF SetValue
  <2>4. QED BY <2>2, <2>3
<1>6. /\ NoTwins(U.slot[i]) /\ Answers(U.slot[i], k, v)
      /\ \A x \in Key \ {k} : AnswerAlike(T.slot[i], U.slot[i], x)
  <2>1. PICK a, b : a = T.slot[i] /\ b = U.slot[i]
    OBVIOUS
  <2>2. /\ a \in Seq(HashTableNode) /\ NoTwins(a) /\ FirstMatch(a, k) # 0
        /\ b = [a EXCEPT ![FirstMatch(a, k)] = [key |-> k, value |-> v]]
    BY <1>1, <1>2, <1>5, <2>1
  <2>3. /\ NoTwins(b) /\ Answers(b, k, v)
        /\ \A x \in Key \ {k} : AnswerAlike(a, b, x)
    BY <2>2, RevaluedChain
  <2>4. QED BY <2>1, <2>3
<1>7. Rechained(T, U, k)
  <2>1. i = SlotIndex(T, k)
    BY <1>1
  <2>2. QED BY <1>4, <1>6, <2>1 DEF Rechained
<1>8. IsSmall(e) /\ e.status = "live" /\ e.table[0] = U /\ SameElsewhere(d, e, k)
  <2>1. /\ d.status = "live" /\ d.table[0].size # 0 /\ e = WithFirst(d, U)
        /\ Rechained(d.table[0], U, k)
    BY <1>1, <1>2, <1>3, <1>7
  <2>2. QED BY <2>1, SmallChange
<1>9. Binds(e, k, v)
  <2>1. Chain(e.table[0], k) = U.slot[i]
    BY <1>1, <1>4, <1>8 DEF Chain, SlotIndex
  <2>2. ~IsRehashing(e) /\ e.table[0].size # 0
    BY <1>2, <1>4, <1>8 DEF IsSmall
  <2>3. \A w : Binds(e, k, w) <=> Answers(U.slot[i], k, w)
    BY <1>8, <2>1, <2>2, SmallLookUp
  <2>4. QED BY <1>6, <2>3
<1>10. QED BY <1>1, <1>8, <1>9

LEMMA SmallNew ==
  ASSUME NEW status \in {"absent", "live"}
  PROVE  LET d == NewDictionary(status) IN
         IsSmall(d) /\ ContentsOf(d) = [k \in {} |-> NULL]
<1>1. PICK d : d = NewDictionary(status)
  OBVIOUS
<1>2. IsSound(d)
  BY <1>1, NewDictionarySound
<1>3. d.table[0].size = 0 /\ ~IsRehashing(d)
  BY <1>1 DEF NewDictionary, Tables, EmptyTable, IsRehashing
<1>4. IsSmall(d)
  <2>1. \A i : i \notin 0..(0 - 1)
    OBVIOUS
  <2>2. QED BY <1>2, <1>3, <2>1 DEF IsSmall
<1>5. Reachable(d) = {}
  BY <1>3 DEF Reachable, FoundIn
<1>6. QED BY <1>1, <1>4, <1>5 DEF ContentsOf

LEMMA ContentsOfUnused ==
  ASSUME NEW d, d.status # "live"
  PROVE  ContentsOf(d) = [k \in {} |-> NULL]
<1>1. Reachable(d) = {}
  BY DEF Reachable, FoundIn
<1>2. QED BY <1>1 DEF ContentsOf

LEMMA ContentsOfNext ==
  ContentsOf(dictionary)' = ContentsOf(dictionary')
BY DEF ContentsOf, Reachable, FoundIn, LookUp, IsRehashing, Chain, SlotIndex

(* The inductive invariant.                                                *)
MapInv ==
  /\ StaysSmall
  /\ Inv
  /\ IsDefined => IsSmall(dictionary)

(* A step that changes nothing a client sees.                              *)
LEMMA MapStutters ==
  ASSUME dictionary'.status = dictionary.status, result' = result,
         ContentsOf(dictionary') = ContentsOf(dictionary)
  PROVE  UNCHANGED Map!vars
<1>1. ContentsOf(dictionary)' = ContentsOf(dictionary)
  BY ContentsOfNext
<1>2. IsLive' = IsLive
  BY DEF IsLive
<1>3. QED BY <1>1, <1>2 DEF Map!vars, ContentsOf

(* DictionaryAddRaw() and DictionaryAdd().                                 *)
LEMMA MapInserts ==
  ASSUME MapInv, IsLive, NodeNumber(dictionary) < MaxNodes,
         NEW k \in Key, NEW v \in Value \cup {Unset}, NEW call, NEW refused,
         dictionary' = AddNode(dictionary, k, v).dict,
         result' = Reply(call, k, IF AddNode(dictionary, k, v).added THEN 1 ELSE refused)
  PROVE  Map!Insert(call, k, v, refused) /\ IsSmall(dictionary') /\ IsLive'
<1>1. StaysSmall /\ IsSmall(dictionary) /\ dictionary.status = "live"
  BY StatusesApart DEF MapInv, IsLive, IsDefined
<1>2. PICK outcome : outcome = AddNode(dictionary, k, v)
  OBVIOUS
<1>3. /\ IsSmall(dictionary') /\ dictionary'.status = "live"
      /\ outcome.added <=> FoundIn(dictionary, k) = -1
      /\ outcome.added => Binds(dictionary', k, v) /\ SameElsewhere(dictionary, dictionary', k)
      /\ ~outcome.added => dictionary' = dictionary
  BY <1>1, <1>2, SmallAdd
<1>4. DOMAIN ContentsOf(dictionary) = Reachable(dictionary)
  BY DEF ContentsOf
<1>5. k \in Reachable(dictionary) <=> FoundIn(dictionary, k) # -1
  BY DEF Reachable
<1>6. result' = Reply(call, k, IF k \in DOMAIN ContentsOf(dictionary) THEN refused ELSE 1)
  BY <1>2, <1>3, <1>4, <1>5
<1>7. ContentsOf(dictionary)' =
        IF k \in DOMAIN ContentsOf(dictionary) THEN ContentsOf(dictionary)
        ELSE Bound(ContentsOf(dictionary), k, v)
  <2>1. CASE outcome.added
    BY <1>3, <1>4, <1>5, <2>1, ContentsBound, ContentsOfNext
  <2>2. CASE ~outcome.added
    BY <1>3, <1>4, <1>5, <2>2, ContentsOfNext
  <2>3. QED BY <2>1, <2>2
<1>8. IsLive'
  BY <1>3 DEF IsLive
<1>9. QED
  BY <1>3, <1>6, <1>7, <1>8
     DEF Map!Insert, Map!Bind, Map!Reply, Reply, Bound, ContentsOf

LEMMA MapLooksUp ==
  ASSUME MapInv, NEW k \in Key, Find(k)
  PROVE  Map!Lookup(k) /\ IsSmall(dictionary') /\ IsLive'
<1>1. IsLive /\ IsSmall(dictionary) /\ dictionary' = Touch(dictionary)
  BY StatusesApart DEF MapInv, IsLive, IsDefined, Find
<1>2. dictionary' = dictionary /\ result' = Reply("Find", k, LookUp(dictionary, k))
  BY <1>1, SmallSteps DEF Find
<1>3. IsLive' /\ ContentsOf(dictionary)' = ContentsOf(dictionary)
  BY <1>1, <1>2, ContentsOfNext DEF IsLive
<1>4. LookUp(dictionary, k) =
        IF k \in DOMAIN ContentsOf(dictionary) THEN ContentsOf(dictionary)[k] ELSE NULL
  BY NotFound DEF ContentsOf, Reachable
<1>5. QED
  BY <1>1, <1>2, <1>3, <1>4 DEF Map!Lookup, Map!Reply, Reply, ContentsOf

LEMMA MapRemoves ==
  ASSUME MapInv, NEW k \in Key, Delete(k)
  PROVE  Map!Remove(k) /\ IsSmall(dictionary') /\ IsLive'
<1>1. IsLive /\ dictionary.status = "live" /\ IsSmall(dictionary)
  BY StatusesApart DEF MapInv, IsLive, IsDefined, Delete
<1>2. Touch(dictionary) = dictionary
  BY <1>1, SmallSteps
<1>3. \/ /\ FoundIn(dictionary, k) = -1
         /\ dictionary' = dictionary /\ result' = Reply("Delete", k, 0)
      \/ /\ FoundIn(dictionary, k) # -1
         /\ dictionary' = RemoveFound(dictionary, k) /\ result' = Reply("Delete", k, 1)
  BY <1>2 DEF Delete
<1>4. /\ IsSmall(dictionary') /\ dictionary'.status = "live"
      /\ SameElsewhere(dictionary, dictionary', k) /\ FoundIn(dictionary', k) = -1
  <2>1. CASE FoundIn(dictionary, k) = -1
    BY <1>1, <1>3, <2>1 DEF SameElsewhere
  <2>2. CASE FoundIn(dictionary, k) # -1
    BY <1>1, <1>3, <2>2, SmallRemove
  <2>3. QED BY <2>1, <2>2
<1>5. ContentsOf(dictionary)' = Forgotten(ContentsOf(dictionary), k)
  BY <1>4, ContentsForgotten, ContentsOfNext
<1>6. result' = Reply("Delete", k, IF k \in DOMAIN ContentsOf(dictionary) THEN 1 ELSE 0)
  BY <1>3 DEF ContentsOf, Reachable
<1>7. IsLive'
  BY <1>4 DEF IsLive
<1>8. QED
  BY <1>1, <1>4, <1>5, <1>6, <1>7
     DEF Map!Remove, Map!Forget, Map!Reply, Reply, Forgotten, ContentsOf

LEMMA MapPuts ==
  ASSUME MapInv, NEW k \in Key, NEW v \in Value, Replace(k, v)
  PROVE  Map!Put(k, v) /\ IsSmall(dictionary') /\ IsLive'
<1>1. /\ IsLive /\ dictionary.status = "live" /\ IsSmall(dictionary) /\ StaysSmall
      /\ NodeNumber(dictionary) < MaxNodes
  BY StatusesApart DEF MapInv, IsLive, IsDefined, Replace
<1>2. PICK outcome, added : outcome = AddNode(dictionary, k, v) /\ added = outcome.dict
  OBVIOUS
<1>3. /\ IsSmall(added) /\ added.status = "live"
      /\ outcome.added <=> FoundIn(dictionary, k) = -1
      /\ outcome.added => Binds(added, k, v) /\ SameElsewhere(dictionary, added, k)
      /\ ~outcome.added => added = dictionary
  BY <1>1, <1>2, SmallAdd
<1>4. Touch(added) = added
  BY <1>3, SmallSteps
<1>5. \/ /\ outcome.added
         /\ dictionary' = added /\ result' = Reply("Replace", k, 1)
      \/ /\ ~outcome.added
         /\ dictionary' = IF FoundIn(added, k) = -1
                          THEN Fault(added, "replace_null_node")
                          ELSE ReplaceFound(added, k, v)
         /\ result' = Reply("Replace", k, 0)
  BY <1>2, <1>3, <1>4 DEF Replace
<1>6. /\ IsSmall(dictionary') /\ dictionary'.status = "live"
      /\ Binds(dictionary', k, v) /\ SameElsewhere(dictionary, dictionary', k)
  <2>1. CASE outcome.added
    BY <1>3, <1>5, <2>1
  <2>2. CASE ~outcome.added
    <3>1. FoundIn(dictionary, k) # -1 /\ dictionary' = ReplaceFound(dictionary, k, v)
      BY <1>3, <1>5, <2>2
    <3>2. QED BY <1>1, <3>1, SmallReplace
  <2>3. QED BY <2>1, <2>2
<1>7. ContentsOf(dictionary)' = Bound(ContentsOf(dictionary), k, v)
  BY <1>6, ContentsBound, ContentsOfNext
<1>8. result' = Reply("Replace", k, IF k \in DOMAIN ContentsOf(dictionary) THEN 0 ELSE 1)
  BY <1>3, <1>5 DEF ContentsOf, Reachable
<1>9. IsLive'
  BY <1>6 DEF IsLive
<1>10. QED
  BY <1>1, <1>6, <1>7, <1>8, <1>9
     DEF Map!Put, Map!Bind, Map!Reply, Reply, Bound, ContentsOf

(* DictionaryCreate() and DictionaryRelease().                             *)
LEMMA MapOpensOrCloses ==
  ASSUME MapInv, Create \/ Release
  PROVE  (Map!Open \/ Map!Close) /\ (IsDefined' => IsSmall(dictionary'))
<1>1. CASE Create
  <2>1. /\ dictionary.status = "absent" /\ dictionary' = NewDictionary("live")
        /\ result' = result
    BY <1>1 DEF Create
  <2>2. /\ IsSmall(dictionary') /\ ContentsOf(dictionary') = [k \in {} |-> NULL]
        /\ dictionary'.status = "live"
    BY <2>1, SmallNew DEF NewDictionary
  <2>3. ~IsLive /\ IsLive'
    BY <2>1, <2>2 DEF IsLive
  <2>4. ContentsOf(dictionary)' = [k \in {} |-> NULL]
    BY <2>2, ContentsOfNext
  <2>5. Map!Open
    BY <2>1, <2>3, <2>4 DEF Map!Open, Map!Nothing, ContentsOf
  <2>6. QED BY <2>2, <2>5
<1>2. CASE Release
  <2>1. /\ IsLive /\ result' = result
        /\ dictionary' = IF NodeNumber(dictionary) > 0
                         THEN Fault(dictionary, "double_free")
                         ELSE NewDictionary("absent")
    BY <1>2 DEF Release
  <2>2. IsSound(dictionary) /\ "double_free" \in Faults \ {"rehash_overrun"}
    BY DEF MapInv, Inv, Faults
  <2>3. /\ dictionary'.status # "live"
        /\ IsDefined' => IsSmall(dictionary')
    <3>1. CASE NodeNumber(dictionary) > 0
      <4>1. dictionary' = Fault(dictionary, "double_free")
        BY <2>1, <3>1
      <4>2. dictionary'.status = "double_free"
        BY <2>2, <4>1, SoundFault
      <4>3. QED BY <2>2, <4>2 DEF IsDefined
    <3>2. CASE ~(NodeNumber(dictionary) > 0)
      <4>1. dictionary' = NewDictionary("absent")
        BY <2>1, <3>2
      <4>2. QED BY <4>1, SmallNew DEF NewDictionary
    <3>3. QED BY <3>1, <3>2
  <2>4. ContentsOf(dictionary)' = [k \in {} |-> NULL]
    BY <2>3, ContentsOfUnused, ContentsOfNext
  <2>5. ~IsLive'
    BY <2>3 DEF IsLive
  <2>6. Map!Close
    BY <2>1, <2>4, <2>5 DEF Map!Close, Map!Nothing, ContentsOf
  <2>7. QED BY <2>3, <2>6
<1>3. QED BY <1>1, <1>2

(* DictionaryExpand() makes the first table or refuses.                    *)
LEMMA MapExpands ==
  ASSUME MapInv, NEW size \in ExpandSizes, Expand(size)
  PROVE  /\ IsSmall(dictionary') /\ SameBindings(dictionary, dictionary')
         /\ dictionary'.status = dictionary.status
<1>1. IsSmall(dictionary) /\ StaysSmall
  BY StatusesApart DEF MapInv, IsLive, IsDefined, Expand
<1>2. size \in Nat /\ size <= InitialSize
  BY <1>1, ParametersAssumption DEF StaysSmall
<1>3. LargeEnough(size) # {} /\ NextPower(size) = InitialSize
  BY <1>2, SmallPower
<1>4. dictionary' = IF CanExpand(dictionary, size) THEN ExpandTo(dictionary, size)
                    ELSE dictionary
  BY <1>3 DEF Expand
<1>5. CASE CanExpand(dictionary, size)
  <2>1. dictionary.table[0].size = 0
    BY <1>1, <1>3, <1>5 DEF CanExpand, IsSmall
  <2>2. QED BY <1>1, <1>2, <1>4, <1>5, <2>1, SmallFirstTable
<1>6. CASE ~CanExpand(dictionary, size)
  BY <1>1, <1>4, <1>6 DEF SameBindings
<1>7. QED BY <1>5, <1>6

(* One step per action of Next, and the stuttering step.                   *)
LEMMA MapStep ==
  ASSUME MapInv, [Next]_vars
  PROVE  [Map!Next]_Map!vars /\ (IsDefined' => IsSmall(dictionary'))
<1> DEFINE Goal == /\ Map!Next \/ UNCHANGED Map!vars
                   /\ IsDefined' => IsSmall(dictionary')
<1>a. ASSUME dictionary'.status = dictionary.status, result' = result,
             SameBindings(dictionary, dictionary'),
             IsDefined => IsSmall(dictionary')
      PROVE  Goal
  <2>1. ContentsOf(dictionary') = ContentsOf(dictionary)
    BY <1>a, ContentsSame
  <2>2. UNCHANGED Map!vars
    BY <1>a, <2>1, MapStutters
  <2>3. IsDefined' = IsDefined
    BY <1>a DEF IsDefined
  <2>4. QED BY <1>a, <2>2, <2>3
<1>1. CASE Create \/ Release
  BY <1>1, MapOpensOrCloses DEF Map!Next
<1>2. CASE dictionary' = dictionary /\ result' = result
  <2>1. SameBindings(dictionary, dictionary') /\ (IsDefined => IsSmall(dictionary'))
    BY <1>2 DEF SameBindings, MapInv
  <2>2. QED BY <1>a, <1>2, <2>1
<1>3. ASSUME NEW m \in RehashCounts, Rehash(m) PROVE Goal
  <2>1. IsSmall(dictionary)
    BY <1>3, StatusesApart DEF MapInv, IsLive, IsDefined, Rehash
  <2>2. dictionary' = dictionary /\ result' = result
    BY <1>3, <2>1, SmallSteps DEF Rehash
  <2>3. QED BY <1>2, <2>2
<1>4. ASSUME NEW size \in ExpandSizes, Expand(size) PROVE Goal
  <2>1. /\ IsSmall(dictionary') /\ SameBindings(dictionary, dictionary')
        /\ dictionary'.status = dictionary.status
    BY <1>4, MapExpands
  <2>2. result' = result
    BY <1>4 DEF Expand
  <2>3. QED BY <1>a, <2>1, <2>2
<1>5. ASSUME NEW k \in Key, AddRaw(k) PROVE Goal
  <2>1. /\ IsLive /\ NodeNumber(dictionary) < MaxNodes
        /\ dictionary' = AddNode(dictionary, k, Unset).dict
        /\ result' = Reply("AddRaw", k, IF AddNode(dictionary, k, Unset).added
                                        THEN 1 ELSE NULL)
    BY <1>5 DEF AddRaw
  <2>2. Map!Insert("AddRaw", k, Unset, NULL) /\ IsSmall(dictionary')
    BY <2>1, MapInserts
  <2>3. QED BY <2>2 DEF Map!Next
<1>6. ASSUME NEW k \in Key, NEW v \in Value, Add(k, v) PROVE Goal
  <2>1. /\ IsLive /\ NodeNumber(dictionary) < MaxNodes
        /\ dictionary' = AddNode(dictionary, k, v).dict
        /\ result' = Reply("Add", k, IF AddNode(dictionary, k, v).added
                                     THEN 1 ELSE 0)
    BY <1>6 DEF Add
  <2>2. Map!Insert("Add", k, v, 0) /\ IsSmall(dictionary')
    BY <2>1, MapInserts
  <2>3. QED BY <2>2 DEF Map!Next
<1>7. ASSUME NEW k \in Key, Find(k) PROVE Goal
  BY <1>7, MapLooksUp DEF Map!Next
<1>8. ASSUME NEW k \in Key, NEW v \in Value, Replace(k, v) PROVE Goal
  BY <1>8, MapPuts DEF Map!Next
<1>9. ASSUME NEW k \in Key, Delete(k) PROVE Goal
  BY <1>9, MapRemoves DEF Map!Next
<1>10. \/ dictionary' = dictionary /\ result' = result
       \/ Create \/ Release
       \/ (\E m \in RehashCounts : Rehash(m))
       \/ (\E size \in ExpandSizes : Expand(size))
       \/ (\E k \in Key : AddRaw(k) \/ Find(k) \/ Delete(k))
       \/ (\E k \in Key, v \in Value : Add(k, v) \/ Replace(k, v))
  BY DEF Next, vars, EnableResize, DisableResize
<1>11. QED
  BY <1>1, <1>2, <1>3, <1>4, <1>5, <1>6, <1>7, <1>8, <1>9, <1>10

LEMMA MapInit == StaysSmall /\ Init => MapInv /\ Map!Init
<1> SUFFICES ASSUME StaysSmall, Init PROVE MapInv /\ Map!Init
  OBVIOUS
<1>1. dictionary = NewDictionary("absent") /\ result = NULL
  BY DEF Init
<1>2. IsSmall(dictionary) /\ ContentsOf(dictionary) = [k \in {} |-> NULL]
  BY <1>1, SmallNew
<1>3. ~IsLive
  BY <1>1 DEF IsLive, NewDictionary
<1>4. Inv
  BY InvInit
<1>5. Map!Init
  BY <1>1, <1>2, <1>3 DEF Map!Init, Map!Nothing, ContentsOf
<1>6. QED BY <1>2, <1>4, <1>5 DEF MapInv

LEMMA MapInvNext == MapInv /\ [Next]_vars => MapInv'
<1> SUFFICES ASSUME MapInv, [Next]_vars PROVE MapInv'
  OBVIOUS
<1>1. Inv'
  BY InvNext DEF MapInv
<1>2. IsDefined' => IsSmall(dictionary')
  BY MapStep
<1>3. IsSmall(dictionary)' = IsSmall(dictionary')
  BY DEF IsSmall, IsSound, IsDictionary, IsHashTable, CountsMatch, Places, Frontier,
         IsRehashing, NoTwins, Hits, WithKey
<1>4. QED BY <1>1, <1>2, <1>3 DEF MapInv

(* While the bounds leave no call a reason to start a rehash, every call   *)
(* of the dictionary, whatever the hash function and the order of the      *)
(* calls, is that of an associative array, up to the release of nodes.     *)
THEOREM SmallDictionaryIsAMap == StaysSmall /\ Spec => ImplementsMap
<1>1. MapInv /\ [Next]_vars => [Map!Next]_Map!vars
  BY MapStep
<1>2. QED
  BY <1>1, MapInit, MapInvNext, PTL DEF Spec, ImplementsMap, Map!Spec

=============================================================================
