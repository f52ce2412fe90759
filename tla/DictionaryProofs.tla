-------------------------- MODULE DictionaryProofs --------------------------
(***************************************************************************)
(* The safety of Dictionary for every hash function, every set of sizes,   *)
(* ratio and bound.  The invariant, IsSound(dictionary), is inductive:     *)
(* the frontier of the rehash and the agreement of the counters with the   *)
(* chains need each other, the one to know that the loop of                *)
(* DictionaryRehash() ends inside the first table, the other to know that  *)
(* the table is empty when its counter says so.  The second half is about  *)
(* what needs several parts of one call together: the lookup inside        *)
(* DictionaryReplace() finds the node that made DictionaryAdd() refuse,    *)
(* whatever slots it moves first, and while one rehash lasts the first     *)
(* table only drains.                                                      *)
(***************************************************************************)
EXTENDS DictionaryLemmas

(* A change of one table that keeps its size.                              *)
LEMMA SoundWithTable ==
  ASSUME NEW d, IsSound(d), NEW t \in 0..1, NEW T,
         IsCountedTable(T), T.size = d.table[t].size,
         t = 0 => \A h \in 0..(d.rehash_index - 1) : T.slot[h] = <<>>
  PROVE  IsSound([d EXCEPT !.table[t] = T])
<1> DEFINE e == [d EXCEPT !.table[t] = T]
<1>1. IsDictionary(d) /\ Frontier(d) /\ d.status # "rehash_overrun"
  BY DEF IsSound
<1>2. d = [table        |-> [u \in 0..1 |-> d.table[u]],
           rehash_index |-> d.rehash_index,
           status       |-> d.status]
  BY <1>1 DEF IsDictionary
<1>3. /\ e = [table        |-> [u \in 0..1 |-> e.table[u]],
              rehash_index |-> e.rehash_index,
              status       |-> e.status]
      /\ e.rehash_index = d.rehash_index /\ e.status = d.status
      /\ e.table[t] = T
      /\ \A u \in (0..1) \ {t} : e.table[u] = d.table[u]
  BY <1>2
<1> HIDE DEF e
<1>4. \A u \in 0..1 : IsHashTable(e.table[u]) /\ CountsMatch(e.table[u])
  BY <1>1, <1>3 DEF IsSound, IsDictionary, IsCountedTable
<1>5. IsDictionary(e)
  BY <1>1, <1>3, <1>4 DEF IsDictionary
<1>6. \A u \in 0..1 : e.table[u].size = d.table[u].size
  BY <1>3
<1>7. \A h \in 0..(e.rehash_index - 1) :
        IsRehashing(e) => e.table[0].slot[h] = <<>>
  <2>1. CASE t = 0
    BY <1>3, <2>1
  <2>2. CASE t = 1
    BY <1>1, <1>3, <2>2 DEF Frontier, IsRehashing
  <2>3. QED BY <2>1, <2>2
<1>8. Frontier(e)
  BY <1>1, <1>3, <1>6, <1>7 DEF Frontier, IsRehashing
<1>9. QED
  BY <1>1, <1>3, <1>4, <1>5, <1>8 DEF IsSound, e

(* A fault other than an overrun changes nothing but the status.           *)
LEMMA SoundFault ==
  ASSUME NEW d, IsSound(d), NEW f \in Faults \ {"rehash_overrun"}
  PROVE  /\ IsSound(Fault(d, f))
         /\ NodeNumber(Fault(d, f)) = NodeNumber(d)
         /\ Fault(d, f).status = f
         /\ Fault(d, f).table = d.table
         /\ Fault(d, f).rehash_index = d.rehash_index
<1> DEFINE e == Fault(d, f)
<1>1. d = [table        |-> [u \in 0..1 |-> d.table[u]],
           rehash_index |-> d.rehash_index,
           status       |-> d.status]
  BY DEF IsSound, IsDictionary
<1>2. /\ e = [table        |-> [u \in 0..1 |-> e.table[u]],
              rehash_index |-> e.rehash_index,
              status       |-> e.status]
      /\ e.table = d.table /\ e.rehash_index = d.rehash_index
      /\ e.status = f
  BY <1>1 DEF Fault
<1> HIDE DEF e
<1>3. IsDictionary(e)
  BY <1>2 DEF IsSound, IsDictionary
<1>4. Frontier(e)
  BY <1>2 DEF IsSound, Frontier, IsRehashing
<1>5. QED
  BY <1>2, <1>3, <1>4 DEF IsSound, NodeNumber, e

-----------------------------------------------------------------------------
(* DictionaryRehash().                                                     *)

LEMMA FinishRehashSound ==
  ASSUME NEW d, IsCountedTable(d.table[1]), d.table[0].count = 0,
         d.table[1].count \in Nat,
         d.status \in ({"absent", "live"} \cup Faults) \ {"rehash_overrun"}
  PROVE  /\ IsSound(FinishRehash(d))
         /\ NodeNumber(FinishRehash(d)) = NodeNumber(d)
         /\ FinishRehash(d).status = d.status
         /\ ~IsRehashing(FinishRehash(d))
         /\ FinishRehash(d).table[0] = d.table[1]
<1> DEFINE e == FinishRehash(d)
<1>1. e = [table |-> Tables(d.table[1], EmptyTable(0)), rehash_index |-> -1,
           status |-> d.status]
  BY DEF FinishRehash
<1>2. /\ e.table[0] = d.table[1] /\ e.table[1] = EmptyTable(0)
      /\ e.rehash_index = -1 /\ e.status = d.status
  BY <1>1 DEF Tables
<1>3. IsCountedTable(EmptyTable(0)) /\ EmptyTable(0).size = 0
  BY EmptyTableCounted
<1>4. Frontier(e)
  BY <1>2, <1>3 DEF Frontier, IsRehashing
<1>5. IsSound(e)
  BY <1>1, <1>3, <1>4, MadeOfSoundTables
<1>6. EmptyTable(0).count = 0
  BY DEF EmptyTable
<1>7. QED
  BY <1>2, <1>5, <1>6 DEF NodeNumber, IsRehashing

LEMMA MoveSlotsSound ==
  ASSUME NEW d, IsSound(d), IsRehashing(d),
         NEW j \in d.rehash_index..d.table[0].size,
         \A i \in FilledSlots(d, j) : i < d.table[1].size
  PROVE  LET m == MoveSlots(d, j) IN
         /\ NodeNumber(m) = NodeNumber(d)
         /\ m.status = d.status /\ m.rehash_index = j
         /\ IsCountedTable(m.table[1])
         /\ m.table[0].size = d.table[0].size
         /\ m.table[1].size = d.table[1].size
         /\ m.table[0].count <= d.table[0].count
         /\ m.table[1].count \in Nat
         /\ m.table[0].count # 0 => IsSound(m)
<1> DEFINE m     == MoveSlots(d, j)
           left  == LeftTable(d, j)
           right == GainedTable(d, j)
<1>1. m = [table |-> Tables(left, right), rehash_index |-> j, status |-> d.status]
  BY DEF MoveSlots
<1>2. /\ m.table[0] = left /\ m.table[1] = right
      /\ m.rehash_index = j /\ m.status = d.status
  BY <1>1 DEF Tables
<1>3. /\ IsCountedTable(left) /\ left.size = d.table[0].size
      /\ \A i \in 0..(j - 1) : left.slot[i] = <<>>
  BY LeftTableCounted
<1>4. IsCountedTable(right) /\ right.size = d.table[1].size
  BY GainedTableCounted
<1>5. /\ left.count = d.table[0].count - Cardinality(MovedPlaces(d, j))
      /\ right.count = d.table[1].count + Cardinality(MovedPlaces(d, j))
  BY DEF LeftTable, GainedTable
<1>6. /\ Cardinality(MovedPlaces(d, j)) \in Nat
      /\ d.table[0].count \in Nat /\ d.table[1].count \in Nat
      /\ d.rehash_index \in Nat /\ d.table[0].size \in Nat
  BY MovedPlacesFinite, SoundTables DEF IsRehashing
<1>7. d.status \in ({"absent", "live"} \cup Faults) \ {"rehash_overrun"}
  BY DEF IsSound, IsDictionary
<1> HIDE DEF left, right, m
<1>8. ASSUME left.count # 0 PROVE IsSound(m)
  <2>1. j < left.size
    <3>1. SUFFICES ASSUME j = left.size PROVE FALSE
      BY <1>3, <1>6
    <3>2. \A p : p \notin Places(left)
      BY <1>3, <3>1, PlacesOfTable DEF IsCountedTable
    <3>3. Cardinality(Places(left)) = 0
      BY <3>2, FS_EmptySet
    <3>4. QED BY <1>3, <1>8, <3>3 DEF IsCountedTable, CountsMatch
  <2>2. Frontier(m)
    <3>1. d.table[1].size > 0
      BY DEF IsSound, Frontier
    <3>2. IsRehashing(m)
      BY <1>2, <1>6 DEF IsRehashing
    <3>3. QED BY <1>2, <1>3, <1>4, <2>1, <3>1, <3>2 DEF Frontier
  <2>3. j \in Nat
    BY <1>6
  <2>4. QED BY <1>1, <1>3, <1>4, <1>7, <2>2, <2>3, MadeOfSoundTables
<1>9. NodeNumber(m) = NodeNumber(d)
  BY <1>2, <1>5, <1>6 DEF NodeNumber
<1>10. m.table[0].count <= d.table[0].count /\ m.table[1].count \in Nat
  BY <1>2, <1>5, <1>6
<1>11. QED
  BY <1>2, <1>3, <1>4, <1>8, <1>9, <1>10 DEF m

(* Any number of rehash steps: sound, and no node more or less.            *)
LEMMA RehashSlotsSound ==
  ASSUME NEW d, IsSound(d), NEW n
  PROVE  LET e == RehashSlots(d, n) IN
         /\ IsSound(e)
         /\ NodeNumber(e) = NodeNumber(d)
         /\ e.status \in {d.status, "rehash_out_of_bounds"}
         /\ ~IsRehashing(d) => e = d
         /\ IsRehashing(e) =>
              /\ IsRehashing(d)
              /\ e.rehash_index >= d.rehash_index
              /\ e.table[0].size = d.table[0].size
              /\ e.table[0].count <= d.table[0].count
         /\ d.table[0].size > 0 => e.table[0].size > 0
<1> DEFINE e == RehashSlots(d, n)
           j == Min(LoopEndings(d, n))
           m == MoveSlots(d, j)
<1>1. /\ d.table[0].count \in Nat /\ d.table[0].size \in Nat
      /\ d.rehash_index \in Nat \cup {-1}
  BY SoundTables
<1>2. CASE ~IsRehashing(d)
  BY <1>2 DEF RehashSlots
<1>3. CASE IsRehashing(d)
  <2>1. LoopEndings(d, n) # {} /\ j \in d.rehash_index..d.table[0].size
    BY <1>3, LoopMeetsItsEnd
  <2>2. d.rehash_index \in Nat
    BY <1>1, <1>3 DEF IsRehashing
  <2>3. CASE \E i \in FilledSlots(d, j) : i >= d.table[1].size
    <3>1. e = Fault(d, "rehash_out_of_bounds")
      BY <1>3, <2>1, <2>3 DEF RehashSlots
    <3>2. "rehash_out_of_bounds" \in Faults \ {"rehash_overrun"}
      BY DEF Faults
    <3>3. QED BY <1>1, <1>3, <2>2, <3>1, <3>2, SoundFault DEF IsRehashing
  <2>4. CASE ~\E i \in FilledSlots(d, j) : i >= d.table[1].size
    <3>1. e = IF m.table[0].count = 0 THEN FinishRehash(m) ELSE m
      BY <1>3, <2>1, <2>4 DEF RehashSlots
    <3>2. \A i \in FilledSlots(d, j) : i < d.table[1].size
      <4>1. \A i \in FilledSlots(d, j) : i \in Int
        BY <2>1, <2>2 DEF FilledSlots, VisitedSlots
      <4>2. d.table[1].size \in Nat
        BY SoundTables
      <4>3. QED BY <2>4, <4>1, <4>2
    <3>3. /\ NodeNumber(m) = NodeNumber(d)
          /\ m.status = d.status /\ m.rehash_index = j
          /\ IsCountedTable(m.table[1])
          /\ m.table[0].size = d.table[0].size
          /\ m.table[1].size = d.table[1].size
          /\ m.table[0].count <= d.table[0].count
          /\ m.table[1].count \in Nat
          /\ m.table[0].count # 0 => IsSound(m)
      BY <1>3, <2>1, <3>2, MoveSlotsSound
    <3>4. d.status \in ({"absent", "live"} \cup Faults) \ {"rehash_overrun"}
      BY DEF IsSound, IsDictionary
    <3>5. d.table[1].size > 0
      BY <1>3 DEF IsSound, Frontier
    <3> HIDE DEF m, j, e
    <3>6. CASE m.table[0].count = 0
      <4>1. /\ IsSound(FinishRehash(m))
            /\ NodeNumber(FinishRehash(m)) = NodeNumber(m)
            /\ FinishRehash(m).status = m.status
            /\ ~IsRehashing(FinishRehash(m))
            /\ FinishRehash(m).table[0] = m.table[1]
        BY <3>3, <3>4, <3>6, FinishRehashSound
      <4>2. e = FinishRehash(m)
        BY <3>1, <3>6
      <4>3. QED BY <1>3, <3>3, <3>5, <4>1, <4>2 DEF e
    <3>7. CASE m.table[0].count # 0
      <4>1. e = m
        BY <3>1, <3>7
      <4>2. m.rehash_index >= d.rehash_index
        BY <2>1, <2>2, <3>3
      <4>3. QED BY <1>3, <3>3, <3>7, <4>1, <4>2 DEF e
    <3>8. QED BY <3>6, <3>7
  <2>5. QED BY <2>3, <2>4
<1>4. QED
  BY <1>2, <1>3

-----------------------------------------------------------------------------
(* Growing.                                                                *)

LEMMA NextPowerIsASize ==
  ASSUME NEW size, \E s \in TableSizes : size <= s
  PROVE  NextPower(size) \in TableSizes /\ NextPower(size) > 0
<1> DEFINE S == LargeEnough(size)
<1>1. S \in SUBSET Nat /\ S # {} /\ S \subseteq TableSizes
  BY SizesAssumption DEF LargeEnough
<1> HIDE DEF S
<1>2. Min(S) \in S
  BY <1>1, MinIsLeast
<1>3. QED
  BY <1>1, <1>2, SizesAssumption DEF NextPower, S

LEMMA ExpandToSound ==
  ASSUME NEW d, IsSound(d), ~IsRehashing(d),
         NEW size, \E s \in TableSizes : size <= s
  PROVE  LET e == ExpandTo(d, size) IN
         /\ IsSound(e)
         /\ NodeNumber(e) = NodeNumber(d)
         /\ e.status = d.status
         /\ e.rehash_index \in {-1, 0}
         /\ e.table[0].size > 0
<1> DEFINE e   == ExpandTo(d, size)
           new == NewTable(size)
<1>1. IsCountedTable(new) /\ new.size > 0 /\ new.count = 0
  BY NextPowerIsASize, EmptyTableCounted DEF NewTable, EmptyTable
<1>2. /\ IsCountedTable(d.table[0]) /\ IsCountedTable(d.table[1])
      /\ d.table[0].size \in Nat /\ d.table[1].size \in Nat
      /\ d.table[0].count \in Nat /\ d.table[1].count \in Nat
  BY SoundTables
<1>3. d.table[1].size = 0
  BY <1>2 DEF IsSound, Frontier
<1>4. \A t \in 0..1 : d.table[t].size = 0 => d.table[t].count = 0
  <2> SUFFICES ASSUME NEW t \in 0..1, d.table[t].size = 0
               PROVE  d.table[t].count = 0
    OBVIOUS
  <2>1. IsHashTable(d.table[t]) /\ CountsMatch(d.table[t])
    BY DEF IsSound, IsDictionary
  <2>2. \A p : p \notin Places(d.table[t])
    BY <2>1, PlacesOfTable
  <2>3. Cardinality(Places(d.table[t])) = 0
    BY <2>2, FS_EmptySet
  <2>4. QED BY <2>1, <2>3 DEF CountsMatch
<1>5. d.status \in ({"absent", "live"} \cup Faults) \ {"rehash_overrun"}
  BY DEF IsSound, IsDictionary
<1> HIDE DEF new
<1>6. CASE d.table[0].size = 0
  <2>1. d = [table        |-> [t \in 0..1 |-> d.table[t]],
             rehash_index |-> d.rehash_index,
             status       |-> d.status]
    BY DEF IsSound, IsDictionary
  <2>2. e = [d EXCEPT !.table[0] = new]
    BY <1>6 DEF ExpandTo, new
  <2>3. e = [table |-> Tables(new, d.table[1]), rehash_index |-> -1,
             status |-> d.status]
    <3>1. /\ e = [table        |-> [t \in 0..1 |-> e.table[t]],
                  rehash_index |-> e.rehash_index,
                  status       |-> e.status]
          /\ e.rehash_index = d.rehash_index /\ e.status = d.status
          /\ e.table[0] = new /\ e.table[1] = d.table[1]
      BY <2>1, <2>2
    <3> HIDE DEF e
    <3>2. [t \in 0..1 |-> e.table[t]] = Tables(new, d.table[1])
      BY <3>1 DEF Tables
    <3>3. d.rehash_index = -1
      BY DEF IsRehashing
    <3>4. QED BY <3>1, <3>2, <3>3
  <2>4. /\ e.table[0] = new /\ e.table[1] = d.table[1]
        /\ e.rehash_index = -1 /\ e.status = d.status
    BY <2>3 DEF Tables
  <2> HIDE DEF e
  <2>5. Frontier(e)
    BY <1>3, <2>4 DEF Frontier, IsRehashing
  <2>6. IsSound(e)
    BY <1>1, <1>2, <1>5, <2>3, <2>5, MadeOfSoundTables
  <2>7. NodeNumber(e) = NodeNumber(d)
    BY <1>1, <1>4, <1>6, <2>4 DEF NodeNumber
  <2>8. QED BY <1>1, <2>4, <2>6, <2>7 DEF e
<1>7. CASE d.table[0].size # 0
  <2>1. e = [table |-> Tables(d.table[0], new), rehash_index |-> 0,
             status |-> d.status]
    BY <1>7 DEF ExpandTo, new
  <2>2. /\ e.table[0] = d.table[0] /\ e.table[1] = new
        /\ e.rehash_index = 0 /\ e.status = d.status
    BY <2>1 DEF Tables
  <2> HIDE DEF e
  <2>3. d.table[0].size > 0
    BY <1>2, <1>7
  <2>4. Frontier(e)
    BY <1>1, <2>2, <2>3 DEF Frontier, IsRehashing
  <2>5. IsSound(e)
    <3>1. 0 \in Nat \cup {-1}
      OBVIOUS
    <3>2. IsCountedTable(d.table[0]) /\ IsCountedTable(new)
      BY <1>1, <1>2
    <3>3. QED BY <1>5, <2>1, <2>4, <3>1, <3>2, MadeOfSoundTables
  <2>6. NodeNumber(e) = NodeNumber(d)
    BY <1>1, <1>2, <1>3, <1>4, <2>2 DEF NodeNumber
  <2>7. QED BY <2>2, <2>3, <2>5, <2>6 DEF e
<1>8. QED
  BY <1>6, <1>7

LEMMA ExpandIfNeededSound ==
  ASSUME NEW d, IsSound(d), NodeNumber(d) <= MaxNodes
  PROVE  LET e == ExpandIfNeeded(d) IN
         /\ IsSound(e)
         /\ NodeNumber(e) = NodeNumber(d)
         /\ e.status = d.status
         /\ IsRehashing(d) => e = d
         /\ ~IsRehashing(d) => e.rehash_index \in {-1, 0}
         /\ e.table[0].size = 0 => WantsExpand(d) /\ ~CanExpand(d, WantedSize(d))
<1> DEFINE e == ExpandIfNeeded(d)
<1>1. /\ d.table[0].size \in Nat
      /\ d.table[0].count \in Nat /\ d.table[1].count \in Nat
  BY SoundTables
<1>2. CASE WantsExpand(d) /\ CanExpand(d, WantedSize(d))
  <2>1. \E s \in TableSizes : WantedSize(d) <= s
    <3>1. CASE d.table[0].size = 0
      BY <3>1, SizesAssumption DEF WantedSize
    <3>2. CASE d.table[0].size # 0
      <4>1. WantedSize(d) \in 0..(2 * MaxNodes)
        BY <1>1, <3>2, ParametersAssumption DEF WantedSize, NodeNumber
      <4>2. QED BY <4>1, GrowthAssumption
    <3>3. QED BY <3>1, <3>2
  <2>2. ~IsRehashing(d)
    BY <1>2 DEF CanExpand
  <2>3. e = ExpandTo(d, WantedSize(d))
    BY <1>2 DEF ExpandIfNeeded
  <2> HIDE DEF e
  <2>4. QED BY <2>1, <2>2, <2>3, ExpandToSound DEF e
<1>3. CASE ~(WantsExpand(d) /\ CanExpand(d, WantedSize(d)))
  <2>1. e = d
    BY <1>3 DEF ExpandIfNeeded
  <2>2. d.table[0].size = 0 => WantsExpand(d)
    BY DEF WantsExpand
  <2>3. ~IsRehashing(d) => d.rehash_index = -1
    BY DEF IsRehashing
  <2> HIDE DEF e
  <2>4. QED BY <1>3, <2>1, <2>2, <2>3 DEF e
<1>4. QED
  BY <1>2, <1>3

-----------------------------------------------------------------------------
(* Looking up and adding.                                                  *)

LEMMA SlotIndexInTable ==
  ASSUME NEW T, IsHashTable(T), T.size > 0, NEW k \in Key
  PROVE  SlotIndex(T, k) \in 0..(T.size - 1)
<1>1. T.size \in Nat /\ Hash[k] \in Int
  BY SizesAssumption, HashAssumption DEF IsHashTable
<1>2. QED
  BY <1>1 DEF SlotIndex

LEMMA TouchSound ==
  ASSUME NEW d, IsSound(d)
  PROVE  LET e == Touch(d) IN
         /\ IsSound(e)
         /\ NodeNumber(e) = NodeNumber(d)
         /\ e.status \in {d.status, "rehash_out_of_bounds"}
         /\ IsRehashing(e) =>
              /\ e.table[0].size = d.table[0].size
              /\ e.table[0].count <= d.table[0].count
              /\ e.rehash_index >= d.rehash_index
<1>1. CASE d.table[0].size = 0
  <2>1. d.table[0].count \in Nat /\ d.rehash_index \in Nat \cup {-1}
    BY SoundTables
  <2>2. QED BY <1>1, <2>1 DEF Touch
<1>2. CASE d.table[0].size # 0
  BY <1>2, RehashSlotsSound DEF Touch, RehashStep
<1>3. QED
  BY <1>1, <1>2

(* What a search that succeeds has found.                                  *)
LEMMA FoundNode ==
  ASSUME NEW d, IsSound(d), NEW k \in Key, FoundIn(d, k) # -1
  PROVE  LET t == FoundIn(d, k)
             T == d.table[t]
             i == SlotIndex(T, k)
             j == FirstMatch(T.slot[i], k)
         IN  /\ t \in 0..1
             /\ IsCountedTable(T)
             /\ i \in 0..(T.size - 1)
             /\ T.slot[i] \in Seq(HashTableNode)
             /\ j \in 1..Len(T.slot[i])
             /\ t = 0 => \A h \in 0..(d.rehash_index - 1) : h # i
             /\ d.status = "live"
<1> DEFINE t == FoundIn(d, k)
           T == d.table[t]
           i == SlotIndex(T, k)
           j == FirstMatch(T.slot[i], k)
<1>1. /\ t \in 0..1 /\ d.status = "live" /\ d.table[0].size # 0
      /\ t = 1 => IsRehashing(d)
      /\ j # 0
  <2>1. d.status = "live" /\ d.table[0].size # 0
    BY DEF FoundIn
  <2>2. \/ t = 0 /\ FirstMatch(Chain(d.table[0], k), k) # 0
        \/ t = 1 /\ IsRehashing(d) /\ FirstMatch(Chain(d.table[1], k), k) # 0
    BY <2>1 DEF FoundIn
  <2>3. FirstMatch(Chain(T, k), k) = j
    BY DEF Chain
  <2> HIDE DEF t, j
  <2>4. QED BY <2>1, <2>2, <2>3
<1>2. IsCountedTable(T) /\ IsHashTable(T) /\ T.size \in Nat
  BY <1>1, SoundTables
<1>3. T.size > 0
  <2>1. CASE t = 0
    BY <1>1, <1>2, <2>1
  <2>2. CASE t = 1
    BY <1>1, <2>2 DEF IsSound, Frontier
  <2>3. QED BY <1>1, <2>1, <2>2
<1>4. i \in 0..(T.size - 1)
  BY <1>2, <1>3, SlotIndexInTable
<1>5. T.slot[i] \in Seq(HashTableNode)
  BY <1>2, <1>4 DEF IsHashTable
<1>6. j \in 1..Len(T.slot[i])
  <2>1. j \in 0..Len(T.slot[i])
    BY <1>5, FirstMatchFinds
  <2>2. QED BY <1>1, <2>1
<1>7. t = 0 => \A h \in 0..(d.rehash_index - 1) : h # i
  <2>1. SUFFICES ASSUME t = 0, NEW h \in 0..(d.rehash_index - 1), h = i
                 PROVE  FALSE
    OBVIOUS
  <2>2. IsRehashing(d)
    BY <2>1, SoundTables DEF IsRehashing
  <2>3. T.slot[i] = <<>>
    BY <2>1, <2>2 DEF IsSound, Frontier
  <2>4. QED BY <1>6, <2>3
<1>8. QED
  BY <1>1, <1>2, <1>4, <1>5, <1>6, <1>7

LEMMA RemoveFoundSound ==
  ASSUME NEW d, IsSound(d), NEW k \in Key, FoundIn(d, k) # -1
  PROVE  LET e == RemoveFound(d, k) IN
         /\ IsSound(e) /\ e.status = "live"
<1> DEFINE t == FoundIn(d, k)
           T == d.table[t]
           i == SlotIndex(T, k)
           j == FirstMatch(T.slot[i], k)
           U == Unlink(T, i, j)
<1>1. /\ t \in 0..1 /\ IsCountedTable(T) /\ i \in 0..(T.size - 1)
      /\ j \in 1..Len(T.slot[i])
      /\ t = 0 => \A h \in 0..(d.rehash_index - 1) : h # i
      /\ d.status = "live"
  BY FoundNode
<1>2. /\ IsCountedTable(U) /\ U.size = T.size
      /\ \A h \in 0..(T.size - 1) : h # i => U.slot[h] = T.slot[h]
  BY <1>1, UnlinkCounted
<1>3. t = 0 => \A h \in 0..(d.rehash_index - 1) : U.slot[h] = <<>>
  <2> SUFFICES ASSUME t = 0, NEW h \in 0..(d.rehash_index - 1)
               PROVE  U.slot[h] = <<>>
    OBVIOUS
  <2>1. IsRehashing(d)
    BY SoundTables DEF IsRehashing
  <2>2. /\ d.rehash_index < d.table[0].size
        /\ d.table[0].slot[h] = <<>>
    BY <2>1 DEF IsSound, Frontier
  <2>3. h \in 0..(T.size - 1) /\ h # i
    BY <1>1, <2>2, SoundTables
  <2> HIDE DEF U, i, j
  <2>4. QED BY <1>2, <2>2, <2>3
<1>4. RemoveFound(d, k) = [d EXCEPT !.table[t] = U]
  BY DEF RemoveFound, Chain
<1> HIDE DEF t, T, i, j, U
<1>5. IsSound([d EXCEPT !.table[t] = U])
  BY <1>1, <1>2, <1>3, SoundWithTable DEF T
<1>6. d = [table        |-> [u \in 0..1 |-> d.table[u]],
           rehash_index |-> d.rehash_index,
           status       |-> d.status]
  BY DEF IsSound, IsDictionary
<1>7. [d EXCEPT !.table[t] = U].status = d.status
  BY <1>6
<1>8. QED
  BY <1>1, <1>4, <1>5, <1>7

LEMMA ReplaceFoundSound ==
  ASSUME NEW d, IsSound(d), NEW k \in Key, NEW v \in Value, FoundIn(d, k) # -1
  PROVE  LET e == ReplaceFound(d, k, v) IN
         /\ IsSound(e) /\ e.status = "live"
<1> DEFINE t == FoundIn(d, k)
           T == d.table[t]
           i == SlotIndex(T, k)
           j == FirstMatch(T.slot[i], k)
           U == SetValue(T, i, j, v)
<1>1. /\ t \in 0..1 /\ IsCountedTable(T) /\ i \in 0..(T.size - 1)
      /\ j \in 1..Len(T.slot[i])
      /\ t = 0 => \A h \in 0..(d.rehash_index - 1) : h # i
      /\ d.status = "live"
  BY FoundNode
<1>2. /\ IsCountedTable(U) /\ U.size = T.size
      /\ \A h \in 0..(T.size - 1) : h # i => U.slot[h] = T.slot[h]
  BY <1>1, SetValueCounted
<1>3. t = 0 => \A h \in 0..(d.rehash_index - 1) : U.slot[h] = <<>>
  <2> SUFFICES ASSUME t = 0, NEW h \in 0..(d.rehash_index - 1)
               PROVE  U.slot[h] = <<>>
    OBVIOUS
  <2>1. IsRehashing(d)
    BY SoundTables DEF IsRehashing
  <2>2. /\ d.rehash_index < d.table[0].size
        /\ d.table[0].slot[h] = <<>>
    BY <2>1 DEF IsSound, Frontier
  <2>3. h \in 0..(T.size - 1) /\ h # i
    BY <1>1, <2>2, SoundTables
  <2> HIDE DEF U, i, j
  <2>4. QED BY <1>2, <2>2, <2>3
<1>4. ReplaceFound(d, k, v) = [d EXCEPT !.table[t] = U]
  BY DEF ReplaceFound, Chain
<1> HIDE DEF t, T, i, j, U
<1>5. IsSound([d EXCEPT !.table[t] = U])
  BY <1>1, <1>2, <1>3, SoundWithTable DEF T
<1>6. d = [table        |-> [u \in 0..1 |-> d.table[u]],
           rehash_index |-> d.rehash_index,
           status       |-> d.status]
  BY DEF IsSound, IsDictionary
<1>7. [d EXCEPT !.table[t] = U].status = d.status
  BY <1>6
<1>8. QED
  BY <1>1, <1>4, <1>5, <1>7

(* DictionaryAddRaw() keeps the invariant whichever table it adds to.      *)
LEMMA AddNodeSound ==
  ASSUME NEW d, IsSound(d), d.status = "live", NodeNumber(d) < MaxNodes,
         NEW k \in Key, NEW v \in Value \cup {Unset}
  PROVE  IsSound(AddNode(d, k, v).dict)
<1> DEFINE stepped  == RehashStep(d)
           expanded == ExpandIfNeeded(stepped)
           index    == KeyIndex(stepped, k)
           t        == AddTable(d)
           T        == expanded.table[t]
           node     == [key |-> k, value |-> v]
           e        == AddNode(d, k, v).dict
<1>1. /\ IsSound(stepped)
      /\ NodeNumber(stepped) = NodeNumber(d)
      /\ ~IsRehashing(d) => stepped = d
  BY RehashSlotsSound DEF RehashStep
<1>2. NodeNumber(stepped) <= MaxNodes
  <2>1. NodeNumber(d) \in Nat
    BY SoundTables DEF NodeNumber
  <2>2. QED BY <1>1, <2>1, ParametersAssumption
<1>3. /\ IsSound(expanded)
      /\ ~IsRehashing(stepped) => expanded.rehash_index \in {-1, 0}
      /\ expanded.table[0].size = 0
           => WantsExpand(stepped) /\ ~CanExpand(stepped, WantedSize(stepped))
  <2> HIDE DEF stepped
  <2>1. QED BY <1>1, <1>2, ExpandIfNeededSound
<1>4. e = IF stepped.status # "live" THEN stepped
          ELSE IF index = -1 THEN expanded
          ELSE IF T.size = 0 THEN Fault(expanded, "add_null_slot")
          ELSE IF index >= T.size THEN Fault(expanded, "add_out_of_bounds")
          ELSE [expanded EXCEPT !.table[t] = Link(@, index, node)]
  BY DEF AddNode
<1>5. t \in 0..1 /\ node \in HashTableNode
  BY DEF AddTable, HashTableNode
<1>6. {"add_null_slot", "add_out_of_bounds"} \subseteq Faults \ {"rehash_overrun"}
  BY DEF Faults
<1>7. ASSUME index # -1, T.size # 0, ~(index >= T.size)
      PROVE  IsSound([expanded EXCEPT !.table[t] = Link(@, index, node)])
  <2> DEFINE K == KeyTable(expanded)
             U == Link(T, index, node)
  <2>1. /\ index = SlotIndex(K, k)
        /\ ~(WantsExpand(stepped) /\ ~CanExpand(stepped, WantedSize(stepped)))
    BY <1>7 DEF KeyIndex
  <2>2. expanded.table[0].size # 0
    BY <1>3, <2>1
  <2> HIDE DEF stepped, expanded, index, t
  <2>3. /\ IsHashTable(expanded.table[0]) /\ IsHashTable(expanded.table[1])
        /\ expanded.table[0].size \in Nat /\ expanded.table[1].size \in Nat
        /\ IsCountedTable(T) /\ T.size \in Nat
        /\ expanded.rehash_index \in Nat \cup {-1}
    BY <1>3, <1>5, SoundTables
  <2>4. IsHashTable(K) /\ K.size > 0
    <3>1. CASE IsRehashing(expanded)
      BY <1>3, <2>3, <3>1 DEF IsSound, Frontier, KeyTable
    <3>2. CASE ~IsRehashing(expanded)
      BY <2>2, <2>3, <3>2 DEF KeyTable
    <3>3. QED BY <3>1, <3>2
  <2>5. index \in 0..(K.size - 1) /\ K.size \in Nat
    BY <2>1, <2>3, <2>4, SlotIndexInTable DEF KeyTable
  <2>6. index \in 0..(T.size - 1)
    BY <1>7, <2>3, <2>5
  <2>7. /\ IsCountedTable(U) /\ U.size = T.size
        /\ \A h \in 0..(T.size - 1) : h # index => U.slot[h] = T.slot[h]
    BY <1>5, <2>3, <2>6, LinkCounted
  <2>8. t = 0 => \A h \in 0..(expanded.rehash_index - 1) : U.slot[h] = <<>>
    <3> SUFFICES ASSUME t = 0, NEW h \in 0..(expanded.rehash_index - 1)
                 PROVE  FALSE
      OBVIOUS
    <3>1. ~IsRehashing(d)
      BY DEF t, AddTable
    <3>2. ~IsRehashing(stepped)
      BY <1>1, <3>1
    <3>3. QED BY <1>3, <3>2
  <2>9. [expanded EXCEPT !.table[t] = Link(@, index, node)]
          = [expanded EXCEPT !.table[t] = U]
    OBVIOUS
  <2> HIDE DEF U
  <2>10. QED BY <1>3, <1>5, <2>7, <2>8, <2>9, SoundWithTable
<1> HIDE DEF stepped, expanded, index, t, e, node
<1>8. CASE stepped.status # "live"
  BY <1>1, <1>4, <1>8 DEF e
<1>9. CASE stepped.status = "live" /\ index = -1
  BY <1>3, <1>4, <1>9 DEF e
<1>10. CASE stepped.status = "live" /\ index # -1 /\ T.size = 0
  BY <1>3, <1>4, <1>6, <1>10, SoundFault DEF e
<1>11. CASE stepped.status = "live" /\ index # -1 /\ T.size # 0 /\ index >= T.size
  BY <1>3, <1>4, <1>6, <1>11, SoundFault DEF e
<1>12. CASE stepped.status = "live" /\ index # -1 /\ T.size # 0 /\ ~(index >= T.size)
  BY <1>4, <1>7, <1>12 DEF e
<1>13. QED
  BY <1>8, <1>9, <1>10, <1>11, <1>12 DEF e

LEMMA NewDictionarySound ==
  ASSUME NEW status \in {"absent", "live"}
  PROVE  IsSound(NewDictionary(status))
<1> DEFINE d == NewDictionary(status)
<1>1. d = [table |-> Tables(EmptyTable(0), EmptyTable(0)), rehash_index |-> -1,
           status |-> status]
  BY DEF NewDictionary
<1>2. IsCountedTable(EmptyTable(0)) /\ EmptyTable(0).size = 0
  BY EmptyTableCounted
<1>3. d.table[1] = EmptyTable(0) /\ d.rehash_index = -1
  BY <1>1 DEF Tables
<1>4. Frontier(d)
  BY <1>2, <1>3 DEF Frontier, IsRehashing
<1>5. status \in ({"absent", "live"} \cup Faults) \ {"rehash_overrun"}
  BY DEF Faults
<1> HIDE DEF d
<1>6. IsSound(d)
  BY <1>1, <1>2, <1>4, <1>5, MadeOfSoundTables
<1>7. QED
  BY <1>6 DEF d

-----------------------------------------------------------------------------
(* The theorems.                                                           *)

Calls == {"AddRaw", "Add", "Find", "Replace", "Delete"}

Returns == {0, 1, NULL, Unset} \cup Value

IsReply(r) == r = NULL \/ r \in [call : Calls, key : Key, returned : Returns]

(* The inductive invariant.                                                *)
Inv ==
  /\ IsSound(dictionary)
  /\ dictionary_can_resize \in BOOLEAN
  /\ IsReply(result)
  /\ references \in References

LEMMA LookUpType ==
  ASSUME NEW d, IsSound(d), NEW k \in Key
  PROVE  LookUp(d, k) \in Returns
<1> DEFINE t == FoundIn(d, k)
           T == d.table[t]
           i == SlotIndex(T, k)
           j == FirstMatch(T.slot[i], k)
<1>1. CASE t = -1
  BY <1>1 DEF LookUp, Returns
<1>2. CASE t # -1
  <2>1. T.slot[i] \in Seq(HashTableNode) /\ j \in 1..Len(T.slot[i])
    BY <1>2, FoundNode
  <2>2. LookUp(d, k) = T.slot[i][j].value
    BY <1>2 DEF LookUp, Chain
  <2> HIDE DEF i, j, T, t
  <2>3. T.slot[i][j] \in HashTableNode
    BY <2>1
  <2>4. QED BY <2>2, <2>3 DEF HashTableNode, Returns
<1>3. QED
  BY <1>1, <1>2

(* Only a node with a value is found.                                      *)
LEMMA FoundValueType ==
  ASSUME NEW d, IsSound(d), NEW k \in Key, FoundIn(d, k) # -1
  PROVE  LookUp(d, k) \in Value \cup {Unset}
<1> DEFINE t == FoundIn(d, k)
           T == d.table[t]
           i == SlotIndex(T, k)
           j == FirstMatch(T.slot[i], k)
<1>1. T.slot[i] \in Seq(HashTableNode) /\ j \in 1..Len(T.slot[i])
  BY FoundNode
<1>2. LookUp(d, k) = T.slot[i][j].value
  BY DEF LookUp, Chain
<1> HIDE DEF i, j, T, t
<1>3. T.slot[i][j] \in HashTableNode
  BY <1>1
<1>4. QED
  BY <1>2, <1>3 DEF HashTableNode

(* The account of references keeps its type through each of its changes.   *)
LEMMA ReferencesType ==
  ASSUME NEW refs \in References, NEW k \in Key,
         NEW v \in Value \cup {Unset}, NEW old \in Value \cup {Unset}
  PROVE  /\ TakeBoth(refs, k, v) \in References
         /\ GiveUpBoth(refs, k, v) \in References
         /\ SetThenFree(refs, v, old) \in References
<1>1. refs.key \in [Key -> Int] /\ refs.value \in [Value \cup {Unset} -> Int]
  BY DEF References
<1>2. /\ Acquire(refs.key, k) \in [Key -> Int]
      /\ Destroy(refs.key, k) \in [Key -> Int]
  BY <1>1 DEF Acquire, Destroy
<1>3. ASSUME NEW held \in [Value \cup {Unset} -> Int], NEW x \in Value \cup {Unset}
      PROVE  /\ Acquire(held, x) \in [Value \cup {Unset} -> Int]
             /\ Destroy(held, x) \in [Value \cup {Unset} -> Int]
  BY DEF Acquire, Destroy
<1>4. QED
  BY <1>1, <1>2, <1>3 DEF TakeBoth, GiveUpBoth, SetThenFree, References

LEMMA InvInit == Init => Inv
BY NewDictionarySound DEF Init, Inv, IsReply, NoReferences, References

(* One step per action of Next, and the stuttering step.                   *)
LEMMA InvNext == Inv /\ [Next]_vars => Inv'
<1> SUFFICES ASSUME Inv, [Next]_vars PROVE Inv'
  OBVIOUS
<1>0. /\ IsSound(dictionary) /\ dictionary_can_resize \in BOOLEAN
      /\ IsReply(result) /\ references \in References
  BY DEF Inv
<1>1. CASE Create
  BY <1>0, <1>1, NewDictionarySound DEF Create, Inv
<1>2. CASE EnableResize \/ DisableResize
  BY <1>0, <1>2 DEF EnableResize, DisableResize, Inv
<1>3. ASSUME NEW n \in RehashCounts, Rehash(n) PROVE Inv'
  <2>1. IsSound(dictionary')
    BY <1>0, <1>3, RehashSlotsSound DEF Rehash
  <2>2. /\ IsReply(result') /\ dictionary_can_resize' \in BOOLEAN
        /\ references' \in References
    BY <1>0, <1>3 DEF Rehash
  <2>3. QED BY <2>1, <2>2 DEF Inv
<1>4. ASSUME NEW size \in ExpandSizes, Expand(size) PROVE Inv'
  <2>1. "size_overflow" \in Faults \ {"rehash_overrun"}
    BY DEF Faults
  <2>2. IsSound(dictionary')
    <3>1. CASE /\ LargeEnough(size) # {}
               /\ CanExpand(dictionary, size)
               /\ dictionary' = ExpandTo(dictionary, size)
      <4>1. ~IsRehashing(dictionary) /\ \E s \in TableSizes : size <= s
        BY <3>1 DEF CanExpand, LargeEnough
      <4>2. QED BY <1>0, <3>1, <4>1, ExpandToSound
    <3>2. CASE \/ dictionary' = dictionary
               \/ dictionary' = Fault(dictionary, "size_overflow")
      BY <1>0, <2>1, <3>2, SoundFault
    <3>3. QED BY <1>4, <3>1, <3>2 DEF Expand
  <2>3. /\ IsReply(result') /\ dictionary_can_resize' \in BOOLEAN
        /\ references' \in References
    BY <1>0, <1>4 DEF Expand
  <2>4. QED BY <2>2, <2>3 DEF Inv
<1>5. ASSUME NEW k \in Key, AddRaw(k) PROVE Inv'
  <2>1. IsSound(dictionary')
    BY <1>0, <1>5, AddNodeSound DEF AddRaw, IsLive
  <2>2. IsReply(result') /\ dictionary_can_resize' \in BOOLEAN
    BY <1>0, <1>5 DEF AddRaw, IsReply, Calls, Returns, Reply
  <2>3. references' \in References
    BY <1>0, <1>5, ReferencesType DEF AddRaw
  <2>4. QED BY <2>1, <2>2, <2>3 DEF Inv
<1>6. ASSUME NEW k \in Key, NEW v \in Value, Add(k, v) PROVE Inv'
  <2>1. IsSound(dictionary')
    BY <1>0, <1>6, AddNodeSound DEF Add, IsLive
  <2>2. IsReply(result') /\ dictionary_can_resize' \in BOOLEAN
    BY <1>0, <1>6 DEF Add, IsReply, Calls, Returns, Reply
  <2>3. references' \in References
    BY <1>0, <1>6, ReferencesType DEF Add
  <2>4. QED BY <2>1, <2>2, <2>3 DEF Inv
<1>7. ASSUME NEW k \in Key, Find(k) PROVE Inv'
  <2>1. IsSound(dictionary')
    BY <1>0, <1>7, TouchSound DEF Find
  <2>2. LookUp(dictionary', k) \in Returns
    BY <2>1, LookUpType
  <2>3. /\ IsReply(result') /\ dictionary_can_resize' \in BOOLEAN
        /\ references' \in References
    BY <1>0, <1>7, <2>2 DEF Find, IsReply, Calls, Reply
  <2>4. QED BY <2>1, <2>3 DEF Inv
<1>8. ASSUME NEW k \in Key, NEW v \in Value, Replace(k, v) PROVE Inv'
  <2> DEFINE outcome == AddNode(dictionary, k, v)
             touched == Touch(outcome.dict)
  <2>1. IsSound(outcome.dict)
    BY <1>0, <1>8, AddNodeSound DEF Replace, IsLive
  <2>2. IsSound(touched)
    BY <2>1, TouchSound
  <2>3. \/ dictionary' = outcome.dict
        \/ dictionary' = IF touched.status # "live" THEN touched
                         ELSE IF FoundIn(touched, k) = -1
                         THEN Fault(touched, "replace_null_node")
                         ELSE ReplaceFound(touched, k, v)
    BY <1>8 DEF Replace
  <2>4. "replace_null_node" \in Faults \ {"rehash_overrun"}
    BY DEF Faults
  <2> HIDE DEF outcome, touched
  <2>5. IsSound(dictionary')
    BY <2>1, <2>2, <2>3, <2>4, SoundFault, ReplaceFoundSound
  <2>6. IsReply(result') /\ dictionary_can_resize' \in BOOLEAN
    BY <1>0, <1>8 DEF Replace, IsReply, Calls, Returns, Reply
  <2>7. references' \in References
    <3>1. \/ references' = references
          \/ references' = TakeBoth(references, k, v)
          \/ /\ FoundIn(touched, k) # -1
             /\ references' = SetThenFree(references, v, LookUp(touched, k))
      BY <1>8 DEF Replace, outcome, touched
    <3>2. FoundIn(touched, k) # -1 => LookUp(touched, k) \in Value \cup {Unset}
      BY <2>2, FoundValueType
    <3>3. QED BY <1>0, <3>1, <3>2, ReferencesType
  <2>8. QED BY <2>5, <2>6, <2>7 DEF Inv
<1>9. ASSUME NEW k \in Key, Delete(k) PROVE Inv'
  <2> DEFINE touched == Touch(dictionary)
  <2>1. IsSound(touched)
    BY <1>0, TouchSound
  <2>2. \/ dictionary' = touched
        \/ FoundIn(touched, k) # -1 /\ dictionary' = RemoveFound(touched, k)
    BY <1>9 DEF Delete
  <2> HIDE DEF touched
  <2>3. IsSound(dictionary')
    BY <2>1, <2>2, RemoveFoundSound
  <2>4. IsReply(result') /\ dictionary_can_resize' \in BOOLEAN
    BY <1>0, <1>9 DEF Delete, IsReply, Calls, Returns, Reply
  <2>5. references' \in References
    <3>1. \/ references' = references
          \/ /\ FoundIn(touched, k) # -1
             /\ references' = GiveUpBoth(references, k, LookUp(touched, k))
      BY <1>9 DEF Delete, touched
    <3>2. FoundIn(touched, k) # -1 => LookUp(touched, k) \in Value \cup {Unset}
      BY <2>1, FoundValueType
    <3>3. QED BY <1>0, <3>1, <3>2, ReferencesType
  <2>6. QED BY <2>3, <2>4, <2>5 DEF Inv
<1>10. CASE Release
  <2>1. "double_free" \in Faults \ {"rehash_overrun"}
    BY DEF Faults
  <2>2. IsSound(dictionary')
    BY <1>0, <1>10, <2>1, SoundFault, NewDictionarySound DEF Release
  <2>3. QED BY <1>0, <1>10, <2>2 DEF Release, Inv
<1>11. CASE UNCHANGED vars
  BY <1>0, <1>11 DEF vars, Inv
<1>12. QED
  BY <1>1, <1>2, <1>3, <1>4, <1>5, <1>6, <1>7, <1>8, <1>9, <1>10, <1>11 DEF Next

THEOREM Soundness == Spec => []Inv
BY InvInit, InvNext, PTL DEF Spec

(* Every variable keeps its type, whatever the calls and their order.      *)
THEOREM TypeCorrectness == Spec => []TypeOK
<1>1. Inv => TypeOK
  BY DEF Inv, TypeOK, IsSound, IsReply, Calls, Returns, Reply
<1>2. QED
  BY <1>1, Soundness, PTL

(* element_number_ of both tables is the number of nodes chained in them.  *)
THEOREM CountersAreRight == Spec => []CountsMatchChains
<1>1. Inv => CountsMatchChains
  BY DEF Inv, CountsMatchChains, IsSound
<1>2. QED
  BY <1>1, Soundness, PTL

(* No node is behind the frontier of a rehash, and the second table exists *)
(* exactly while there is one.                                             *)
THEOREM NoNodeIsLeftBehind == Spec => []RehashFrontier
<1>1. Inv => RehashFrontier
  BY DEF Inv, RehashFrontier, IsSound
<1>2. QED
  BY <1>1, Soundness, PTL

(* The assertion of DictionaryRehash() never fails, and its inner loop     *)
(* never leaves the first table.                                           *)
THEOREM RehashStaysInTheTable == Spec => []NoRehashOverrun
<1>1. Inv => NoRehashOverrun
  BY DEF Inv, NoRehashOverrun, IsSound
<1>2. QED
  BY <1>1, Soundness, PTL

-----------------------------------------------------------------------------
(* The outcomes of DictionaryRehash().                                     *)

LEMMA RehashOutcomes ==
  ASSUME NEW d, IsSound(d), IsRehashing(d), NEW n
  PROVE  LET e == RehashSlots(d, n)
             j == Min(LoopEndings(d, n))
             m == MoveSlots(d, j)
         IN  /\ j \in d.rehash_index..d.table[0].size
             /\ \/ e = Fault(d, "rehash_out_of_bounds")
                \/ /\ \A i \in FilledSlots(d, j) : i < d.table[1].size
                   /\ \/ m.table[0].count = 0 /\ e = FinishRehash(m)
                      \/ m.table[0].count # 0 /\ e = m
<1> DEFINE e == RehashSlots(d, n)
           j == Min(LoopEndings(d, n))
           m == MoveSlots(d, j)
<1>1. LoopEndings(d, n) # {} /\ j \in d.rehash_index..d.table[0].size
  BY LoopMeetsItsEnd
<1>2. e = IF \E i \in FilledSlots(d, j) : i >= d.table[1].size
          THEN Fault(d, "rehash_out_of_bounds")
          ELSE IF m.table[0].count = 0 THEN FinishRehash(m) ELSE m
  BY <1>1 DEF RehashSlots
<1>3. d.rehash_index \in Nat /\ d.table[1].size \in Nat
  BY SoundTables DEF IsRehashing
<1>4. \A i \in FilledSlots(d, j) : i \in Int
  BY <1>1, <1>3 DEF FilledSlots, VisitedSlots
<1> HIDE DEF e, j, m
<1>5. QED
  BY <1>1, <1>2, <1>3, <1>4 DEF e, j, m

(* A rehash that goes on keeps both sizes; one that ends leaves the second *)
(* table in the place of the first.                                        *)
LEMMA RehashKeepsSizes ==
  ASSUME NEW d, IsSound(d), IsRehashing(d), NEW n
  PROVE  LET e == RehashSlots(d, n) IN
         /\ IsRehashing(e) => /\ e.table[0].size = d.table[0].size
                              /\ e.table[1].size = d.table[1].size
         /\ ~IsRehashing(e) => e.table[0].size = d.table[1].size
<1> DEFINE e == RehashSlots(d, n)
           j == Min(LoopEndings(d, n))
           m == MoveSlots(d, j)
<1>1. /\ j \in d.rehash_index..d.table[0].size
      /\ \/ e = Fault(d, "rehash_out_of_bounds")
         \/ /\ \A i \in FilledSlots(d, j) : i < d.table[1].size
            /\ \/ m.table[0].count = 0 /\ e = FinishRehash(m)
               \/ m.table[0].count # 0 /\ e = m
  BY RehashOutcomes
<1> HIDE DEF j
<1>2. CASE e = Fault(d, "rehash_out_of_bounds")
  <2>1. "rehash_out_of_bounds" \in Faults \ {"rehash_overrun"}
    BY DEF Faults
  <2>2. e.table = d.table /\ e.rehash_index = d.rehash_index
    BY <1>2, <2>1, SoundFault
  <2> HIDE DEF e
  <2>3. QED BY <2>2 DEF IsRehashing, e
<1>3. CASE \A i \in FilledSlots(d, j) : i < d.table[1].size
  <2>1. /\ m.rehash_index = j
        /\ m.table[0].size = d.table[0].size
        /\ m.table[1].size = d.table[1].size
        /\ j # -1
    <3>1. d.rehash_index \in Nat
      BY SoundTables DEF IsRehashing
    <3>2. QED BY <1>1, <1>3, <3>1, MoveSlotsSound
  <2> HIDE DEF m, e
  <2>2. CASE e = m
    BY <2>1, <2>2 DEF IsRehashing, e
  <2>3. CASE e = FinishRehash(m)
    <3>1. e.rehash_index = -1 /\ e.table = Tables(m.table[1], EmptyTable(0))
      BY <2>3 DEF FinishRehash
    <3>2. e.table[0] = m.table[1] /\ ~IsRehashing(e)
      BY <3>1 DEF Tables, IsRehashing
    <3>3. QED BY <2>1, <3>2 DEF e
  <2>4. CASE e = Fault(d, "rehash_out_of_bounds")
    BY <1>2, <2>4 DEF e
  <2>5. QED BY <1>1, <2>2, <2>3, <2>4
<1>4. QED
  BY <1>1, <1>2, <1>3

-----------------------------------------------------------------------------
(* The node that DictionaryKeyIndex() met is met again after a rehash step *)

(* A chain poured onto another is followed by all of it.                   *)
LEMMA PourKeepsMatch ==
  ASSUME NEW chain \in Seq(HashTableNode), NEW onto \in Seq(HashTableNode),
         NEW k, FirstMatch(onto, k) # 0
  PROVE  FirstMatch(Pour(chain, onto), k) # 0
<1> DEFINE j == FirstMatch(onto, k)
           i == Len(chain) + j
<1>1. j \in 1..Len(onto) /\ onto[j].key = k
  BY FirstMatchFinds
<1>2. /\ Reverse(chain) \in Seq(HashTableNode)
      /\ Len(Reverse(chain)) = Len(chain)
  BY DEF Reverse
<1>3. /\ Pour(chain, onto) \in Seq(HashTableNode)
      /\ Len(Pour(chain, onto)) = Len(chain) + Len(onto)
  BY PourChain
<1> HIDE DEF j
<1>4. Pour(chain, onto)[i] = onto[j]
  BY <1>1, <1>2 DEF Pour
<1>5. i \in 1..Len(Pour(chain, onto))
  BY <1>1, <1>3
<1>6. QED
  BY <1>1, <1>3, <1>4, <1>5, FirstMatchFinds

(* No slot of the second table loses a key.                                *)
LEMMA GainedTableKeepsMatch ==
  ASSUME NEW d, IsSound(d), IsRehashing(d),
         NEW j \in d.rehash_index..d.table[0].size,
         NEW k \in Key, FirstMatch(Chain(d.table[1], k), k) # 0
  PROVE  FirstMatch(Chain(GainedTable(d, j), k), k) # 0
<1> DEFINE first  == d.table[0]
           second == d.table[1]
           i      == SlotIndex(second, k)
           gained == GainedTable(d, j)
<1>1. /\ IsHashTable(first) /\ IsHashTable(second)
      /\ first.size \in Nat /\ second.size \in Nat /\ second.size > 0
      /\ d.rehash_index \in Nat
  BY SoundTables DEF IsSound, Frontier, IsRehashing
<1>2. i \in 0..(second.size - 1)
  BY <1>1, SlotIndexInTable
<1>3. /\ second.slot \in [0..(second.size - 1) -> Seq(HashTableNode)]
      /\ first.slot \in [0..(first.size - 1) -> Seq(HashTableNode)]
  BY <1>1 DEF IsHashTable
<1>4. /\ gained.size = second.size
      /\ gained.slot[i] = IF i \in FilledSlots(d, j)
                          THEN Pour(first.slot[i], second.slot[i])
                          ELSE second.slot[i]
  BY <1>2, <1>3 DEF GainedTable
<1>5. Chain(gained, k) = gained.slot[i] /\ Chain(second, k) = second.slot[i]
  BY <1>4 DEF Chain, SlotIndex
<1>6. i \in FilledSlots(d, j) => first.slot[i] \in Seq(HashTableNode)
  <2>1. i \in FilledSlots(d, j) => i \in d.rehash_index..(j - 1)
    BY DEF FilledSlots, VisitedSlots
  <2> HIDE DEF i
  <2>2. QED BY <1>1, <1>3, <2>1
<1>7. second.slot[i] \in Seq(HashTableNode)
  BY <1>2, <1>3
<1> HIDE DEF gained, i
<1>8. QED
  BY <1>4, <1>5, <1>6, <1>7, PourKeepsMatch DEF gained

(* DictionaryFind() of a key that is in the table DictionaryKeyIndex()     *)
(* chose finds a node.                                                     *)
LEMMA TouchFindsMatch ==
  ASSUME NEW d, IsSound(d), d.table[0].size # 0, NEW k \in Key,
         FirstMatch(Chain(KeyTable(d), k), k) # 0,
         Touch(d).status = "live"
  PROVE  FoundIn(Touch(d), k) # -1
<1> DEFINE e == Touch(d)
           j == Min(LoopEndings(d, 1))
           m == MoveSlots(d, j)
<1>1. e = RehashSlots(d, 1)
  BY DEF Touch, RehashStep
<1>2. CASE ~IsRehashing(d)
  <2>1. e = d
    BY <1>1, <1>2 DEF RehashSlots
  <2>2. FirstMatch(Chain(d.table[0], k), k) # 0
    BY <1>2 DEF KeyTable
  <2> HIDE DEF e
  <2>3. FoundIn(d, k) = 0
    BY <2>1, <2>2 DEF FoundIn, e
  <2>4. QED BY <2>1, <2>3 DEF e
<1>3. CASE IsRehashing(d)
  <2>1. FirstMatch(Chain(d.table[1], k), k) # 0
    BY <1>3 DEF KeyTable
  <2>2. /\ j \in d.rehash_index..d.table[0].size
        /\ \/ e = Fault(d, "rehash_out_of_bounds")
           \/ e = FinishRehash(m)
           \/ e = m
    BY <1>1, <1>3, RehashOutcomes
  <2>3. Fault(d, "rehash_out_of_bounds").status = "rehash_out_of_bounds"
    BY SoundFault DEF Faults
  <2>4. d.rehash_index \in Nat
    BY <1>3, SoundTables DEF IsRehashing
  <2>5. FirstMatch(Chain(GainedTable(d, j), k), k) # 0
    <3> HIDE DEF j
    <3>1. QED BY <1>3, <2>1, <2>2, GainedTableKeepsMatch
  <2>6. d.table[1].size > 0
    BY <1>3 DEF IsSound, Frontier
  <2>7. /\ m.table[0].size = d.table[0].size
        /\ m.table[1] = GainedTable(d, j) /\ GainedTable(d, j).size = d.table[1].size
        /\ m.rehash_index = j
    BY DEF MoveSlots, Tables, LeftTable, GainedTable
  <2>8. e.status = "live"
    OBVIOUS
  <2> HIDE DEF e, m, j
  <2>9. CASE e = m
    <3>1. IsRehashing(m)
      BY <2>2, <2>4, <2>7 DEF IsRehashing
    <3>2. FoundIn(m, k) # -1
      BY <2>5, <2>7, <2>8, <2>9, <3>1 DEF FoundIn
    <3>3. QED BY <2>9, <3>2 DEF e
  <2>10. CASE e = FinishRehash(m)
    <3>1. e.table = Tables(m.table[1], EmptyTable(0))
      BY <2>10 DEF FinishRehash
    <3>2. e.table[0] = GainedTable(d, j)
      BY <2>7, <3>1 DEF Tables
    <3>3. e.table[0].size # 0
      BY <2>6, <2>7, <3>2
    <3>4. FoundIn(e, k) # -1
      BY <2>5, <2>8, <3>2, <3>3 DEF FoundIn
    <3>5. QED BY <3>4 DEF e
  <2>11. QED BY <2>2, <2>3, <2>8, <2>9, <2>10
<1>4. QED
  BY <1>2, <1>3

-----------------------------------------------------------------------------
(* DictionaryAddRaw().                                                     *)

(* The expansion DictionaryKeyIndex() asks for is never refused.           *)
LEMMA WantedExpansionIsMade ==
  ASSUME NEW d, IsSound(d), NodeNumber(d) <= MaxNodes, WantsExpand(d)
  PROVE  CanExpand(d, WantedSize(d))
<1> DEFINE T == d.table[0]
<1>1. /\ IsHashTable(T) /\ CountsMatch(T) /\ T.size \in Nat /\ T.count \in Nat
      /\ d.table[1].count \in Nat
  BY SoundTables DEF IsSound
<1>2. CASE T.size = 0
  <2>1. ~IsRehashing(d)
    BY <1>2, SoundTables DEF IsSound, Frontier, IsRehashing
  <2>2. T.count = 0
    <3>1. \A p : p \notin Places(T)
      BY <1>1, <1>2, PlacesOfTable
    <3>2. Places(T) = {}
      BY <3>1
    <3>3. QED BY <1>1, <3>2, FS_EmptySet DEF CountsMatch
  <2>3. WantedSize(d) = InitialSize
    BY <1>2 DEF WantedSize
  <2>4. NextPower(InitialSize) > 0
    BY SizesAssumption, NextPowerIsASize
  <2>5. QED BY <1>2, <2>1, <2>2, <2>3, <2>4, SizesAssumption DEF CanExpand
<1>3. CASE T.size # 0
  <2>1. ~IsRehashing(d) /\ T.count \div T.size >= 1
    BY <1>3 DEF WantsExpand
  <2>2. T.count >= T.size
    BY <1>1, <1>3, <2>1
  <2>3. WantedSize(d) = 2 * T.count
    BY <1>3 DEF WantedSize
  <2>4. 2 * T.count \in 0..(2 * MaxNodes)
    BY <1>1, ParametersAssumption DEF NodeNumber
  <2>5. NextPower(2 * T.count) >= 2 * T.count
    <3> DEFINE S == LargeEnough(2 * T.count)
    <3>1. /\ S \in SUBSET Nat /\ S # {}
          /\ \A s \in S : 2 * T.count <= s
      BY <2>4, GrowthAssumption, SizesAssumption DEF LargeEnough
    <3> HIDE DEF S
    <3>2. Min(S) \in S
      BY <3>1, MinIsLeast
    <3>3. QED BY <3>1, <3>2 DEF NextPower, S
  <2>6. NextPower(2 * T.count) # T.size
    <3>1. NextPower(2 * T.count) \in Nat
      <4>1. \E s \in TableSizes : 2 * T.count <= s
        BY <2>4, GrowthAssumption
      <4>2. QED BY <4>1, NextPowerIsASize, SizesAssumption
    <3>2. QED BY <1>1, <1>3, <2>2, <2>5, <3>1
  <2>7. QED BY <1>1, <2>1, <2>3, <2>6 DEF CanExpand
<1>4. QED
  BY <1>2, <1>3

(* A key is refused for a node of its own, in the table it would go to.    *)
LEMMA RefusalHasItsNode ==
  ASSUME NEW d, IsSound(d), d.status = "live", NodeNumber(d) < MaxNodes,
         NEW k \in Key, NEW v,
         ~AddNode(d, k, v).added, AddNode(d, k, v).dict.status = "live"
  PROVE  LET e == AddNode(d, k, v).dict
         IN  e.table[0].size # 0 /\ FirstMatch(Chain(KeyTable(e), k), k) # 0
<1> DEFINE stepped  == RehashStep(d)
           expanded == ExpandIfNeeded(stepped)
           index    == KeyIndex(stepped, k)
           T        == expanded.table[AddTable(d)]
           node     == [key |-> k, value |-> v]
           outcome  == AddNode(d, k, v)
<1>1. IsSound(stepped) /\ NodeNumber(stepped) <= MaxNodes
  <2>1. IsSound(stepped) /\ NodeNumber(stepped) = NodeNumber(d)
    BY RehashSlotsSound DEF RehashStep
  <2>2. NodeNumber(d) \in Nat
    BY SoundTables DEF NodeNumber
  <2>3. QED BY <2>1, <2>2, ParametersAssumption
<1>2. IsSound(expanded)
  <2> HIDE DEF stepped
  <2>1. QED BY <1>1, ExpandIfNeededSound
<1>3. outcome =
        IF stepped.status # "live" THEN [dict |-> stepped, added |-> FALSE]
        ELSE IF index = -1 THEN [dict |-> expanded, added |-> FALSE]
        ELSE IF T.size = 0
             THEN [dict |-> Fault(expanded, "add_null_slot"), added |-> FALSE]
        ELSE IF index >= T.size
             THEN [dict |-> Fault(expanded, "add_out_of_bounds"), added |-> FALSE]
        ELSE [dict  |-> [expanded EXCEPT
                           !.table[AddTable(d)] = Link(@, index, node)],
              added |-> TRUE]
  BY DEF AddNode
<1>4. /\ Fault(expanded, "add_null_slot").status = "add_null_slot"
      /\ Fault(expanded, "add_out_of_bounds").status = "add_out_of_bounds"
  <2>1. {"add_null_slot", "add_out_of_bounds"} \subseteq Faults \ {"rehash_overrun"}
    BY DEF Faults
  <2> HIDE DEF expanded
  <2>2. QED BY <1>2, <2>1, SoundFault
<1>5. ~outcome.added /\ outcome.dict.status = "live"
  OBVIOUS
<1>6. WantsExpand(stepped) => CanExpand(stepped, WantedSize(stepped))
  <2> HIDE DEF stepped
  <2>1. QED BY <1>1, WantedExpansionIsMade
<1>7. index = IF FirstMatch(Chain(KeyTable(expanded), k), k) # 0 THEN -1
              ELSE SlotIndex(KeyTable(expanded), k)
  BY <1>6 DEF KeyIndex
<1>8. expanded.table[0].size # 0
  <2> HIDE DEF stepped
  <2>1. QED BY <1>1, <1>6, ExpandIfNeededSound
<1> HIDE DEF stepped, expanded, index, outcome, T, node
<1>9. outcome.dict = expanded /\ index = -1
  BY <1>3, <1>4, <1>5
<1>10. FirstMatch(Chain(KeyTable(expanded), k), k) # 0
  <2>1. KeyTable(expanded) \in {expanded.table[0], expanded.table[1]}
    BY DEF KeyTable
  <2>2. IsHashTable(KeyTable(expanded)) /\ KeyTable(expanded).size > 0
    BY <1>2, <1>8, SoundTables DEF KeyTable, IsSound, Frontier
  <2>3. SlotIndex(KeyTable(expanded), k) # -1
    BY <2>2, SlotIndexInTable
  <2>4. QED BY <1>7, <1>9, <2>3
<1>11. QED
  BY <1>8, <1>9, <1>10 DEF outcome

-----------------------------------------------------------------------------
(* The first table drains.  A rehash that begins in the call that ended    *)
(* another one is told apart by the size of its first table.               *)

SizesDiffer(d) == IsRehashing(d) => d.table[0].size # d.table[1].size

(* From d to e the rehash went on, or it was over.                         *)
GoesOn(d, e) ==
  /\ IsRehashing(e)
  /\ \A t \in 0..1 : e.table[t].size = d.table[t].size
  /\ e.table[0].count <= d.table[0].count
  /\ e.rehash_index >= d.rehash_index

Drains(d, e) ==
  IsRehashing(d) =>
    GoesOn(d, e) \/ (IsRehashing(e) => e.table[0].size = d.table[1].size)

(* What every part of a call does to the tables.                           *)
Advances(d, e) == SizesDiffer(e) /\ Drains(d, e)

LEMMA AdvancesOne ==
  ASSUME NEW d, IsSound(d), SizesDiffer(d)
  PROVE  Advances(d, d)
BY SoundTables DEF Advances, Drains, GoesOn

(* A change of the nodes of e that adds none to its first table.           *)
LEMMA AdvancesSameSizes ==
  ASSUME NEW d, NEW e, Advances(d, e), NEW f,
         IsSound(d), IsSound(e), IsSound(f),
         f.rehash_index = e.rehash_index,
         f.table[0].size = e.table[0].size, f.table[1].size = e.table[1].size,
         IsRehashing(e) /\ IsRehashing(d) => f.table[0].count <= e.table[0].count
  PROVE  Advances(d, f)
<1>1. /\ d.table[0].count \in Nat /\ e.table[0].count \in Nat
      /\ f.table[0].count \in Nat
      /\ d.rehash_index \in Nat \cup {-1} /\ e.rehash_index \in Nat \cup {-1}
  BY SoundTables
<1>2. IsRehashing(e) <=> IsRehashing(f)
  BY DEF IsRehashing
<1>3. SizesDiffer(f)
  BY <1>2 DEF Advances, SizesDiffer
<1>4. ASSUME IsRehashing(d), GoesOn(d, e) PROVE GoesOn(d, f)
  BY <1>1, <1>2, <1>4 DEF GoesOn
<1>5. QED
  BY <1>2, <1>3, <1>4 DEF Advances, Drains

LEMMA AdvancesRehash ==
  ASSUME NEW d, NEW e, Advances(d, e), IsSound(d), IsSound(e), NEW n
  PROVE  Advances(d, RehashSlots(e, n))
<1> DEFINE f == RehashSlots(e, n)
<1>1. CASE ~IsRehashing(e)
  BY <1>1 DEF RehashSlots
<1>2. CASE IsRehashing(e)
  <2>1. /\ IsSound(f)
        /\ IsRehashing(f) => /\ f.table[0].size = e.table[0].size
                             /\ f.table[1].size = e.table[1].size
                             /\ f.rehash_index >= e.rehash_index
                             /\ f.table[0].count <= e.table[0].count
    BY <1>2, RehashSlotsSound, RehashKeepsSizes
  <2>2. /\ d.table[0].count \in Nat /\ e.table[0].count \in Nat
        /\ f.table[0].count \in Nat
        /\ d.rehash_index \in Nat \cup {-1} /\ e.rehash_index \in Nat \cup {-1}
        /\ f.rehash_index \in Nat \cup {-1}
    BY <2>1, SoundTables
  <2> HIDE DEF f
  <2>3. SizesDiffer(f)
    BY <1>2, <2>1 DEF Advances, SizesDiffer
  <2>4. ASSUME IsRehashing(d), IsRehashing(f), GoesOn(d, e) PROVE GoesOn(d, f)
    BY <2>1, <2>2, <2>4 DEF GoesOn
  <2>5. Drains(d, f)
    BY <1>2, <2>1, <2>4 DEF Advances, Drains
  <2>6. QED BY <2>3, <2>5 DEF Advances, f
<1>3. QED
  BY <1>1, <1>2

LEMMA AdvancesTouch ==
  ASSUME NEW d, NEW e, Advances(d, e), IsSound(d), IsSound(e)
  PROVE  Advances(d, Touch(e))
BY AdvancesRehash DEF Touch, RehashStep

(* A new second table has another size than the first.                     *)
LEMMA ExpandToSizes ==
  ASSUME NEW d, IsSound(d), NEW size, CanExpand(d, size)
  PROVE  LET e == ExpandTo(d, size)
         IN  IsRehashing(e) => /\ e.table[0].size = d.table[0].size
                               /\ e.table[1].size # d.table[0].size
<1> DEFINE e == ExpandTo(d, size)
<1>1. ~IsRehashing(d) /\ NextPower(size) # d.table[0].size
  BY DEF CanExpand
<1>2. CASE d.table[0].size = 0
  <2>1. e = [d EXCEPT !.table[0] = NewTable(size)]
    BY <1>2 DEF ExpandTo
  <2>2. d = [table        |-> [u \in 0..1 |-> d.table[u]],
             rehash_index |-> d.rehash_index,
             status       |-> d.status]
    BY DEF IsSound, IsDictionary
  <2>3. e.rehash_index = d.rehash_index
    BY <2>1, <2>2
  <2> HIDE DEF e
  <2>4. QED BY <1>1, <2>3 DEF IsRehashing, e
<1>3. CASE d.table[0].size # 0
  <2>1. e.table = Tables(d.table[0], NewTable(size))
    BY <1>3 DEF ExpandTo
  <2>2. e.table[0] = d.table[0] /\ e.table[1] = NewTable(size)
    BY <2>1 DEF Tables
  <2>3. NewTable(size).size = NextPower(size)
    BY DEF NewTable, EmptyTable
  <2> HIDE DEF e
  <2>4. QED BY <1>1, <2>2, <2>3 DEF e
<1>4. QED
  BY <1>2, <1>3

(* The step and the expansion that open DictionaryAddRaw().                *)
LEMMA AdvancesExpanded ==
  ASSUME NEW d, IsSound(d), SizesDiffer(d)
  PROVE  Advances(d, ExpandIfNeeded(RehashStep(d)))
<1> DEFINE s == RehashStep(d)
           e == ExpandIfNeeded(s)
<1>1. Advances(d, s) /\ IsSound(s)
  BY AdvancesOne, AdvancesRehash, RehashSlotsSound DEF RehashStep
<1>2. \/ e = s
      \/ CanExpand(s, WantedSize(s)) /\ e = ExpandTo(s, WantedSize(s))
  BY DEF ExpandIfNeeded
<1>3. IsRehashing(d) /\ ~IsRehashing(s) => s.table[0].size = d.table[1].size
  BY RehashKeepsSizes DEF RehashStep
<1> HIDE DEF s, e
<1>4. CASE e = s
  BY <1>1, <1>4 DEF s, e
<1>5. CASE CanExpand(s, WantedSize(s)) /\ e = ExpandTo(s, WantedSize(s))
  <2>1. ~IsRehashing(s)
    BY <1>5 DEF CanExpand
  <2>2. IsRehashing(e) => /\ e.table[0].size = s.table[0].size
                          /\ e.table[1].size # s.table[0].size
    BY <1>1, <1>5, ExpandToSizes
  <2>3. QED BY <1>3, <2>1, <2>2 DEF Advances, SizesDiffer, Drains, s, e
<1>6. QED
  BY <1>2, <1>4, <1>5

(* Another table in the place of table t, of the same size.                *)
LEMMA AdvancesTable ==
  ASSUME NEW d, NEW e, Advances(d, e), IsSound(d), IsSound(e),
         NEW t \in 0..1, NEW T, IsSound([e EXCEPT !.table[t] = T]),
         T.size = e.table[t].size,
         t = 0 /\ IsRehashing(d) => T.count <= e.table[0].count
  PROVE  /\ Advances(d, [e EXCEPT !.table[t] = T])
         /\ [e EXCEPT !.table[t] = T].status = e.status
<1> DEFINE f == [e EXCEPT !.table[t] = T]
<1>1. e = [table        |-> [u \in 0..1 |-> e.table[u]],
           rehash_index |-> e.rehash_index,
           status       |-> e.status]
  BY DEF IsSound, IsDictionary
<1>2. /\ f.rehash_index = e.rehash_index /\ f.status = e.status
      /\ \A u \in 0..1 : f.table[u] = IF u = t THEN T ELSE e.table[u]
  BY <1>1
<1>3. IsSound(f)
  OBVIOUS
<1> HIDE DEF f
<1>4. /\ f.table[0].size = e.table[0].size /\ f.table[1].size = e.table[1].size
      /\ IsRehashing(d) => f.table[0].count <= e.table[0].count
  <2>1. e.table[0].count \in Nat
    BY SoundTables
  <2>2. QED BY <1>2, <2>1
<1>5. Advances(d, f)
  BY <1>2, <1>3, <1>4, AdvancesSameSizes
<1>6. QED
  BY <1>2, <1>5 DEF f

LEMMA AdvancesFault ==
  ASSUME NEW d, NEW e, Advances(d, e), IsSound(d), IsSound(e),
         NEW f \in Faults \ {"rehash_overrun"}
  PROVE  Advances(d, Fault(e, f)) /\ Fault(e, f).status = f
<1>1. /\ IsSound(Fault(e, f)) /\ Fault(e, f).status = f
      /\ Fault(e, f).table = e.table
      /\ Fault(e, f).rehash_index = e.rehash_index
  BY SoundFault
<1>2. e.table[0].count \in Nat
  BY SoundTables
<1>3. QED
  BY <1>1, <1>2, AdvancesSameSizes

LEMMA AddNodeAdvances ==
  ASSUME NEW d, IsSound(d), d.status = "live", NodeNumber(d) < MaxNodes,
         SizesDiffer(d), NEW k \in Key, NEW v \in Value \cup {Unset}
  PROVE  LET e == AddNode(d, k, v).dict
         IN  Advances(d, e) /\ e.status # "replace_null_node"
<1> DEFINE stepped  == RehashStep(d)
           expanded == ExpandIfNeeded(stepped)
           index    == KeyIndex(stepped, k)
           t        == AddTable(d)
           T        == expanded.table[t]
           U        == Link(T, index, [key |-> k, value |-> v])
           e        == AddNode(d, k, v).dict
<1>1. /\ IsSound(stepped)
      /\ NodeNumber(stepped) <= MaxNodes
      /\ stepped.status \in {"live", "rehash_out_of_bounds"}
  <2>1. IsSound(stepped) /\ NodeNumber(stepped) = NodeNumber(d)
    BY RehashSlotsSound DEF RehashStep
  <2>2. NodeNumber(d) \in Nat
    BY SoundTables DEF NodeNumber
  <2>3. stepped.status \in {"live", "rehash_out_of_bounds"}
    BY RehashSlotsSound DEF RehashStep
  <2>4. QED BY <2>1, <2>2, <2>3, ParametersAssumption
<1>2. Advances(d, stepped) /\ Advances(d, expanded)
  BY AdvancesOne, AdvancesRehash, AdvancesExpanded DEF RehashStep
<1>3. IsSound(expanded) /\ expanded.status = stepped.status
  <2> HIDE DEF stepped
  <2>1. QED BY <1>1, ExpandIfNeededSound
<1>4. \/ e = stepped
      \/ e = expanded
      \/ e = Fault(expanded, "add_null_slot")
      \/ e = Fault(expanded, "add_out_of_bounds")
      \/ e = [expanded EXCEPT !.table[t] = U]
  BY DEF AddNode
<1>5. t \in 0..1 /\ U.size = T.size /\ (t = 0 => ~IsRehashing(d))
  BY DEF AddTable, Link
<1>6. {"add_null_slot", "add_out_of_bounds"} \subseteq Faults \ {"rehash_overrun"}
  BY DEF Faults
<1>7. IsSound(e)
  BY AddNodeSound
<1> HIDE DEF stepped, expanded, index, t, T, U, e
<1>8. CASE e = stepped \/ e = expanded
  BY <1>1, <1>2, <1>3, <1>8 DEF e
<1>9. CASE \/ e = Fault(expanded, "add_null_slot")
           \/ e = Fault(expanded, "add_out_of_bounds")
  BY <1>2, <1>3, <1>6, <1>9, AdvancesFault DEF e
<1>10. CASE e = [expanded EXCEPT !.table[t] = U]
  <2>1. Advances(d, e) /\ e.status = expanded.status
    BY <1>2, <1>3, <1>5, <1>7, <1>10, AdvancesTable DEF T
  <2>2. QED BY <1>1, <1>3, <2>1 DEF e
<1>11. QED
  BY <1>4, <1>8, <1>9, <1>10

LEMMA RemoveFoundAdvances ==
  ASSUME NEW d, NEW e, Advances(d, e), IsSound(d), IsSound(e),
         NEW k \in Key, FoundIn(e, k) # -1
  PROVE  /\ Advances(d, RemoveFound(e, k))
         /\ RemoveFound(e, k).status = e.status
<1> DEFINE t == FoundIn(e, k)
           T == e.table[t]
           U == Unlink(T, SlotIndex(T, k), FirstMatch(Chain(T, k), k))
<1>1. t \in 0..1
  BY FoundNode
<1>2. U.size = T.size /\ U.count = T.count - 1
  BY DEF Unlink
<1>3. RemoveFound(e, k) = [e EXCEPT !.table[t] = U]
  BY DEF RemoveFound
<1>4. IsSound(RemoveFound(e, k))
  BY RemoveFoundSound
<1>5. e.table[0].count \in Nat
  BY SoundTables
<1> HIDE DEF t, U
<1>6. t = 0 => U.count <= e.table[0].count
  BY <1>2, <1>5
<1>7. QED
  BY <1>1, <1>2, <1>3, <1>4, <1>6, AdvancesTable

LEMMA ReplaceFoundAdvances ==
  ASSUME NEW d, NEW e, Advances(d, e), IsSound(d), IsSound(e),
         NEW k \in Key, NEW v \in Value, FoundIn(e, k) # -1
  PROVE  /\ Advances(d, ReplaceFound(e, k, v))
         /\ ReplaceFound(e, k, v).status = e.status
<1> DEFINE t == FoundIn(e, k)
           T == e.table[t]
           U == SetValue(T, SlotIndex(T, k), FirstMatch(Chain(T, k), k), v)
<1>1. t \in 0..1
  BY FoundNode
<1>2. IsHashTable(T)
  BY <1>1, SoundTables
<1>3. T = [slot |-> T.slot, size |-> T.size, count |-> T.count]
  BY <1>2 DEF IsHashTable
<1>4. U.size = T.size /\ U.count = T.count
  BY <1>3 DEF SetValue
<1>5. ReplaceFound(e, k, v) = [e EXCEPT !.table[t] = U]
  BY DEF ReplaceFound
<1>6. IsSound(ReplaceFound(e, k, v))
  BY ReplaceFoundSound
<1>7. e.table[0].count \in Nat
  BY SoundTables
<1> HIDE DEF t, U
<1>8. t = 0 => U.count <= e.table[0].count
  BY <1>4, <1>7
<1>9. QED
  BY <1>1, <1>4, <1>5, <1>6, <1>8, AdvancesTable

-----------------------------------------------------------------------------
(* The theorems.                                                           *)

(* The inductive invariant: that of DictionaryProofs, tables of different  *)
(* sizes during a rehash, and no lookup that missed inside a replacement.  *)
CallInv == Inv /\ SizesDiffer(dictionary) /\ ReplaceFindsNode

LEMMA NotRehashingAdvances ==
  ASSUME NEW d, NEW e, ~IsRehashing(e)
  PROVE  Advances(d, e)
BY DEF Advances, SizesDiffer, Drains

(* The parts of DictionaryReplace() in their order.                        *)
LEMMA ReplaceAdvances ==
  ASSUME CallInv, NEW k \in Key, NEW v \in Value, Replace(k, v)
  PROVE  Advances(dictionary, dictionary') /\ ReplaceFindsNode'
<1> DEFINE d       == dictionary
           outcome == AddNode(d, k, v)
           added   == outcome.dict
           touched == Touch(added)
<1>1. /\ IsSound(d) /\ SizesDiffer(d)
      /\ d.status = "live" /\ NodeNumber(d) < MaxNodes
  BY DEF CallInv, Inv, Replace, IsLive
<1>2. IsSound(added) /\ Advances(d, added) /\ added.status # "replace_null_node"
  BY <1>1, AddNodeSound, AddNodeAdvances
<1>3. /\ IsSound(touched) /\ Advances(d, touched)
      /\ touched.status \in {added.status, "rehash_out_of_bounds"}
  <2> HIDE DEF added
  <2>1. QED BY <1>1, <1>2, TouchSound, AdvancesTouch
<1>4. \/ d' = added
      \/ /\ ~outcome.added /\ added.status = "live"
         /\ d' = IF touched.status # "live" THEN touched
                 ELSE IF FoundIn(touched, k) = -1
                 THEN Fault(touched, "replace_null_node")
                 ELSE ReplaceFound(touched, k, v)
  BY DEF Replace
<1>5. ~outcome.added /\ added.status = "live"
        => added.table[0].size # 0 /\ FirstMatch(Chain(KeyTable(added), k), k) # 0
  BY <1>1, RefusalHasItsNode
<1> HIDE DEF outcome, added, touched
<1>6. CASE d' = added
  BY <1>2, <1>6 DEF ReplaceFindsNode
<1>7. CASE /\ ~outcome.added /\ added.status = "live"
           /\ d' = IF touched.status # "live" THEN touched
                   ELSE IF FoundIn(touched, k) = -1
                   THEN Fault(touched, "replace_null_node")
                   ELSE ReplaceFound(touched, k, v)
  <2>1. CASE touched.status # "live"
    BY <1>3, <1>7, <2>1 DEF ReplaceFindsNode
  <2>2. CASE touched.status = "live"
    <3>1. FoundIn(touched, k) # -1
      BY <1>2, <1>5, <1>7, <2>2, TouchFindsMatch DEF touched
    <3>2. d' = ReplaceFound(touched, k, v)
      BY <1>7, <2>2, <3>1
    <3>3. /\ Advances(d, ReplaceFound(touched, k, v))
          /\ ReplaceFound(touched, k, v).status = touched.status
      BY <1>1, <1>3, <3>1, ReplaceFoundAdvances
    <3>4. QED BY <2>2, <3>2, <3>3 DEF ReplaceFindsNode
  <2>3. QED BY <2>1, <2>2
<1>8. QED
  BY <1>4, <1>6, <1>7

(* One step per action of Next, and the stuttering step.                   *)
LEMMA CallStep ==
  ASSUME CallInv, [Next]_vars
  PROVE  Advances(dictionary, dictionary') /\ ReplaceFindsNode'
<1> DEFINE Goal == Advances(dictionary, dictionary') /\ ReplaceFindsNode'
<1>0. /\ IsSound(dictionary) /\ SizesDiffer(dictionary)
      /\ dictionary.status # "replace_null_node"
      /\ Advances(dictionary, dictionary)
  BY AdvancesOne DEF CallInv, Inv, ReplaceFindsNode
<1>1. CASE Create \/ Release
  <2>1. ASSUME NEW s \in {"absent", "live"}, dictionary' = NewDictionary(s)
        PROVE  Goal
    <3>1. ~IsRehashing(dictionary') /\ dictionary'.status = s
      BY <2>1 DEF NewDictionary, IsRehashing
    <3>2. QED BY <3>1, NotRehashingAdvances DEF ReplaceFindsNode
  <2>2. ASSUME dictionary' = Fault(dictionary, "double_free")
        PROVE  Goal
    BY <1>0, <2>2, AdvancesFault DEF Faults, ReplaceFindsNode
  <2>3. QED BY <1>1, <2>1, <2>2 DEF Create, Release
<1>2. CASE dictionary' = dictionary
  BY <1>0, <1>2 DEF ReplaceFindsNode
<1>3. ASSUME NEW n \in RehashCounts, Rehash(n) PROVE Goal
  <2>1. /\ dictionary' = RehashSlots(dictionary, n)
        /\ RehashSlots(dictionary, n).status
             \in {dictionary.status, "rehash_out_of_bounds"}
    BY <1>0, <1>3, RehashSlotsSound DEF Rehash
  <2>2. QED BY <1>0, <2>1, AdvancesRehash DEF ReplaceFindsNode
<1>4. ASSUME NEW size \in ExpandSizes, Expand(size) PROVE Goal
  <2>1. CASE LargeEnough(size) = {}
    <3>1. dictionary' = Fault(dictionary, "size_overflow")
      BY <1>4, <2>1 DEF Expand
    <3>2. QED BY <1>0, <3>1, AdvancesFault DEF Faults, ReplaceFindsNode
  <2>2. CASE LargeEnough(size) # {} /\ CanExpand(dictionary, size)
    <3>1. /\ dictionary' = ExpandTo(dictionary, size)
          /\ ~IsRehashing(dictionary)
          /\ \E s \in TableSizes : size <= s
      BY <1>4, <2>2 DEF Expand, CanExpand, LargeEnough
    <3>2. ExpandTo(dictionary, size).status = dictionary.status
      BY <1>0, <3>1, ExpandToSound
    <3>3. SizesDiffer(dictionary')
      BY <1>0, <2>2, <3>1, ExpandToSizes DEF SizesDiffer
    <3>4. QED BY <1>0, <3>1, <3>2, <3>3 DEF Advances, Drains, ReplaceFindsNode
  <2>3. CASE LargeEnough(size) # {} /\ ~CanExpand(dictionary, size)
    BY <1>2, <1>4, <2>3 DEF Expand
  <2>4. QED BY <2>1, <2>2, <2>3
<1>5. ASSUME NEW k \in Key, AddRaw(k) PROVE Goal
  BY <1>0, <1>5, AddNodeAdvances DEF AddRaw, IsLive, ReplaceFindsNode
<1>6. ASSUME NEW k \in Key, NEW v \in Value, Add(k, v) PROVE Goal
  BY <1>0, <1>6, AddNodeAdvances DEF Add, IsLive, ReplaceFindsNode
<1>7. /\ IsSound(Touch(dictionary)) /\ Advances(dictionary, Touch(dictionary))
      /\ Touch(dictionary).status # "replace_null_node"
  BY <1>0, TouchSound, AdvancesTouch
<1>8. ASSUME NEW k \in Key, Find(k) PROVE Goal
  BY <1>7, <1>8 DEF Find, ReplaceFindsNode
<1>9. ASSUME NEW k \in Key, NEW v \in Value, Replace(k, v) PROVE Goal
  BY <1>9, ReplaceAdvances
<1>10. ASSUME NEW k \in Key, Delete(k) PROVE Goal
  <2> DEFINE touched == Touch(dictionary)
  <2>1. \/ dictionary' = touched
        \/ FoundIn(touched, k) # -1 /\ dictionary' = RemoveFound(touched, k)
    BY <1>10 DEF Delete
  <2> HIDE DEF touched
  <2>2. FoundIn(touched, k) # -1
          => /\ Advances(dictionary, RemoveFound(touched, k))
             /\ RemoveFound(touched, k).status = touched.status
    BY <1>0, <1>7, RemoveFoundAdvances DEF touched
  <2>3. QED BY <1>7, <2>1, <2>2 DEF touched, ReplaceFindsNode
<1>11. dictionary' = dictionary \/ Create \/ Release
       \/ (\E n \in RehashCounts : Rehash(n))
       \/ (\E size \in ExpandSizes : Expand(size))
       \/ (\E k \in Key : AddRaw(k) \/ Find(k) \/ Delete(k))
       \/ (\E k \in Key, v \in Value : Add(k, v) \/ Replace(k, v))
  BY DEF Next, vars, EnableResize, DisableResize
<1>12. QED
  BY <1>1, <1>2, <1>3, <1>4, <1>5, <1>6, <1>8, <1>9, <1>10, <1>11

LEMMA CallInvInit == Init => CallInv
<1> SUFFICES ASSUME Init PROVE CallInv
  OBVIOUS
<1>1. dictionary = NewDictionary("absent")
  BY DEF Init
<1>2. ~IsRehashing(dictionary) /\ dictionary.status = "absent"
  BY <1>1 DEF NewDictionary, IsRehashing
<1>3. QED
  BY <1>2, InvInit DEF CallInv, SizesDiffer, ReplaceFindsNode

LEMMA CallInvNext == CallInv /\ [Next]_vars => CallInv'
<1> SUFFICES ASSUME CallInv, [Next]_vars PROVE CallInv'
  OBVIOUS
<1>1. Inv'
  BY InvNext DEF CallInv
<1>2. Advances(dictionary, dictionary') /\ ReplaceFindsNode'
  BY CallStep
<1>3. QED
  BY <1>1, <1>2 DEF CallInv, Advances, SizesDiffer

(* DictionaryReplace() never dereferences NULL: the node that refused the  *)
(* key is met by the lookup, whatever the lookup's own rehash step moves   *)
(* and whether or not that step ends the rehash.                           *)
THEOREM ReplaceMeetsItsNode == Spec => []ReplaceFindsNode
<1>1. CallInv => ReplaceFindsNode
  BY DEF CallInv
<1>2. QED
  BY <1>1, CallInvInit, CallInvNext, PTL DEF Spec

(* While a rehash lasts the first table gains no node and the frontier     *)
(* does not go back, for calls that contain a step, an expansion and a     *)
(* second step.                                                            *)
THEOREM FirstTableOnlyDrains == Spec => FirstTableDrains
<1> DEFINE A == IsRehashing(dictionary)
                /\ IsRehashing(dictionary')
                /\ dictionary'.table[0].size = dictionary.table[0].size
                => /\ dictionary'.table[0].count <= dictionary.table[0].count
                   /\ dictionary'.rehash_index >= dictionary.rehash_index
<1>1. CallInv /\ [Next]_vars => [A]_vars
  <2> SUFFICES ASSUME CallInv, [Next]_vars PROVE A
    OBVIOUS
  <2>1. SizesDiffer(dictionary) /\ Drains(dictionary, dictionary')
    BY CallStep DEF CallInv, Advances
  <2>2. QED BY <2>1 DEF SizesDiffer, Drains, GoesOn
<1>2. QED
  BY <1>1, CallInvInit, CallInvNext, PTL DEF Spec, FirstTableDrains

=============================================================================
