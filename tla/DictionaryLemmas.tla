-------------------------- MODULE DictionaryLemmas --------------------------
(***************************************************************************)
(* What the operations on chains and tables of Dictionary preserve.        *)
(***************************************************************************)
EXTENDS Dictionary, NaturalLemmas, SequenceTheorems

-----------------------------------------------------------------------------
LEMMA CardinalityOfRest ==
  ASSUME NEW S, IsFiniteSet(S), NEW U \in SUBSET S
  PROVE  Cardinality(S \ U) = Cardinality(S) - Cardinality(U)
<1>1. S \cap U = U
  OBVIOUS
<1>2. Cardinality(S \ U) = Cardinality(S) - Cardinality(S \cap U)
  BY FS_Difference
<1>3. QED
  BY <1>1, <1>2

-----------------------------------------------------------------------------
(* Chains.                                                                 *)

(* The search returns a position of the chain that holds the key, or 0     *)
(* when no position does.                                                  *)
LEMMA FirstMatchFinds ==
  ASSUME NEW chain \in Seq(HashTableNode), NEW k
  PROVE  /\ FirstMatch(chain, k) \in 0..Len(chain)
         /\ FirstMatch(chain, k) # 0 => chain[FirstMatch(chain, k)].key = k
         /\ FirstMatch(chain, k) = 0 => \A i \in 1..Len(chain) : chain[i].key # k
<1> DEFINE I == {i \in 1..Len(chain) : chain[i].key = k}
<1>1. FirstMatch(chain, k) = IF I # {} THEN Min(I) ELSE 0
  BY DEF FirstMatch, SelectInSeq
<1>2. I # {} => Min(I) \in I
  <2>1. I \in SUBSET Nat
    OBVIOUS
  <2> HIDE DEF I
  <2>2. QED BY MinIsLeast, <2>1
<1>3. QED
  BY <1>1, <1>2

LEMMA RemoveAtChain ==
  ASSUME NEW chain \in Seq(HashTableNode), NEW j \in 1..Len(chain)
  PROVE  /\ RemoveAt(chain, j) \in Seq(HashTableNode)
         /\ Len(RemoveAt(chain, j)) = Len(chain) - 1
<1> DEFINE before == SubSeq(chain, 1, j - 1)
           after  == SubSeq(chain, j + 1, Len(chain))
<1>1. before \in Seq(HashTableNode) /\ Len(before) = j - 1
  OBVIOUS
<1>2. after \in Seq(HashTableNode) /\ Len(after) = Len(chain) - j
  OBVIOUS
<1>3. RemoveAt(chain, j) = before \o after
  BY DEF RemoveAt
<1> HIDE DEF before, after
<1>4. before \o after \in Seq(HashTableNode) /\ Len(before \o after) = Len(before) + Len(after)
  BY <1>1, <1>2, ConcatProperties
<1>5. QED
  BY <1>1, <1>2, <1>3, <1>4

LEMMA LinkChain ==
  ASSUME NEW chain \in Seq(HashTableNode), NEW node \in HashTableNode
  PROVE  /\ <<node>> \o chain \in Seq(HashTableNode)
         /\ Len(<<node>> \o chain) = Len(chain) + 1
<1>1. <<node>> \in Seq(HashTableNode) /\ Len(<<node>>) = 1
  OBVIOUS
<1>2. QED
  BY <1>1, ConcatProperties

LEMMA PourChain ==
  ASSUME NEW chain \in Seq(HashTableNode), NEW onto \in Seq(HashTableNode)
  PROVE  /\ Pour(chain, onto) \in Seq(HashTableNode)
         /\ Len(Pour(chain, onto)) = Len(chain) + Len(onto)
<1> DEFINE back == Reverse(chain)
<1>1. back \in Seq(HashTableNode) /\ Len(back) = Len(chain)
  BY DEF Reverse
<1> HIDE DEF back
<1>2. /\ back \o onto \in Seq(HashTableNode)
      /\ Len(back \o onto) = Len(back) + Len(onto)
  BY <1>1, ConcatProperties
<1>3. QED
  BY <1>1, <1>2 DEF Pour, back

-----------------------------------------------------------------------------
(* Tables.                                                                 *)

(* A table whose counter agrees with its chains.                           *)
IsCountedTable(T) == IsHashTable(T) /\ CountsMatch(T)

LEMMA PlacesOfTable ==
  ASSUME NEW T, IsHashTable(T)
  PROVE  \A p : p \in Places(T) <=>
           \E i \in 0..(T.size - 1) : \E j \in 1..Len(T.slot[i]) : p = <<i, j>>
<1>1. DOMAIN T.slot = 0..(T.size - 1)
  BY DEF IsHashTable
<1>2. \A i \in 0..(T.size - 1) : DOMAIN T.slot[i] = 1..Len(T.slot[i])
  BY DEF IsHashTable
<1>3. QED
  BY <1>1, <1>2 DEF Places

LEMMA PlacesFinite ==
  ASSUME NEW T, IsHashTable(T)
  PROVE  IsFiniteSet(Places(T))
<1>1. DOMAIN T.slot = 0..(T.size - 1) /\ T.size \in Nat
  BY SizesAssumption DEF IsHashTable
<1>2. IsFiniteSet(DOMAIN T.slot)
  BY <1>1, FS_Interval
<1>3. \A i \in DOMAIN T.slot : IsFiniteSet({i} \X DOMAIN T.slot[i])
  <2> TAKE i \in DOMAIN T.slot
  <2>1. DOMAIN T.slot[i] = 1..Len(T.slot[i]) /\ Len(T.slot[i]) \in Nat
    BY <1>1 DEF IsHashTable
  <2>2. IsFiniteSet(DOMAIN T.slot[i])
    BY <2>1, FS_Interval
  <2>3. QED BY <2>2, FS_Singleton, FS_Product
<1>4. IsFiniteSet({{i} \X DOMAIN T.slot[i] : i \in DOMAIN T.slot})
  <2> DEFINE Rows == {{i} \X DOMAIN T.slot[i] : i \in DOMAIN T.slot}
             f    == [i \in DOMAIN T.slot |-> {i} \X DOMAIN T.slot[i]]
  <2>1. f \in Surjection(DOMAIN T.slot, Rows)
    BY DEF Surjection
  <2> HIDE DEF f, Rows
  <2>2. IsFiniteSet(Rows)
    BY <1>2, <2>1, FS_Surjection
  <2>3. QED BY <2>2 DEF Rows
<1>5. QED
  BY <1>3, <1>4, FS_UNION DEF Places

LEMMA EmptyTableCounted ==
  ASSUME NEW n \in TableSizes \cup {0}
  PROVE  IsCountedTable(EmptyTable(n)) /\ EmptyTable(n).size = n
<1>1. n \in Nat
  BY SizesAssumption
<1>2. IsHashTable(EmptyTable(n))
  BY <1>1 DEF IsHashTable, EmptyTable
<1>3. Places(EmptyTable(n)) = {}
  <2>1. \A i \in 0..(EmptyTable(n).size - 1) : Len(EmptyTable(n).slot[i]) = 0
    BY <1>1 DEF EmptyTable
  <2>2. QED BY <1>2, <2>1, PlacesOfTable
<1>4. QED
  BY <1>2, <1>3, FS_EmptySet DEF IsCountedTable, CountsMatch, EmptyTable

(* A change of one chain of a table.  That it changes the length of the    *)
(* chain by one is, on the set of places, one more or one less.            *)
SetChain(T, i, chain, count) ==
  [slot |-> [T.slot EXCEPT ![i] = chain], size |-> T.size, count |-> count]

LEMMA SetChainType ==
  ASSUME NEW T, IsHashTable(T), NEW i \in 0..(T.size - 1),
         NEW chain \in Seq(HashTableNode), NEW count \in Nat
  PROVE  /\ IsHashTable(SetChain(T, i, chain, count))
         /\ SetChain(T, i, chain, count).size = T.size
         /\ SetChain(T, i, chain, count).count = count
         /\ SetChain(T, i, chain, count).slot[i] = chain
         /\ \A h \in 0..(T.size - 1) :
              h # i => SetChain(T, i, chain, count).slot[h] = T.slot[h]
<1> DEFINE slots == [T.slot EXCEPT ![i] = chain]
<1>1. /\ T = [slot |-> T.slot, size |-> T.size, count |-> T.count]
      /\ T.slot \in [0..(T.size - 1) -> Seq(HashTableNode)]
      /\ T.size \in TableSizes \cup {0}
  BY DEF IsHashTable
<1>2. SetChain(T, i, chain, count)
        = [slot |-> slots, size |-> T.size, count |-> count]
  BY DEF SetChain
<1>3. /\ slots \in [0..(T.size - 1) -> Seq(HashTableNode)]
      /\ slots[i] = chain
      /\ \A h \in 0..(T.size - 1) : h # i => slots[h] = T.slot[h]
  BY <1>1
<1> HIDE DEF slots
<1>4. QED
  BY <1>1, <1>2, <1>3 DEF IsHashTable

LEMMA LongerChain ==
  ASSUME NEW T, IsCountedTable(T), NEW i \in 0..(T.size - 1),
         NEW chain \in Seq(HashTableNode), Len(chain) = Len(T.slot[i]) + 1
  PROVE  IsCountedTable(SetChain(T, i, chain, T.count + 1))
<1> DEFINE new == SetChain(T, i, chain, T.count + 1)
           last == <<i, Len(T.slot[i]) + 1>>
<1>1. IsHashTable(T) /\ CountsMatch(T) /\ T.count \in Nat /\ T.size \in Nat
  BY SizesAssumption DEF IsCountedTable, IsHashTable
<1>2. /\ IsHashTable(new) /\ new.size = T.size /\ new.count = T.count + 1
      /\ new.slot[i] = chain
      /\ \A h \in 0..(T.size - 1) : h # i => new.slot[h] = T.slot[h]
  BY <1>1, SetChainType
<1> HIDE DEF new
<1>3. \A h \in 0..(T.size - 1) : Len(T.slot[h]) \in Nat
  BY <1>1 DEF IsHashTable
<1>4. Places(new) = Places(T) \cup {last} /\ last \notin Places(T)
  <2>a. IsHashTable(new) /\ new.size = T.size
    BY <1>2
  <2>1. \A p : p \in Places(new) <=>
          \E h \in 0..(T.size - 1) : \E j \in 1..Len(new.slot[h]) : p = <<h, j>>
    <3>1. \A p : p \in Places(new) <=>
            \E h \in 0..(new.size - 1) :
              \E j \in 1..Len(new.slot[h]) : p = <<h, j>>
      BY <2>a, PlacesOfTable
    <3>2. QED BY <2>a, <3>1
  <2>2. \A p : p \in Places(T) <=>
          \E h \in 0..(T.size - 1) : \E j \in 1..Len(T.slot[h]) : p = <<h, j>>
    BY <1>1, PlacesOfTable
  <2>3. last \in Places(new) /\ last \notin Places(T)
    BY <1>2, <1>3, <2>1, <2>2
  <2>4. ASSUME NEW p \in Places(T) PROVE p \in Places(new)
    BY <1>2, <1>3, <2>1, <2>2
  <2>5. ASSUME NEW p \in Places(new), p # last PROVE p \in Places(T)
    BY <1>2, <1>3, <2>1, <2>2, <2>5
  <2>6. QED BY <2>3, <2>4, <2>5
<1>5. Cardinality(Places(new)) = Cardinality(Places(T)) + 1
  <2>1. IsFiniteSet(Places(T))
    BY <1>1, PlacesFinite
  <2>2. Cardinality(Places(T) \cup {last}) = Cardinality(Places(T)) + 1
    BY <1>4, <2>1, FS_AddElement
  <2>3. QED BY <1>4, <2>2
<1>6. QED
  BY <1>1, <1>2, <1>5 DEF IsCountedTable, CountsMatch, new

LEMMA ShorterChain ==
  ASSUME NEW T, IsCountedTable(T), NEW i \in 0..(T.size - 1),
         NEW chain \in Seq(HashTableNode), Len(T.slot[i]) = Len(chain) + 1
  PROVE  T.count > 0 /\ IsCountedTable(SetChain(T, i, chain, T.count - 1))
<1> DEFINE new == SetChain(T, i, chain, T.count - 1)
           last == <<i, Len(T.slot[i])>>
<1>1. IsHashTable(T) /\ CountsMatch(T) /\ T.count \in Nat /\ T.size \in Nat
  BY SizesAssumption DEF IsCountedTable, IsHashTable
<1>2. \A h \in 0..(T.size - 1) : Len(T.slot[h]) \in Nat
  BY <1>1 DEF IsHashTable
<1>3. \A p : p \in Places(T) <=>
        \E h \in 0..(T.size - 1) : \E j \in 1..Len(T.slot[h]) : p = <<h, j>>
  BY <1>1, PlacesOfTable
<1>4. last \in Places(T)
  <2>1. Len(T.slot[i]) \in 1..Len(T.slot[i]) BY <1>2
  <2>2. QED BY <1>3, <2>1
<1>5. T.count > 0
  BY <1>1, <1>4, PlacesFinite, FS_EmptySet DEF CountsMatch
<1>6. /\ IsHashTable(new) /\ new.size = T.size /\ new.count = T.count - 1
      /\ new.slot[i] = chain
      /\ \A h \in 0..(T.size - 1) : h # i => new.slot[h] = T.slot[h]
  <2>1. T.count - 1 \in Nat
    BY <1>1, <1>5
  <2>2. QED BY <1>1, <2>1, SetChainType
<1> HIDE DEF new
<1>7. Places(new) = Places(T) \ {last}
  <2>a. IsHashTable(new) /\ new.size = T.size
    BY <1>6
  <2>1. \A p : p \in Places(new) <=>
          \E h \in 0..(T.size - 1) : \E j \in 1..Len(new.slot[h]) : p = <<h, j>>
    <3>1. \A p : p \in Places(new) <=>
            \E h \in 0..(new.size - 1) :
              \E j \in 1..Len(new.slot[h]) : p = <<h, j>>
      BY <2>a, PlacesOfTable
    <3>2. QED BY <2>a, <3>1
  <2>2. ASSUME NEW p \in Places(T), p # last PROVE p \in Places(new)
    BY <1>2, <1>3, <1>6, <2>1, <2>2
  <2>3. ASSUME NEW p \in Places(new) PROVE p \in Places(T) /\ p # last
    BY <1>2, <1>3, <1>6, <2>1
  <2>4. QED BY <2>2, <2>3
<1>8. Cardinality(Places(new)) = Cardinality(Places(T)) - 1
  <2>1. IsFiniteSet(Places(T))
    BY <1>1, PlacesFinite
  <2>2. Cardinality(Places(T) \ {last}) = Cardinality(Places(T)) - 1
    BY <1>4, <2>1, FS_RemoveElement
  <2>3. QED BY <1>7, <2>2
<1>9. QED
  BY <1>1, <1>5, <1>6, <1>8 DEF IsCountedTable, CountsMatch, new

(* What the three changes of a table that a call makes keep.               *)
LEMMA LinkCounted ==
  ASSUME NEW T, IsCountedTable(T), NEW i \in 0..(T.size - 1),
         NEW node \in HashTableNode
  PROVE  /\ IsCountedTable(Link(T, i, node))
         /\ Link(T, i, node).size = T.size
         /\ \A h \in 0..(T.size - 1) :
              h # i => Link(T, i, node).slot[h] = T.slot[h]
<1> DEFINE chain == <<node>> \o T.slot[i]
<1>1. T.slot[i] \in Seq(HashTableNode) /\ T.count \in Nat /\ IsHashTable(T)
  BY DEF IsCountedTable, IsHashTable
<1>2. chain \in Seq(HashTableNode) /\ Len(chain) = Len(T.slot[i]) + 1
  BY <1>1, LinkChain
<1>3. Link(T, i, node) = SetChain(T, i, chain, T.count + 1)
  BY DEF Link, SetChain
<1> HIDE DEF chain
<1>4. QED
  BY <1>1, <1>2, <1>3, LongerChain, SetChainType

LEMMA UnlinkCounted ==
  ASSUME NEW T, IsCountedTable(T), NEW i \in 0..(T.size - 1),
         NEW j \in 1..Len(T.slot[i])
  PROVE  /\ IsCountedTable(Unlink(T, i, j))
         /\ Unlink(T, i, j).size = T.size
         /\ \A h \in 0..(T.size - 1) :
              h # i => Unlink(T, i, j).slot[h] = T.slot[h]
<1> DEFINE chain == RemoveAt(T.slot[i], j)
<1>1. T.slot[i] \in Seq(HashTableNode) /\ T.count \in Nat /\ IsHashTable(T)
  BY DEF IsCountedTable, IsHashTable
<1>2. chain \in Seq(HashTableNode) /\ Len(T.slot[i]) = Len(chain) + 1
  BY <1>1, RemoveAtChain
<1>3. Unlink(T, i, j) = SetChain(T, i, chain, T.count - 1)
  BY DEF Unlink, SetChain
<1> HIDE DEF chain
<1>4. T.count > 0 /\ IsCountedTable(SetChain(T, i, chain, T.count - 1))
  BY <1>2, ShorterChain
<1>5. QED
  BY <1>1, <1>2, <1>3, <1>4, SetChainType

LEMMA SetValueCounted ==
  ASSUME NEW T, IsCountedTable(T), NEW i \in 0..(T.size - 1),
         NEW j \in 1..Len(T.slot[i]), NEW v \in Value
  PROVE  /\ IsCountedTable(SetValue(T, i, j, v))
         /\ SetValue(T, i, j, v).size = T.size
         /\ \A h \in 0..(T.size - 1) :
              h # i => SetValue(T, i, j, v).slot[h] = T.slot[h]
<1> DEFINE new   == SetValue(T, i, j, v)
           chain == [T.slot[i] EXCEPT ![j].value = v]
<1>1. /\ IsHashTable(T) /\ T.slot[i] \in Seq(HashTableNode) /\ T.count \in Nat
      /\ T = [slot |-> T.slot, size |-> T.size, count |-> T.count]
      /\ T.slot \in [0..(T.size - 1) -> Seq(HashTableNode)]
  BY DEF IsCountedTable, IsHashTable
<1>2. chain \in Seq(HashTableNode) /\ Len(chain) = Len(T.slot[i])
  <2>1. ASSUME NEW old \in HashTableNode
        PROVE  [old EXCEPT !.value = v] \in HashTableNode
    BY DEF HashTableNode
  <2> DEFINE node == [T.slot[i][j] EXCEPT !.value = v]
  <2>2. T.slot[i][j] \in HashTableNode
    BY <1>1
  <2>3. node \in HashTableNode
    BY <2>1, <2>2
  <2>4. chain = [T.slot[i] EXCEPT ![j] = node]
    OBVIOUS
  <2> HIDE DEF node
  <2>5. ASSUME NEW old \in Seq(HashTableNode), j \in 1..Len(old)
        PROVE  /\ [old EXCEPT ![j] = node] \in Seq(HashTableNode)
               /\ Len([old EXCEPT ![j] = node]) = Len(old)
    BY <2>3, <2>5
  <2>6. QED BY <1>1, <2>4, <2>5
<1>3. new = SetChain(T, i, chain, T.count)
  <2> HIDE DEF chain
  <2>1. new = [T EXCEPT !.slot[i] = chain]
    BY DEF SetValue, chain
  <2>2. QED BY <1>1, <2>1 DEF SetChain
<1> HIDE DEF chain, new
<1>4. /\ IsHashTable(new) /\ new.size = T.size /\ new.count = T.count
      /\ new.slot[i] = chain
      /\ \A h \in 0..(T.size - 1) : h # i => new.slot[h] = T.slot[h]
  BY <1>1, <1>2, <1>3, SetChainType
<1>5. \A h \in 0..(T.size - 1) : Len(new.slot[h]) = Len(T.slot[h])
  BY <1>2, <1>4
<1>6. Places(new) = Places(T)
  <2>a. IsHashTable(new) /\ new.size = T.size
    BY <1>4
  <2>1. \A p : p \in Places(new) <=>
          \E h \in 0..(T.size - 1) : \E k \in 1..Len(new.slot[h]) : p = <<h, k>>
    <3>1. \A p : p \in Places(new) <=>
            \E h \in 0..(new.size - 1) :
              \E k \in 1..Len(new.slot[h]) : p = <<h, k>>
      BY <2>a, PlacesOfTable
    <3>2. QED BY <2>a, <3>1
  <2>2. \A p : p \in Places(T) <=>
          \E h \in 0..(T.size - 1) : \E k \in 1..Len(T.slot[h]) : p = <<h, k>>
    BY <1>1, PlacesOfTable
  <2>3. QED BY <1>5, <2>1, <2>2
<1>7. QED
  BY <1>4, <1>6 DEF IsCountedTable, CountsMatch, new

-----------------------------------------------------------------------------
(* Rehashing.                                                              *)

(* The inductive invariant, of a dictionary: its type, counters that agree *)
(* with the chains, the frontier of the rehash, and no overrun so far.     *)
IsSound(d) ==
  /\ IsDictionary(d)
  /\ \A t \in 0..1 : CountsMatch(d.table[t])
  /\ Frontier(d)
  /\ d.status # "rehash_overrun"

LEMMA SoundTables ==
  ASSUME NEW d, IsSound(d)
  PROVE  /\ IsCountedTable(d.table[0]) /\ IsCountedTable(d.table[1])
         /\ IsHashTable(d.table[0]) /\ IsHashTable(d.table[1])
         /\ d.table[0].size \in Nat /\ d.table[1].size \in Nat
         /\ d.table[0].count \in Nat /\ d.table[1].count \in Nat
         /\ d.rehash_index \in Nat \cup {-1}
<1>1. IsHashTable(d.table[0]) /\ IsHashTable(d.table[1])
  BY DEF IsSound, IsDictionary
<1>2. CountsMatch(d.table[0]) /\ CountsMatch(d.table[1])
  BY DEF IsSound
<1>3. d.rehash_index \in Nat \cup {-1}
  BY DEF IsSound, IsDictionary
<1>4. ASSUME NEW T, IsHashTable(T) PROVE T.size \in Nat /\ T.count \in Nat
  BY <1>4, SizesAssumption DEF IsHashTable
<1>5. QED
  BY <1>1, <1>2, <1>3, <1>4 DEF IsCountedTable

LEMMA MadeOfSoundTables ==
  ASSUME NEW first, NEW second, NEW index \in Nat \cup {-1},
         NEW status \in ({"absent", "live"} \cup Faults) \ {"rehash_overrun"},
         NEW d, d = [table |-> Tables(first, second), rehash_index |-> index,
                     status |-> status],
         IsCountedTable(first), IsCountedTable(second), Frontier(d)
  PROVE  IsSound(d)
<1>1. /\ d.table = Tables(first, second) /\ d.rehash_index = index
      /\ d.status = status
  OBVIOUS
<1>2. d.table[0] = first /\ d.table[1] = second
  BY <1>1 DEF Tables
<1>3. \A t \in 0..1 : IsHashTable(d.table[t]) /\ CountsMatch(d.table[t])
  BY <1>2 DEF IsCountedTable
<1>4. d.table = [t \in 0..1 |-> d.table[t]]
  BY <1>1 DEF Tables
<1>5. IsDictionary(d)
  BY <1>1, <1>3, <1>4 DEF IsDictionary
<1>6. QED
  BY <1>1, <1>3, <1>5 DEF IsSound

(* The nodes of the visited slots, and what a run over all slots visits.   *)
LEMMA MovedPlacesFinite ==
  ASSUME NEW d, IsSound(d), NEW j
  PROVE  /\ IsFiniteSet(MovedPlaces(d, j))
         /\ Cardinality(MovedPlaces(d, j)) \in Nat
         /\ Cardinality(MovedPlaces(d, j)) <= d.table[0].count
<1>1. IsFiniteSet(Places(d.table[0]))
  BY SoundTables, PlacesFinite
<1>2. MovedPlaces(d, j) \in SUBSET Places(d.table[0])
  BY DEF MovedPlaces
<1>3. d.table[0].count = Cardinality(Places(d.table[0]))
  BY DEF IsSound, CountsMatch
<1>4. QED
  BY <1>1, <1>2, <1>3, FS_Subset, FS_CardinalityType

LEMMA PlacesBeyondFrontier ==
  ASSUME NEW d, IsSound(d), IsRehashing(d), NEW p \in Places(d.table[0])
  PROVE  p[1] \in d.rehash_index..(d.table[0].size - 1)
<1>1. PICK i \in 0..(d.table[0].size - 1) :
        \E j \in 1..Len(d.table[0].slot[i]) : p = <<i, j>>
  BY SoundTables, PlacesOfTable
<1>2. p[1] = i /\ d.table[0].slot[i] # <<>>
  BY <1>1
<1>3. \A h \in 0..(d.rehash_index - 1) : d.table[0].slot[h] = <<>>
  BY DEF IsSound, Frontier
<1>4. d.rehash_index \in Nat
  BY SoundTables DEF IsRehashing
<1>5. QED
  BY <1>1, <1>2, <1>3, <1>4, SoundTables

(* The assertion of DictionaryRehash() holds: the loop ends in the table.  *)
LEMMA LoopMeetsItsEnd ==
  ASSUME NEW d, IsSound(d), IsRehashing(d), NEW n
  PROVE  /\ LoopEndings(d, n) # {}
         /\ Min(LoopEndings(d, n)) \in d.rehash_index..d.table[0].size
<1> DEFINE size == d.table[0].size
<1>1. d.rehash_index \in Nat /\ size \in Nat /\ d.rehash_index < size
  BY SoundTables DEF IsSound, Frontier, IsRehashing
<1>2. MovedPlaces(d, size) = Places(d.table[0])
  BY PlacesBeyondFrontier DEF MovedPlaces, VisitedSlots
<1>3. Cardinality(MovedPlaces(d, size)) = d.table[0].count
  BY <1>2 DEF IsSound, CountsMatch
<1>4. size \in LoopEndings(d, n)
  BY <1>1, <1>3 DEF LoopEndings, LoopEnds
<1>5. LoopEndings(d, n) \in SUBSET (d.rehash_index..size)
  BY DEF LoopEndings
<1>6. LoopEndings(d, n) \in SUBSET Nat
  BY <1>1, <1>5
<1>7. Min(LoopEndings(d, n)) \in LoopEndings(d, n)
  BY <1>4, <1>6, MinIsLeast
<1>8. QED
  BY <1>4, <1>5, <1>7

LEMMA LeftTableCounted ==
  ASSUME NEW d, IsSound(d), IsRehashing(d),
         NEW j \in d.rehash_index..d.table[0].size
  PROVE  /\ IsCountedTable(LeftTable(d, j))
         /\ LeftTable(d, j).size = d.table[0].size
         /\ \A i \in 0..(j - 1) : LeftTable(d, j).slot[i] = <<>>
<1> DEFINE first == d.table[0]
           left  == LeftTable(d, j)
<1>1. /\ IsHashTable(first) /\ first.size \in Nat /\ first.count \in Nat
      /\ d.rehash_index \in Nat /\ j \in Nat /\ j <= first.size
  BY SoundTables DEF IsRehashing
<1>2. /\ first.slot \in [0..(first.size - 1) -> Seq(HashTableNode)]
      /\ first.size \in TableSizes \cup {0}
  BY <1>1 DEF IsHashTable
<1>3. /\ left.slot = [i \in 0..(first.size - 1) |->
                        IF i \in VisitedSlots(d, j) THEN <<>> ELSE first.slot[i]]
      /\ left.size = first.size
      /\ left.count = first.count - Cardinality(MovedPlaces(d, j))
      /\ left = [slot |-> left.slot, size |-> left.size, count |-> left.count]
  BY <1>2 DEF LeftTable
<1>4. left.count \in Nat
  BY <1>1, <1>3, MovedPlacesFinite
<1>5. left.slot \in [0..(first.size - 1) -> Seq(HashTableNode)]
  <2>1. <<>> \in Seq(HashTableNode)
    OBVIOUS
  <2> HIDE DEF left, first
  <2>2. QED BY <1>2, <1>3, <2>1
<1>6. IsHashTable(left)
  BY <1>2, <1>3, <1>4, <1>5 DEF IsHashTable
<1>7. Places(left) = Places(first) \ MovedPlaces(d, j)
  <2>1. \A p : p \in Places(left) <=>
          \E i \in 0..(first.size - 1) : \E k \in 1..Len(left.slot[i]) : p = <<i, k>>
    <3>1. \A p : p \in Places(left) <=>
            \E i \in 0..(left.size - 1) : \E k \in 1..Len(left.slot[i]) : p = <<i, k>>
      BY <1>6, PlacesOfTable
    <3>2. QED BY <1>3, <3>1
  <2>2. \A p : p \in Places(first) <=>
          \E i \in 0..(first.size - 1) : \E k \in 1..Len(first.slot[i]) : p = <<i, k>>
    BY <1>1, PlacesOfTable
  <2> HIDE DEF left, first
  <2>3. ASSUME NEW p \in Places(left)
        PROVE  p \in Places(first) /\ p[1] \notin VisitedSlots(d, j)
    <3>1. PICK i \in 0..(first.size - 1) : \E k \in 1..Len(left.slot[i]) : p = <<i, k>>
      BY <2>1
    <3>2. i \notin VisitedSlots(d, j) /\ left.slot[i] = first.slot[i]
      BY <1>3, <3>1
    <3>3. QED BY <2>2, <3>1, <3>2
  <2>4. ASSUME NEW p \in Places(first), p[1] \notin VisitedSlots(d, j)
        PROVE  p \in Places(left)
    <3>1. PICK i \in 0..(first.size - 1) : \E k \in 1..Len(first.slot[i]) : p = <<i, k>>
      BY <2>2
    <3>2. left.slot[i] = first.slot[i]
      BY <1>3, <2>4, <3>1
    <3>3. QED BY <2>1, <3>1, <3>2
  <2>5. QED BY <2>3, <2>4 DEF MovedPlaces, first
<1>8. Cardinality(Places(left)) = left.count
  <2>1. IsFiniteSet(Places(first)) /\ first.count = Cardinality(Places(first))
    BY <1>1, PlacesFinite DEF IsSound, CountsMatch
  <2>2. MovedPlaces(d, j) \in SUBSET Places(first)
    BY DEF MovedPlaces
  <2>3. Cardinality(Places(first) \ MovedPlaces(d, j))
          = Cardinality(Places(first)) - Cardinality(MovedPlaces(d, j))
    BY <2>1, <2>2, CardinalityOfRest
  <2>4. left.count = first.count - Cardinality(MovedPlaces(d, j))
    BY <1>3
  <2> HIDE DEF left, first
  <2>5. QED BY <1>7, <2>1, <2>3, <2>4
<1>9. \A i \in 0..(j - 1) : left.slot[i] = <<>>
  <2>1. \A i \in 0..(d.rehash_index - 1) : first.slot[i] = <<>>
    BY DEF IsSound, Frontier
  <2>2. \A i \in 0..(j - 1) :
          i \in 0..(first.size - 1) /\ (i < d.rehash_index \/ i \in VisitedSlots(d, j))
    BY <1>1 DEF VisitedSlots
  <2>3. \A i \in 0..(j - 1) : i < d.rehash_index => first.slot[i] = <<>>
    BY <1>1, <2>1
  <2> HIDE DEF left, first
  <2>4. QED BY <1>3, <2>2, <2>3
<1>10. QED
  BY <1>3, <1>6, <1>8, <1>9 DEF IsCountedTable, CountsMatch

LEMMA GainedTableCounted ==
  ASSUME NEW d, IsSound(d), IsRehashing(d),
         NEW j \in d.rehash_index..d.table[0].size,
         \A i \in FilledSlots(d, j) : i < d.table[1].size
  PROVE  /\ IsCountedTable(GainedTable(d, j))
         /\ GainedTable(d, j).size = d.table[1].size
<1> DEFINE first  == d.table[0]
           second == d.table[1]
           gained == GainedTable(d, j)
           filled == FilledSlots(d, j)
           moved  == MovedPlaces(d, j)
<1>1. /\ IsHashTable(first) /\ IsHashTable(second)
      /\ first.size \in Nat /\ second.size \in Nat /\ second.count \in Nat
      /\ d.rehash_index \in Nat /\ j \in Nat /\ j <= first.size
  BY SoundTables DEF IsRehashing
<1>2. /\ first.slot \in [0..(first.size - 1) -> Seq(HashTableNode)]
      /\ second.slot \in [0..(second.size - 1) -> Seq(HashTableNode)]
      /\ second.size \in TableSizes \cup {0}
  BY <1>1 DEF IsHashTable
<1>3. /\ gained.slot = [i \in 0..(second.size - 1) |->
                          IF i \in filled THEN Pour(first.slot[i], second.slot[i])
                          ELSE second.slot[i]]
      /\ gained.size = second.size
      /\ gained.count = second.count + Cardinality(moved)
      /\ gained = [slot |-> gained.slot, size |-> gained.size, count |-> gained.count]
  BY <1>2 DEF GainedTable
<1>4. IsFiniteSet(moved) /\ Cardinality(moved) \in Nat
  BY MovedPlacesFinite
<1>5. filled \subseteq 0..(first.size - 1) /\ filled \subseteq 0..(second.size - 1)
  BY <1>1 DEF FilledSlots, VisitedSlots
<1>6. \A i \in filled :
        /\ Pour(first.slot[i], second.slot[i]) \in Seq(HashTableNode)
        /\ Len(Pour(first.slot[i], second.slot[i]))
             = Len(first.slot[i]) + Len(second.slot[i])
  <2> HIDE DEF filled, first, second
  <2> TAKE i \in filled
  <2>1. first.slot[i] \in Seq(HashTableNode) /\ second.slot[i] \in Seq(HashTableNode)
    BY <1>2, <1>5
  <2>2. QED BY <2>1, PourChain
<1>7. \A p : p \in moved <=>
        \E i \in filled : \E k \in 1..Len(first.slot[i]) : p = <<i, k>>
  <2>1. \A p : p \in Places(first) <=>
          \E i \in 0..(first.size - 1) : \E k \in 1..Len(first.slot[i]) : p = <<i, k>>
    BY <1>1, PlacesOfTable
  <2>2. \A i \in 0..(first.size - 1) :
          i \in filled <=> i \in VisitedSlots(d, j) /\ first.slot[i] # <<>>
    BY DEF FilledSlots
  <2>3. \A p : p \in moved <=> p \in Places(first) /\ p[1] \in VisitedSlots(d, j)
    BY DEF MovedPlaces
  <2> HIDE DEF filled, first, moved
  <2>4. ASSUME NEW p \in moved
        PROVE  \E i \in filled : \E k \in 1..Len(first.slot[i]) : p = <<i, k>>
    <3>1. PICK i \in 0..(first.size - 1) : \E k \in 1..Len(first.slot[i]) : p = <<i, k>>
      BY <2>1, <2>3
    <3>2. i \in filled
      BY <2>2, <2>3, <3>1
    <3>3. QED BY <3>1, <3>2
  <2>5. ASSUME NEW i \in filled, NEW k \in 1..Len(first.slot[i])
        PROVE  <<i, k>> \in moved
    <3>1. i \in 0..(first.size - 1) /\ i \in VisitedSlots(d, j)
      BY <1>5, <2>2
    <3>2. QED BY <2>1, <2>3, <3>1
  <2>6. QED BY <2>4, <2>5
<1> HIDE DEF first, second, gained, filled, moved
<1>8. gained.slot \in [0..(second.size - 1) -> Seq(HashTableNode)]
  <2>1. ASSUME NEW i \in 0..(second.size - 1)
        PROVE  (IF i \in filled THEN Pour(first.slot[i], second.slot[i])
                ELSE second.slot[i]) \in Seq(HashTableNode)
    BY <1>2, <1>6
  <2>2. QED BY <1>3, <2>1
<1>9. IsHashTable(gained)
  BY <1>1, <1>2, <1>3, <1>4, <1>8 DEF IsHashTable
<1>10. \A i \in 0..(second.size - 1) :
         Len(second.slot[i]) \in Nat /\ Len(gained.slot[i]) \in Nat
  BY <1>2, <1>8
<1>11. /\ \A i \in filled : Len(first.slot[i]) \in Nat
       /\ \A i \in filled : Len(gained.slot[i]) = Len(first.slot[i]) + Len(second.slot[i])
       /\ \A i \in (0..(second.size - 1)) \ filled :
            Len(gained.slot[i]) = Len(second.slot[i])
  <2>1. \A i \in filled : gained.slot[i] = Pour(first.slot[i], second.slot[i])
    BY <1>3, <1>5
  <2>2. \A i \in (0..(second.size - 1)) \ filled : gained.slot[i] = second.slot[i]
    BY <1>3
  <2>3. \A i \in filled : first.slot[i] \in Seq(HashTableNode)
    BY <1>2, <1>5
  <2>4. \A i \in filled : Len(first.slot[i]) \in Nat
    BY <2>3
  <2>5. \A i \in filled : Len(gained.slot[i]) = Len(first.slot[i]) + Len(second.slot[i])
    BY <1>6, <2>1
  <2>6. \A i \in (0..(second.size - 1)) \ filled :
          Len(gained.slot[i]) = Len(second.slot[i])
    BY <2>2
  <2>7. QED BY <2>4, <2>5, <2>6
<1>12. \A p : p \in Places(second) <=>
         \E i \in 0..(second.size - 1) : \E k \in 1..Len(second.slot[i]) : p = <<i, k>>
  BY <1>1, PlacesOfTable
<1>13. \A p : p \in Places(gained) <=>
         \E i \in 0..(second.size - 1) : \E k \in 1..Len(gained.slot[i]) : p = <<i, k>>
  <2>1. \A p : p \in Places(gained) <=>
          \E i \in 0..(gained.size - 1) : \E k \in 1..Len(gained.slot[i]) : p = <<i, k>>
    BY <1>9, PlacesOfTable
  <2>2. QED BY <1>3, <2>1
<1> DEFINE Shift(p) == <<p[1], Len(second.slot[p[1]]) + p[2]>>
           shifted  == {Shift(p) : p \in moved}
           shift    == [p \in moved |-> Shift(p)]
<1>14. Places(gained) = Places(second) \cup shifted
  <2>1. ASSUME NEW i \in 0..(second.size - 1), NEW k \in 1..Len(gained.slot[i])
        PROVE  <<i, k>> \in Places(second) \cup shifted
    <3>1. CASE k <= Len(second.slot[i])
      BY <1>10, <1>12, <3>1
    <3>2. CASE k > Len(second.slot[i])
      <4>1. i \in filled
        BY <1>10, <1>11, <3>2
      <4>. k - Len(second.slot[i]) \in 1..Len(first.slot[i])
        <5>1. /\ Len(first.slot[i]) \in Nat /\ Len(second.slot[i]) \in Nat
              /\ Len(gained.slot[i]) = Len(first.slot[i]) + Len(second.slot[i])
          BY <1>10, <1>11, <4>1
        <5> DEFINE a == Len(first.slot[i])
                   b == Len(second.slot[i])
                   c == Len(gained.slot[i])
        <5>2. a \in Nat /\ b \in Nat /\ c = a + b /\ k \in 1..c /\ k > b
          BY <3>2, <5>1
        <5> HIDE DEF a, b, c
        <5>3. k - b \in 1..a
          BY <5>2
        <5>4. QED BY <5>3 DEF a, b
      <4>2. <<i, k - Len(second.slot[i])>> \in moved
        BY <1>7, <4>1
      <4>3. <<i, k>> = Shift(<<i, k - Len(second.slot[i])>>)
        BY <1>10
      <4>4. QED BY <4>2, <4>3
    <3>3. QED BY <1>10, <3>1, <3>2
  <2>2. ASSUME NEW i \in 0..(second.size - 1), NEW k \in 1..Len(second.slot[i])
        PROVE  <<i, k>> \in Places(gained)
    <3>1. Len(second.slot[i]) <= Len(gained.slot[i])
      <4>1. CASE i \in filled
        <5>1. /\ Len(first.slot[i]) \in Nat /\ Len(second.slot[i]) \in Nat
              /\ Len(gained.slot[i]) = Len(first.slot[i]) + Len(second.slot[i])
          BY <1>10, <1>11, <4>1
        <5> DEFINE a == Len(first.slot[i])
                   b == Len(second.slot[i])
        <5>2. a \in Nat /\ b \in Nat /\ Len(gained.slot[i]) = a + b
          BY <5>1
        <5> HIDE DEF a, b
        <5>3. b <= a + b
          BY <5>2
        <5>4. QED BY <5>2, <5>3 DEF b
      <4>2. CASE i \notin filled
        BY <1>10, <1>11, <4>2
      <4>3. QED BY <4>1, <4>2
    <3>2. QED BY <1>10, <1>13, <3>1
  <2>3. ASSUME NEW i \in filled, NEW k \in 1..Len(first.slot[i])
        PROVE  Shift(<<i, k>>) \in Places(gained)
    <3>1. i \in 0..(second.size - 1)
      BY <1>5
    <3>2. /\ Len(gained.slot[i]) = Len(first.slot[i]) + Len(second.slot[i])
          /\ Len(first.slot[i]) \in Nat /\ Len(second.slot[i]) \in Nat
      BY <1>10, <1>11, <3>1
    <3>3. Len(second.slot[i]) + k \in 1..Len(gained.slot[i])
      <4> DEFINE a == Len(first.slot[i])
                 b == Len(second.slot[i])
                 c == Len(gained.slot[i])
      <4>1. a \in Nat /\ b \in Nat /\ c = a + b /\ k \in 1..a
        BY <3>2
      <4> HIDE DEF a, b, c
      <4>2. b + k \in 1..c
        BY <4>1
      <4>3. QED BY <4>2 DEF b, c
    <3>4. QED BY <1>13, <3>1, <3>3
  <2>4. Places(gained) \subseteq Places(second) \cup shifted
    <3> SUFFICES ASSUME NEW p \in Places(gained)
                 PROVE  p \in Places(second) \cup shifted
      OBVIOUS
    <3> HIDE DEF shifted
    <3>1. QED BY <1>13, <2>1
  <2>5. Places(second) \subseteq Places(gained)
    BY <1>12, <2>2
  <2>6. shifted \subseteq Places(gained)
    <3> SUFFICES ASSUME NEW p \in moved PROVE Shift(p) \in Places(gained)
      OBVIOUS
    <3> HIDE DEF Shift
    <3>1. QED BY <1>7, <2>3
  <2>7. QED BY <2>4, <2>5, <2>6
<1>15. Places(second) \cap shifted = {}
  <2>1. ASSUME NEW i \in filled, NEW k \in 1..Len(first.slot[i])
        PROVE  Shift(<<i, k>>) \notin Places(second)
    <3>1. Len(second.slot[i]) \in Nat
      BY <1>5, <1>10
    <3>2. QED BY <1>11, <1>12, <3>1
  <2>2. ASSUME NEW p \in moved PROVE Shift(p) \notin Places(second)
    <3> HIDE DEF Shift
    <3>1. QED BY <1>7, <2>1
  <2>3. QED BY <2>2
<1>16. IsFiniteSet(shifted) /\ Cardinality(shifted) = Cardinality(moved)
  <2>1. ASSUME NEW p \in moved, NEW q \in moved, Shift(p) = Shift(q)
        PROVE  p = q
    <3>1. PICK i \in filled : \E k \in 1..Len(first.slot[i]) : p = <<i, k>>
      BY <1>7
    <3>2. PICK k \in 1..Len(first.slot[i]) : p = <<i, k>>
      BY <3>1
    <3>3. PICK h \in filled : \E l \in 1..Len(first.slot[h]) : q = <<h, l>>
      BY <1>7
    <3>4. PICK l \in 1..Len(first.slot[h]) : q = <<h, l>>
      BY <3>3
    <3>5. <<i, Len(second.slot[i]) + k>> = <<h, Len(second.slot[h]) + l>>
      BY <2>1, <3>2, <3>4
    <3>6. i = h /\ Len(second.slot[i]) + k = Len(second.slot[i]) + l
      BY <3>5
    <3>7. Len(second.slot[i]) \in Nat
      BY <1>5, <1>10
    <3>8. QED BY <3>2, <3>4, <3>6, <3>7
  <2>2. shift \in Bijection(moved, shifted)
    <3> HIDE DEF Shift
    <3>1. shift \in [moved -> shifted]
      OBVIOUS
    <3>2. shift \in Injection(moved, shifted)
      BY <2>1, <3>1 DEF Injection, IsInjective
    <3>3. shift \in Surjection(moved, shifted)
      BY <3>1 DEF Surjection
    <3>4. QED BY <3>2, <3>3 DEF Bijection
  <2> HIDE DEF shift, shifted
  <2>3. ExistsBijection(moved, shifted)
    BY <2>2 DEF ExistsBijection
  <2>4. QED BY <1>4, <2>3, FS_Bijection
<1>17. Cardinality(Places(gained)) = gained.count
  <2>1. IsFiniteSet(Places(second)) /\ Cardinality(Places(second)) = second.count
    BY <1>1, PlacesFinite DEF IsSound, CountsMatch, second
  <2> HIDE DEF shifted
  <2>2. Cardinality(Places(second) \cup shifted)
          = Cardinality(Places(second)) + Cardinality(shifted)
    BY <1>1, <1>4, <1>15, <1>16, <2>1, FS_Union, FS_EmptySet
  <2>3. QED BY <1>3, <1>14, <1>16, <2>1, <2>2
<1>18. QED
  BY <1>3, <1>9, <1>17 DEF IsCountedTable, CountsMatch, gained, second

-----------------------------------------------------------------------------
(* How many nodes of a set C a chain and a table have.                     *)

(* A set that one of its parts, and an image of another set, make up.      *)
LEMMA PartAndImage ==
  ASSUME NEW S, IsFiniteSet(S), NEW R, IsFiniteSet(R), NEW T, NEW f \in [S -> T],
         \A x, y \in S : f[x] = f[y] => x = y,
         R \subseteq T, \A x \in S : f[x] \notin R,
         \A z \in T : z \in R \/ \E x \in S : f[x] = z
  PROVE  /\ IsFiniteSet(T)
         /\ Cardinality(T) = Cardinality(S) + Cardinality(R)
<1>1. PICK U : U = {f[x] : x \in S}
  OBVIOUS
<1>2. f \in Injection(S, U)
  BY <1>1 DEF Injection, IsInjective
<1>3. f \in Surjection(S, U)
  BY <1>1 DEF Surjection
<1>4. ExistsBijection(S, U)
  BY <1>2, <1>3 DEF ExistsBijection, Bijection
<1>5. IsFiniteSet(U) /\ Cardinality(U) = Cardinality(S)
  BY <1>4, FS_Bijection
<1>6. U \cap R = {} /\ T = U \cup R
  BY <1>1
<1>7. IsFiniteSet(U \cup R)
      /\ Cardinality(U \cup R) = Cardinality(U) + Cardinality(R) - Cardinality(U \cap R)
  BY <1>5, FS_Union
<1>8. Cardinality(U \cap R) = 0
  BY <1>6, FS_EmptySet
<1>9. Cardinality(U) \in Nat /\ Cardinality(R) \in Nat
  BY <1>5, FS_CardinalityType
<1>10. QED
  BY <1>5, <1>6, <1>7, <1>8, <1>9

(* What is in one part of a singleton.                                     *)
Has(R, x) == IF x \in R THEN 1 ELSE 0

LEMMA PartOfOne ==
  ASSUME NEW x, NEW R, R \subseteq {x}
  PROVE  IsFiniteSet(R) /\ Cardinality(R) = Has(R, x)
<1>1. CASE x \in R
  <2>1. R = {x}
    BY <1>1
  <2>2. QED BY <1>1, <2>1, FS_Singleton DEF Has
<1>2. CASE x \notin R
  <2>1. R = {}
    BY <1>2
  <2>2. QED BY <1>2, <2>1, FS_EmptySet DEF Has
<1>3. QED BY <1>1, <1>2

(* The places of a chain that have a node of C.                            *)
Hits(chain, C) == {j \in 1..Len(chain) : chain[j] \in C}

LEMMA HitsFinite ==
  ASSUME NEW chain \in Seq(HashTableNode), NEW C
  PROVE  IsFiniteSet(Hits(chain, C)) /\ Cardinality(Hits(chain, C)) \in Nat
<1>1. IsFiniteSet(1..Len(chain))
  BY FS_Interval
<1>2. Hits(chain, C) \in SUBSET (1..Len(chain))
  BY DEF Hits
<1>3. IsFiniteSet(Hits(chain, C))
  BY <1>1, <1>2, FS_Subset
<1>4. QED BY <1>3, FS_CardinalityType

LEMMA HitsOfLinked ==
  ASSUME NEW a \in Seq(HashTableNode), NEW n \in HashTableNode, NEW C
  PROVE  Cardinality(Hits(<<n>> \o a, C)) = Cardinality(Hits(a, C)) + Has(C, n)
<1>1. PICK k \in Nat : k = Len(a)
  OBVIOUS
<1>2. PICK b \in Seq(HashTableNode) : b = <<n>> \o a
  BY LinkChain
<1>3. Len(b) = k + 1 /\ b[1] = n /\ \A i \in 1..k : b[i + 1] = a[i]
  <2>1. <<n>> \in Seq(HashTableNode) /\ Len(<<n>>) = 1 /\ <<n>>[1] = n
    OBVIOUS
  <2>2. /\ Len(<<n>> \o a) = 1 + k
        /\ \A i \in 1..(1 + k) : (<<n>> \o a)[i] = IF i <= 1 THEN <<n>>[i] ELSE a[i - 1]
    BY <1>1, <2>1, ConcatProperties
  <2>3. \A i \in 1..k : i + 1 \in 1..(1 + k) /\ ~(i + 1 <= 1) /\ (i + 1) - 1 = i
    OBVIOUS
  <2>4. 1 \in 1..(1 + k)
    OBVIOUS
  <2>5. QED BY <1>2, <2>1, <2>2, <2>3, <2>4
<1>4. PICK S, T, R : S = Hits(a, C) /\ T = Hits(b, C) /\ R = {1} \cap T
  OBVIOUS
<1>5. /\ \A i : i \in S <=> i \in 1..k /\ a[i] \in C
      /\ \A i : i \in T <=> i \in 1..(k + 1) /\ b[i] \in C
  BY <1>1, <1>3, <1>4 DEF Hits
<1>6. PICK f \in [S -> T] : f = [i \in S |-> i + 1]
  <2>1. ASSUME NEW i \in S PROVE i + 1 \in T
    <3>1. i \in 1..k /\ a[i] \in C
      BY <1>5
    <3>2. i + 1 \in 1..(k + 1) /\ b[i + 1] \in C
      BY <1>3, <3>1
    <3>3. QED BY <1>5, <3>2
  <2>2. QED BY <2>1
<1>7. \A x, y \in S : f[x] = f[y] => x = y
  BY <1>5, <1>6
<1>8. \A x \in S : f[x] \notin R
  BY <1>4, <1>5, <1>6
<1>9. \A z \in T : z \in R \/ \E x \in S : f[x] = z
  <2> SUFFICES ASSUME NEW z \in T, z # 1 PROVE \E x \in S : f[x] = z
    BY <1>4
  <2>1. z \in 1..(k + 1) /\ b[z] \in C
    BY <1>5
  <2>2. z - 1 \in 1..k /\ (z - 1) + 1 = z
    BY <2>1
  <2>3. a[z - 1] \in C
    BY <1>3, <2>1, <2>2
  <2>4. z - 1 \in S
    BY <1>5, <2>2, <2>3
  <2>5. QED BY <1>6, <2>2, <2>4
<1>10. R \subseteq {1} /\ R \subseteq T
  BY <1>4
<1>11. IsFiniteSet(R) /\ Cardinality(R) = Has(R, 1)
  BY <1>10, PartOfOne
<1>12. 1 \in R <=> n \in C
  BY <1>3, <1>4, <1>5
<1>13. IsFiniteSet(S)
  BY <1>4, HitsFinite
<1>14. Cardinality(T) = Cardinality(S) + Cardinality(R)
  <2>1. R \subseteq T /\ IsFiniteSet(R)
    BY <1>10, <1>11
  <2>2. QED BY <1>7, <1>8, <1>9, <1>13, <2>1, PartAndImage
<1>15. QED
  BY <1>2, <1>4, <1>11, <1>12, <1>14 DEF Has

(* The chain that loses a node.                                            *)
LEMMA HitsOfRemoved ==
  ASSUME NEW a \in Seq(HashTableNode), NEW j \in 1..Len(a), NEW C
  PROVE  Cardinality(Hits(a, C)) = Cardinality(Hits(RemoveAt(a, j), C)) + Has(C, a[j])
<1>1. PICK k \in Nat : k = Len(a) /\ j \in 1..k
  OBVIOUS
<1>2. PICK b \in Seq(HashTableNode) : b = RemoveAt(a, j)
  BY RemoveAtChain
<1>3. /\ Len(b) = k - 1
      /\ \A i \in 1..(k - 1) : b[i] = a[IF i < j THEN i ELSE i + 1]
  <2>1. PICK before, after : before = SubSeq(a, 1, j - 1) /\ after = SubSeq(a, j + 1, Len(a))
    OBVIOUS
  <2>2. /\ before \in Seq(HashTableNode) /\ Len(before) = j - 1
        /\ \A i \in 1..(j - 1) : before[i] = a[i]
    BY <1>1, <2>1
  <2>3. /\ after \in Seq(HashTableNode) /\ Len(after) = k - j
        /\ \A i \in 1..(k - j) : after[i] = a[j + i]
    BY <1>1, <2>1
  <2>4. b = before \o after
    BY <1>2, <2>1, Zenon DEF RemoveAt
  <2>5. /\ Len(before \o after) = (j - 1) + (k - j)
        /\ \A i \in 1..((j - 1) + (k - j)) :
             (before \o after)[i] = IF i <= j - 1 THEN before[i] ELSE after[i - (j - 1)]
    <3>1. /\ Len(before \o after) = Len(before) + Len(after)
          /\ \A i \in 1..(Len(before) + Len(after)) :
               (before \o after)[i] = IF i <= Len(before) THEN before[i]
                                      ELSE after[i - Len(before)]
      BY <2>2, <2>3, ConcatProperties
    <3>2. QED BY <2>2, <2>3, <3>1
  <2>6. (j - 1) + (k - j) = k - 1
    BY <1>1
  <2>7. ASSUME NEW i \in 1..(k - 1), i < j PROVE b[i] = a[i]
    <3>1. i <= j - 1 /\ i \in 1..(j - 1)
      BY <1>1, <2>7
    <3>2. QED BY <2>2, <2>4, <2>5, <2>6, <3>1
  <2>8. ASSUME NEW i \in 1..(k - 1), ~(i < j) PROVE b[i] = a[i + 1]
    <3>1. ~(i <= j - 1) /\ i - (j - 1) \in 1..(k - j) /\ j + (i - (j - 1)) = i + 1
      BY <1>1, <2>8
    <3>2. b[i] = after[i - (j - 1)]
      BY <2>4, <2>5, <2>6, <3>1
    <3>3. after[i - (j - 1)] = a[i + 1]
      BY <2>3, <3>1
    <3>4. QED BY <3>2, <3>3
  <2>9. QED BY <2>4, <2>5, <2>6, <2>7, <2>8
<1>4. PICK S, T, R : S = Hits(b, C) /\ T = Hits(a, C) /\ R = {j} \cap T
  OBVIOUS
<1>5. /\ \A i : i \in T <=> i \in 1..k /\ a[i] \in C
      /\ \A i : i \in S <=> i \in 1..(k - 1) /\ b[i] \in C
  BY <1>1, <1>3, <1>4 DEF Hits
<1>6. PICK f \in [S -> T] : f = [i \in S |-> IF i < j THEN i ELSE i + 1]
  <2>1. ASSUME NEW i \in S PROVE (IF i < j THEN i ELSE i + 1) \in T
    <3>1. i \in 1..(k - 1) /\ b[i] \in C
      BY <1>5
    <3>2. i \in 1..k /\ i + 1 \in 1..k
      BY <1>1, <3>1
    <3>3. a[IF i < j THEN i ELSE i + 1] \in C
      BY <1>3, <3>1
    <3>4. QED BY <1>5, <3>2, <3>3
  <2>2. QED BY <2>1
<1>7. \A x \in S : x \in Int
  BY <1>5
<1>8. \A x, y \in S : f[x] = f[y] => x = y
  BY <1>1, <1>6, <1>7
<1>9. \A x \in S : f[x] \notin R
  BY <1>1, <1>4, <1>6, <1>7
<1>10. \A z \in T : z \in R \/ \E x \in S : f[x] = z
  <2> SUFFICES ASSUME NEW z \in T, z # j PROVE \E x \in S : f[x] = z
    BY <1>4
  <2>1. z \in 1..k /\ a[z] \in C
    BY <1>5
  <2>2. CASE z < j
    <3>1. z \in 1..(k - 1)
      BY <1>1, <2>1, <2>2
    <3>2. z \in S
      BY <1>3, <1>5, <2>1, <2>2, <3>1
    <3>3. QED BY <1>6, <2>2, <3>2
  <2>3. CASE ~(z < j)
    <3>1. z - 1 \in 1..(k - 1) /\ ~(z - 1 < j) /\ (z - 1) + 1 = z
      BY <1>1, <2>1, <2>3
    <3>2. b[z - 1] = a[z]
      BY <1>3, <3>1
    <3>3. z - 1 \in S
      BY <1>5, <2>1, <3>1, <3>2
    <3>4. QED BY <1>6, <3>1, <3>3
  <2>4. QED BY <2>2, <2>3
<1>11. R \subseteq {j} /\ R \subseteq T
  BY <1>4
<1>12. IsFiniteSet(R) /\ Cardinality(R) = Has(R, j)
  BY <1>11, PartOfOne
<1>13. j \in R <=> a[j] \in C
  BY <1>1, <1>4, <1>5
<1>14. IsFiniteSet(S)
  BY <1>4, HitsFinite
<1>15. Cardinality(T) = Cardinality(S) + Cardinality(R)
  BY <1>8, <1>9, <1>10, <1>11, <1>12, <1>14, PartAndImage
<1>16. QED
  BY <1>2, <1>4, <1>12, <1>13, <1>15 DEF Has

(* The chain that has one of its nodes changed.                            *)
LEMMA HitsOfChanged ==
  ASSUME NEW a \in Seq(HashTableNode), NEW j \in 1..Len(a), NEW C,
         NEW n \in HashTableNode
  PROVE  /\ [a EXCEPT ![j] = n] \in Seq(HashTableNode)
         /\ Cardinality(Hits([a EXCEPT ![j] = n], C)) + Has(C, a[j])
              = Cardinality(Hits(a, C)) + Has(C, n)
<1>1. PICK k \in Nat : k = Len(a) /\ j \in 1..k
  OBVIOUS
<1>2. PICK b : b = [a EXCEPT ![j] = n]
  OBVIOUS
<1>3. b \in Seq(HashTableNode) /\ Len(b) = k /\ b[j] = n
      /\ \A i \in 1..k : i # j => b[i] = a[i]
  BY <1>1, <1>2
<1>4. PICK S, T : S = Hits(a, C) /\ T = Hits(b, C)
  OBVIOUS
<1>5. /\ \A i : i \in S <=> i \in 1..k /\ a[i] \in C
      /\ \A i : i \in T <=> i \in 1..k /\ b[i] \in C
  BY <1>1, <1>3, <1>4 DEF Hits
<1>6. S \ {j} = T \ {j}
  BY <1>3, <1>5
<1>7. IsFiniteSet(S) /\ IsFiniteSet(T)
  BY <1>3, <1>4, HitsFinite
<1>8. ASSUME NEW U, IsFiniteSet(U)
      PROVE  Cardinality(U) = Cardinality(U \ {j}) + Has(U, j)
  <2>1. CASE j \in U
    <3>1. Cardinality(U \ {j}) = Cardinality(U) - 1
      BY <1>8, <2>1, FS_RemoveElement
    <3>2. Cardinality(U) \in Nat
      BY <1>8, FS_CardinalityType
    <3>3. Has(U, j) = 1
      BY <2>1 DEF Has
    <3>4. QED BY <3>1, <3>2, <3>3
  <2>2. CASE j \notin U
    <3>1. Cardinality(U \ {j}) = Cardinality(U)
      <4>1. U \ {j} = U
        BY <2>2
      <4>2. QED BY <4>1, Zenon
    <3>2. Cardinality(U) \in Nat
      BY <1>8, FS_CardinalityType
    <3>3. Has(U, j) = 0
      BY <2>2 DEF Has
    <3>4. QED BY <3>1, <3>2, <3>3
  <2>3. QED BY <2>1, <2>2
<1>9. Has(S, j) = Has(C, a[j]) /\ Has(T, j) = Has(C, n)
  <2>1. (j \in S <=> a[j] \in C) /\ (j \in T <=> n \in C)
    BY <1>1, <1>3, <1>5
  <2>2. QED BY <2>1 DEF Has
<1>a. Has(C, a[j]) \in Nat /\ Has(C, n) \in Nat
  BY DEF Has
<1>10. Cardinality(S \ {j}) \in Nat
  BY <1>7, FS_Difference, FS_CardinalityType
<1>11. /\ Cardinality(S) = Cardinality(S \ {j}) + Has(S, j)
       /\ Cardinality(T) = Cardinality(T \ {j}) + Has(T, j)
  BY <1>7, <1>8
<1>12. Cardinality(T) + Has(C, a[j]) = Cardinality(S) + Has(C, n)
  <2>1. PICK x \in Nat, y \in Nat, z \in Nat :
          x = Cardinality(S \ {j}) /\ y = Has(C, a[j]) /\ z = Has(C, n)
    BY <1>a, <1>10
  <2>2. Cardinality(S) = x + y
    BY <1>9, <1>11, <2>1
  <2>3. Cardinality(T) = x + z
    BY <1>6, <1>9, <1>11, <2>1
  <2>4. QED BY <2>1, <2>2, <2>3
<1>13. QED
  BY <1>2, <1>3, <1>4, <1>12

(* The places of a table that have one.                                    *)
NodesIn(T, C) == {p \in Places(T) : T.slot[p[1]][p[2]] \in C}

LEMMA NodesOfTable ==
  ASSUME NEW T, IsHashTable(T), NEW C
  PROVE  /\ \A p : p \in NodesIn(T, C) <=>
              \E i \in 0..(T.size - 1) : \E j \in Hits(T.slot[i], C) : p = <<i, j>>
         /\ IsFiniteSet(NodesIn(T, C))
         /\ Cardinality(NodesIn(T, C)) \in Nat
<1>1. \A p : p \in Places(T) <=>
        \E i \in 0..(T.size - 1) : \E j \in 1..Len(T.slot[i]) : p = <<i, j>>
  BY PlacesOfTable
<1>2. ASSUME NEW p \in NodesIn(T, C)
      PROVE  \E i \in 0..(T.size - 1) : \E j \in Hits(T.slot[i], C) : p = <<i, j>>
  <2>1. p \in Places(T) /\ T.slot[p[1]][p[2]] \in C
    BY DEF NodesIn
  <2>2. PICK i \in 0..(T.size - 1) : \E j \in 1..Len(T.slot[i]) : p = <<i, j>>
    BY <1>1, <2>1
  <2>3. PICK j \in 1..Len(T.slot[i]) : p = <<i, j>>
    BY <2>2
  <2>4. j \in Hits(T.slot[i], C)
    BY <2>1, <2>3 DEF Hits
  <2>5. QED BY <2>3, <2>4
<1>3. ASSUME NEW i \in 0..(T.size - 1), NEW j \in Hits(T.slot[i], C)
      PROVE  <<i, j>> \in NodesIn(T, C)
  <2>1. j \in 1..Len(T.slot[i]) /\ T.slot[i][j] \in C
    BY DEF Hits
  <2>2. <<i, j>> \in Places(T)
    BY <1>1, <2>1
  <2>3. QED BY <2>1, <2>2 DEF NodesIn
<1>4. IsFiniteSet(Places(T))
  BY PlacesFinite
<1>5. NodesIn(T, C) \in SUBSET Places(T)
  BY DEF NodesIn
<1>6. IsFiniteSet(NodesIn(T, C))
  BY <1>4, <1>5, FS_Subset
<1>7. Cardinality(NodesIn(T, C)) \in Nat
  BY <1>6, FS_CardinalityType
<1>8. QED BY <1>2, <1>3, <1>6, <1>7

LEMMA NodesOfEmpty ==
  ASSUME NEW n \in TableSizes \cup {0}, NEW C
  PROVE  Cardinality(NodesIn(EmptyTable(n), C)) = 0
<1>1. PICK T : T = EmptyTable(n)
  OBVIOUS
<1>2. n \in Nat
  BY SizesAssumption
<1>3. IsHashTable(T) /\ T.size = n
  BY <1>1, EmptyTableCounted DEF IsCountedTable
<1>4. \A i \in 0..(n - 1) : T.slot[i] = <<>>
  BY <1>1, <1>2 DEF EmptyTable
<1>5. \A p : p \notin NodesIn(T, C)
  BY <1>3, <1>4, NodesOfTable DEF Hits
<1>6. QED BY <1>1, <1>5, FS_EmptySet

(* A table whose counter is 0 has no node at all.                          *)
LEMMA NodesOfUncounted ==
  ASSUME NEW T, IsCountedTable(T), T.count = 0, NEW C
  PROVE  Cardinality(NodesIn(T, C)) = 0
<1>1. IsFiniteSet(Places(T)) /\ Cardinality(Places(T)) = 0
  BY PlacesFinite DEF IsCountedTable, CountsMatch
<1>2. Places(T) = {}
  BY <1>1, FS_EmptySet
<1>3. NodesIn(T, C) = {}
  BY <1>2 DEF NodesIn
<1>4. QED BY <1>3, FS_EmptySet

(* The change of one chain: what the chain has more, the table has more.   *)
LEMMA NodesOfOneSlot ==
  ASSUME NEW T, IsHashTable(T), NEW i \in 0..(T.size - 1), NEW C
  PROVE  LET rest == {p \in NodesIn(T, C) : p[1] # i} IN
         /\ IsFiniteSet(rest) /\ Cardinality(rest) \in Nat
         /\ Cardinality(NodesIn(T, C)) =
              Cardinality(Hits(T.slot[i], C)) + Cardinality(rest)
<1>1. PICK N, R, S : /\ N = NodesIn(T, C) /\ S = Hits(T.slot[i], C)
                     /\ R = {p \in NodesIn(T, C) : p[1] # i}
  OBVIOUS
<1>2. /\ \A p : p \in N <=>
           \E h \in 0..(T.size - 1) : \E j \in Hits(T.slot[h], C) : p = <<h, j>>
      /\ IsFiniteSet(N)
  BY <1>1, NodesOfTable
<1>3. R \in SUBSET N /\ R \subseteq N
  BY <1>1
<1>4. IsFiniteSet(R) /\ Cardinality(R) \in Nat
  BY <1>2, <1>3, FS_Subset, FS_CardinalityType
<1>5. T.slot[i] \in Seq(HashTableNode)
  BY DEF IsHashTable
<1>6. IsFiniteSet(S)
  BY <1>1, <1>5, HitsFinite
<1>7. PICK f \in [S -> N] : f = [j \in S |-> <<i, j>>]
  BY <1>1, <1>2
<1>8. \A x, y \in S : f[x] = f[y] => x = y
  BY <1>7
<1>9. \A x \in S : f[x] \notin R
  BY <1>1, <1>7
<1>10. \A z \in N : z \in R \/ \E x \in S : f[x] = z
  <2> SUFFICES ASSUME NEW z \in N, z \notin R PROVE \E x \in S : f[x] = z
    OBVIOUS
  <2>1. z[1] = i
    BY <1>1
  <2>2. PICK h \in 0..(T.size - 1) : \E j \in Hits(T.slot[h], C) : z = <<h, j>>
    BY <1>2
  <2>3. PICK j \in Hits(T.slot[h], C) : z = <<h, j>>
    BY <2>2
  <2>4. h = i
    BY <2>1, <2>3
  <2>5. j \in S
    BY <1>1, <2>3, <2>4
  <2>6. QED BY <1>7, <2>3, <2>4, <2>5
<1>11. Cardinality(N) = Cardinality(S) + Cardinality(R)
  BY <1>3, <1>4, <1>6, <1>8, <1>9, <1>10, PartAndImage
<1>12. QED
  BY <1>1, <1>4, <1>11

LEMMA NodesOfSetChain ==
  ASSUME NEW T, IsHashTable(T), NEW i \in 0..(T.size - 1),
         NEW chain \in Seq(HashTableNode), NEW count \in Nat, NEW C
  PROVE  LET new == SetChain(T, i, chain, count) IN
         Cardinality(NodesIn(new, C)) + Cardinality(Hits(T.slot[i], C)) =
           Cardinality(NodesIn(T, C)) + Cardinality(Hits(chain, C))
<1>1. PICK new : new = SetChain(T, i, chain, count)
  OBVIOUS
<1>2. /\ IsHashTable(new) /\ new.size = T.size /\ new.slot[i] = chain
      /\ \A h \in 0..(T.size - 1) : h # i => new.slot[h] = T.slot[h]
  BY <1>1, SetChainType
<1>3. PICK R, U : /\ R = {p \in NodesIn(T, C) : p[1] # i}
                  /\ U = {p \in NodesIn(new, C) : p[1] # i}
  OBVIOUS
<1>4. /\ Cardinality(R) \in Nat
      /\ Cardinality(NodesIn(T, C)) = Cardinality(Hits(T.slot[i], C)) + Cardinality(R)
  BY <1>3, NodesOfOneSlot
<1>5. Cardinality(NodesIn(new, C)) = Cardinality(Hits(chain, C)) + Cardinality(U)
  <2>1. i \in 0..(new.size - 1)
    BY <1>2
  <2>2. Cardinality(NodesIn(new, C)) = Cardinality(Hits(new.slot[i], C)) + Cardinality(U)
    <3>1. IsHashTable(new)
      BY <1>2
    <3>2. Cardinality(NodesIn(new, C)) = Cardinality(Hits(new.slot[i], C))
            + Cardinality({p \in NodesIn(new, C) : p[1] # i})
      BY <2>1, <3>1, NodesOfOneSlot
    <3>3. QED BY <1>3, <3>2
  <2>3. QED BY <1>2, <2>2
<1>6. R = U
  <2>1. \A p : p \in NodesIn(T, C) <=>
          \E h \in 0..(T.size - 1) : \E j \in Hits(T.slot[h], C) : p = <<h, j>>
    BY NodesOfTable
  <2>2. \A p : p \in NodesIn(new, C) <=>
          \E h \in 0..(T.size - 1) : \E j \in Hits(new.slot[h], C) : p = <<h, j>>
    <3>1. \A p : p \in NodesIn(new, C) <=>
            \E h \in 0..(new.size - 1) : \E j \in Hits(new.slot[h], C) : p = <<h, j>>
      BY <1>2, NodesOfTable
    <3>2. QED BY <1>2, <3>1
  <2>3. ASSUME NEW p, p[1] # i PROVE p \in NodesIn(T, C) <=> p \in NodesIn(new, C)
    <3>1. ASSUME NEW h \in 0..(T.size - 1), NEW j, p = <<h, j>>
          PROVE  Hits(T.slot[h], C) = Hits(new.slot[h], C)
      <4>1. h # i
        BY <2>3, <3>1
      <4>2. QED BY <1>2, <4>1
    <3>2. QED BY <2>1, <2>2, <3>1
  <2>4. QED BY <1>3, <2>3
<1>7. Cardinality(Hits(T.slot[i], C)) \in Nat /\ Cardinality(Hits(chain, C)) \in Nat
  <2>1. T.slot[i] \in Seq(HashTableNode)
    BY DEF IsHashTable
  <2>2. QED BY <2>1, HitsFinite
<1>8. QED
  BY <1>1, <1>4, <1>5, <1>6, <1>7

(* What the three changes of a table do to the nodes of C.                 *)
LEMMA NodesOfLink ==
  ASSUME NEW T, IsHashTable(T), NEW i \in 0..(T.size - 1),
         NEW node \in HashTableNode, NEW C
  PROVE  Cardinality(NodesIn(Link(T, i, node), C)) =
           Cardinality(NodesIn(T, C)) + Has(C, node)
<1>1. T.slot[i] \in Seq(HashTableNode) /\ T.count + 1 \in Nat
  <2>1. T.slot[i] \in Seq(HashTableNode) /\ T.count \in Nat
    BY DEF IsHashTable
  <2>2. QED BY <2>1
<1>2. PICK chain \in Seq(HashTableNode) : chain = <<node>> \o T.slot[i]
  BY <1>1, LinkChain
<1>3. Link(T, i, node) = SetChain(T, i, chain, T.count + 1)
  BY <1>2 DEF Link, SetChain
<1>4. Cardinality(NodesIn(SetChain(T, i, chain, T.count + 1), C))
          + Cardinality(Hits(T.slot[i], C)) =
        Cardinality(NodesIn(T, C)) + Cardinality(Hits(chain, C))
  BY <1>1, NodesOfSetChain
<1>5. Cardinality(Hits(chain, C)) = Cardinality(Hits(T.slot[i], C)) + Has(C, node)
  BY <1>1, <1>2, HitsOfLinked
<1>6. IsHashTable(SetChain(T, i, chain, T.count + 1))
  BY <1>1, SetChainType
<1>7. /\ Cardinality(NodesIn(T, C)) \in Nat /\ Cardinality(Hits(T.slot[i], C)) \in Nat
      /\ Cardinality(NodesIn(SetChain(T, i, chain, T.count + 1), C)) \in Nat
  BY <1>1, <1>6, NodesOfTable, HitsFinite
<1>8. Has(C, node) \in Nat
  BY DEF Has
<1>9. QED
  BY <1>3, <1>4, <1>5, <1>7, <1>8

LEMMA NodesOfUnlink ==
  ASSUME NEW T, IsCountedTable(T), NEW i \in 0..(T.size - 1),
         NEW j \in 1..Len(T.slot[i]), NEW C
  PROVE  Cardinality(NodesIn(T, C)) =
           Cardinality(NodesIn(Unlink(T, i, j), C)) + Has(C, T.slot[i][j])
<1>1. T.slot[i] \in Seq(HashTableNode) /\ T.count \in Nat /\ IsHashTable(T)
  BY DEF IsHashTable, IsCountedTable
<1>2. PICK chain \in Seq(HashTableNode) :
        chain = RemoveAt(T.slot[i], j) /\ Len(T.slot[i]) = Len(chain) + 1
  BY <1>1, RemoveAtChain
<1>3. Unlink(T, i, j) = SetChain(T, i, chain, T.count - 1)
  BY <1>2 DEF Unlink, SetChain
<1>4. T.count - 1 \in Nat
  <2>1. T.count > 0
    BY <1>2, ShorterChain
  <2>2. QED BY <1>1, <2>1
<1>5. Cardinality(NodesIn(SetChain(T, i, chain, T.count - 1), C))
          + Cardinality(Hits(T.slot[i], C)) =
        Cardinality(NodesIn(T, C)) + Cardinality(Hits(chain, C))
  BY <1>1, <1>4, NodesOfSetChain
<1>6. Cardinality(Hits(T.slot[i], C)) =
        Cardinality(Hits(chain, C)) + Has(C, T.slot[i][j])
  BY <1>1, <1>2, HitsOfRemoved
<1>7. IsHashTable(SetChain(T, i, chain, T.count - 1))
  BY <1>1, <1>4, SetChainType
<1>8. /\ Cardinality(NodesIn(T, C)) \in Nat /\ Cardinality(Hits(chain, C)) \in Nat
      /\ Cardinality(NodesIn(SetChain(T, i, chain, T.count - 1), C)) \in Nat
  BY <1>1, <1>7, NodesOfTable, HitsFinite
<1>9. Has(C, T.slot[i][j]) \in Nat
  BY DEF Has
<1>10. QED
  BY <1>3, <1>5, <1>6, <1>8, <1>9

(* The node of a place, and what it is with another value.                 *)
GetsValue(T, i, j, v, old, new) ==
  old = T.slot[i][j] /\ new = [key |-> old.key, value |-> v]

LEMMA NodesOfSetValue ==
  ASSUME NEW T, IsHashTable(T), NEW i \in 0..(T.size - 1),
         NEW j \in 1..Len(T.slot[i]), NEW v \in Value, NEW C,
         NEW old, NEW new, GetsValue(T, i, j, v, old, new)
  PROVE  Cardinality(NodesIn(SetValue(T, i, j, v), C)) =
           Cardinality(NodesIn(T, C)) + (Has(C, new) - Has(C, old))
<1>1. /\ T.slot[i] \in Seq(HashTableNode) /\ T.count \in Nat
      /\ T = [slot |-> T.slot, size |-> T.size, count |-> T.count]
      /\ T.slot \in [0..(T.size - 1) -> Seq(HashTableNode)]
  BY DEF IsHashTable
<1>a. old = T.slot[i][j] /\ new = [key |-> old.key, value |-> v]
  BY DEF GetsValue
<1>2. old \in HashTableNode
  BY <1>1, <1>a
<1>3. new \in HashTableNode /\ new = [old EXCEPT !.value = v]
  <2>1. old = [key |-> old.key, value |-> old.value] /\ old.key \in Key
    BY <1>2 DEF HashTableNode
  <2>2. [old EXCEPT !.value = v] = [key |-> old.key, value |-> v]
    BY <2>1
  <2>3. [key |-> old.key, value |-> v] \in HashTableNode
    BY <1>2, <2>1 DEF HashTableNode
  <2>4. QED BY <1>a, <2>2, <2>3
<1>4. PICK chain \in Seq(HashTableNode) : chain = [T.slot[i] EXCEPT ![j] = new]
  BY <1>1, <1>3, HitsOfChanged
<1>5. SetValue(T, i, j, v) = SetChain(T, i, chain, T.count)
  <2>1. [T.slot[i] EXCEPT ![j].value = v] = chain
    BY <1>1, <1>a, <1>2, <1>3, <1>4
  <2>2. SetValue(T, i, j, v) = [T EXCEPT !.slot[i] = chain]
    BY <2>1 DEF SetValue
  <2>3. QED BY <1>1, <2>2 DEF SetChain
<1>6. Cardinality(NodesIn(SetChain(T, i, chain, T.count), C))
          + Cardinality(Hits(T.slot[i], C)) =
        Cardinality(NodesIn(T, C)) + Cardinality(Hits(chain, C))
  BY <1>1, NodesOfSetChain
<1>7. Cardinality(Hits(chain, C)) + Has(C, old) =
        Cardinality(Hits(T.slot[i], C)) + Has(C, new)
  <2>1. PICK a \in Seq(HashTableNode) : a = T.slot[i] /\ j \in 1..Len(a)
    BY <1>1
  <2>2. Cardinality(Hits([a EXCEPT ![j] = new], C)) + Has(C, a[j]) =
          Cardinality(Hits(a, C)) + Has(C, new)
    BY <1>3, <2>1, HitsOfChanged
  <2>3. QED BY <1>a, <1>4, <2>1, <2>2
<1>8. IsHashTable(SetChain(T, i, chain, T.count))
  BY <1>1, SetChainType
<1>9. /\ Cardinality(NodesIn(T, C)) \in Nat /\ Cardinality(Hits(chain, C)) \in Nat
      /\ Cardinality(Hits(T.slot[i], C)) \in Nat
      /\ Cardinality(NodesIn(SetChain(T, i, chain, T.count), C)) \in Nat
  BY <1>1, <1>8, NodesOfTable, HitsFinite
<1>10. Has(C, old) \in Nat /\ Has(C, new) \in Nat
  BY DEF Has
<1>11. Cardinality(NodesIn(SetChain(T, i, chain, T.count), C)) =
         Cardinality(NodesIn(T, C)) + (Has(C, new) - Has(C, old))
  <2>1. PICK a \in Nat, b \in Nat, x \in Nat, y \in Nat :
          /\ a = Cardinality(NodesIn(SetChain(T, i, chain, T.count), C))
          /\ b = Cardinality(NodesIn(T, C))
          /\ x = Cardinality(Hits(T.slot[i], C)) /\ y = Cardinality(Hits(chain, C))
    BY <1>9
  <2>2. a + x = b + y
    BY <1>6, <2>1
  <2>3. y + Has(C, old) = x + Has(C, new)
    BY <1>7, <2>1
  <2>4. a = b + (Has(C, new) - Has(C, old))
    BY <1>10, <2>2, <2>3
  <2>5. QED BY <2>1, <2>4
<1>12. QED
  BY <1>2, <1>3, <1>5, <1>11

(* Where the nodes of a poured chain come from: the places of the chain    *)
(* that was moved, backwards, and after them those of the one it met.      *)
LEMMA HitsOfPour ==
  ASSUME NEW a \in Seq(HashTableNode), NEW b \in Seq(HashTableNode), NEW C
  PROVE  \A x \in Int : x \in Hits(Pour(a, b), C) <=>
           x - Len(a) \in Hits(b, C) \/ (Len(a) - x) + 1 \in Hits(a, C)
<1>1. PICK k \in Nat, m \in Nat : k = Len(a) /\ m = Len(b)
  OBVIOUS
<1>2. Reverse(a) \in Seq(HashTableNode) /\ Len(Reverse(a)) = k
  BY <1>1 DEF Reverse
<1>3. PICK r \in Seq(HashTableNode) : r = Reverse(a) /\ Len(r) = k
  BY <1>2
<1>4. \A i \in 1..k : r[i] = a[(k - i) + 1]
  BY <1>1, <1>3 DEF Reverse
<1>5. PICK c : c = Pour(a, b)
  OBVIOUS
<1>6. /\ Len(c) = k + m
      /\ \A i \in 1..(k + m) : c[i] = IF i <= k THEN r[i] ELSE b[i - k]
  <2>1. c = r \o b
    BY <1>3, <1>5 DEF Pour
  <2>2. /\ Len(r \o b) = Len(r) + Len(b)
        /\ \A i \in 1..(Len(r) + Len(b)) :
             (r \o b)[i] = IF i <= Len(r) THEN r[i] ELSE b[i - Len(r)]
    BY ConcatProperties
  <2>3. QED BY <1>1, <1>3, <2>1, <2>2
<1>7. PICK S, T, U : S = Hits(c, C) /\ T = Hits(a, C) /\ U = Hits(b, C)
  OBVIOUS
<1>8. /\ \A i : i \in S <=> i \in 1..(k + m) /\ c[i] \in C
      /\ \A i : i \in T <=> i \in 1..k /\ a[i] \in C
      /\ \A i : i \in U <=> i \in 1..m /\ b[i] \in C
  BY <1>1, <1>6, <1>7 DEF Hits
<1>9. ASSUME NEW x \in Int
      PROVE  x \in S <=> x - k \in U \/ (k - x) + 1 \in T
  <2>1. CASE x \in 1..k
    <3>1. x \in 1..(k + m) /\ c[x] = a[(k - x) + 1]
      <4>1. x \in 1..(k + m) /\ x <= k
        BY <2>1
      <4>2. c[x] = r[x]
        BY <1>6, <4>1
      <4>3. r[x] = a[(k - x) + 1]
        BY <1>4, <2>1
      <4>4. QED BY <4>1, <4>2, <4>3
    <3>2. x - k \notin 1..m /\ (k - x) + 1 \in 1..k
      <4>1. k \in Int /\ x \in Int /\ 1 <= x /\ x <= k
        BY <2>1
      <4>2. ~(1 <= x - k) /\ (k - x) + 1 \in Int /\ 1 <= (k - x) + 1 /\ (k - x) + 1 <= k
        BY <4>1
      <4>3. QED BY <4>1, <4>2
    <3>3. QED BY <1>8, <3>1, <3>2
  <2>2. CASE x \in (k + 1)..(k + m)
    <3>1. x \in 1..(k + m) /\ c[x] = b[x - k]
      BY <1>6, <2>2
    <3>2. x - k \in 1..m /\ (k - x) + 1 \notin 1..k
      BY <2>2
    <3>3. QED BY <1>8, <3>1, <3>2
  <2>3. CASE x \notin 1..k /\ x \notin (k + 1)..(k + m)
    <3>1. x \notin 1..(k + m) /\ x - k \notin 1..m /\ (k - x) + 1 \notin 1..k
      BY <2>3
    <3>2. QED BY <1>8, <3>1
  <2>4. QED BY <2>1, <2>2, <2>3
<1>10. QED
  BY <1>1, <1>5, <1>7, <1>9

LEMMA NodesOfMoved ==
  ASSUME NEW d, IsSound(d), IsRehashing(d),
         NEW j \in d.rehash_index..d.table[0].size,
         \A i \in FilledSlots(d, j) : i < d.table[1].size,
         NEW C
  PROVE  Cardinality(NodesIn(LeftTable(d, j), C))
             + Cardinality(NodesIn(GainedTable(d, j), C)) =
           Cardinality(NodesIn(d.table[0], C)) + Cardinality(NodesIn(d.table[1], C))
<1>1. PICK first, second, left, gained, visited, filled :
        /\ first = d.table[0] /\ second = d.table[1]
        /\ left = LeftTable(d, j) /\ gained = GainedTable(d, j)
        /\ visited = VisitedSlots(d, j) /\ filled = FilledSlots(d, j)
  OBVIOUS
<1>2. /\ IsHashTable(first) /\ IsHashTable(second)
      /\ first.size \in Nat /\ second.size \in Nat
      /\ d.rehash_index \in Nat /\ j \in Nat /\ j <= first.size
  BY <1>1, SoundTables DEF IsRehashing
<1>3. /\ IsHashTable(left) /\ left.size = first.size
      /\ IsHashTable(gained) /\ gained.size = second.size
  BY <1>1, LeftTableCounted, GainedTableCounted DEF IsCountedTable
<1>4. /\ first.slot \in [0..(first.size - 1) -> Seq(HashTableNode)]
      /\ second.slot \in [0..(second.size - 1) -> Seq(HashTableNode)]
  BY <1>2 DEF IsHashTable
<1>5. \A i \in 0..(first.size - 1) :
        left.slot[i] = IF i \in visited THEN <<>> ELSE first.slot[i]
  BY <1>1, <1>4 DEF LeftTable
<1>6. \A i \in 0..(second.size - 1) :
        gained.slot[i] = IF i \in filled THEN Pour(first.slot[i], second.slot[i])
                         ELSE second.slot[i]
  BY <1>1, <1>4 DEF GainedTable
<1>7. /\ filled \subseteq 0..(first.size - 1) /\ filled \subseteq 0..(second.size - 1)
      /\ \A i \in 0..(first.size - 1) :
           i \in visited => i \in filled \/ first.slot[i] = <<>>
      /\ filled \subseteq visited
  BY <1>1, <1>2 DEF FilledSlots, VisitedSlots
<1>8. PICK N1, N2, NL, NG, M :
        /\ N1 = NodesIn(first, C) /\ N2 = NodesIn(second, C)
        /\ NL = NodesIn(left, C) /\ NG = NodesIn(gained, C)
        /\ M = {p \in N1 : p[1] \in visited}
  OBVIOUS
<1>9. /\ IsFiniteSet(N1) /\ IsFiniteSet(N2) /\ IsFiniteSet(NL) /\ IsFiniteSet(NG)
      /\ Cardinality(N1) \in Nat /\ Cardinality(N2) \in Nat
      /\ Cardinality(NL) \in Nat /\ Cardinality(NG) \in Nat
  BY <1>2, <1>3, <1>8, NodesOfTable
<1>10. /\ \A p : p \in N1 <=>
            \E i \in 0..(first.size - 1) : \E x \in Hits(first.slot[i], C) : p = <<i, x>>
       /\ \A p : p \in N2 <=>
            \E i \in 0..(second.size - 1) : \E x \in Hits(second.slot[i], C) : p = <<i, x>>
  BY <1>2, <1>8, NodesOfTable
<1>11. \A p : p \in NL <=>
         \E i \in 0..(first.size - 1) : \E x \in Hits(left.slot[i], C) : p = <<i, x>>
  <2>1. \A p : p \in NL <=>
          \E i \in 0..(left.size - 1) : \E x \in Hits(left.slot[i], C) : p = <<i, x>>
    BY <1>3, <1>8, NodesOfTable
  <2>2. QED BY <1>3, <2>1
<1>12. \A p : p \in NG <=>
         \E i \in 0..(second.size - 1) : \E x \in Hits(gained.slot[i], C) : p = <<i, x>>
  <2>1. \A p : p \in NG <=>
          \E i \in 0..(gained.size - 1) : \E x \in Hits(gained.slot[i], C) : p = <<i, x>>
    BY <1>3, <1>8, NodesOfTable
  <2>2. QED BY <1>3, <2>1
<1>13. NL = N1 \ M
  <2>1. Hits(<<>>, C) = {}
    BY DEF Hits
  <2>2. ASSUME NEW i \in 0..(first.size - 1), NEW x
        PROVE  x \in Hits(left.slot[i], C) <=>
                 x \in Hits(first.slot[i], C) /\ i \notin visited
    BY <1>5, <2>1
  <2>3. ASSUME NEW p PROVE p \in NL <=> p \in N1 /\ p \notin M
    <3>1. ASSUME NEW i, NEW x, p = <<i, x>> PROVE p[1] = i
      BY <3>1
    <3>2. ASSUME p \in NL PROVE p \in N1 /\ p[1] \notin visited
      BY <1>10, <1>11, <2>2, <3>2
    <3>3. ASSUME p \in N1, p[1] \notin visited PROVE p \in NL
      BY <1>10, <1>11, <2>2, <3>3
    <3>4. QED BY <1>8, <3>2, <3>3
  <2>4. QED BY <2>3
<1>14. /\ IsFiniteSet(M) /\ Cardinality(M) \in Nat
       /\ Cardinality(NL) = Cardinality(N1) - Cardinality(M)
  <2>1. M \in SUBSET N1
    BY <1>8
  <2>2. QED BY <1>9, <1>13, <2>1, FS_Subset, FS_CardinalityType, CardinalityOfRest
<1>15. PICK shift : shift = [i \in 0..(second.size - 1) |->
                               IF i \in filled THEN Len(first.slot[i]) ELSE 0]
  OBVIOUS
<1>16. ASSUME NEW i \in 0..(second.size - 1)
       PROVE  /\ shift[i] \in Nat
              /\ \A x \in Int : x \in Hits(gained.slot[i], C) <=>
                   \/ x - shift[i] \in Hits(second.slot[i], C)
                   \/ i \in filled /\ (shift[i] - x) + 1 \in Hits(first.slot[i], C)
  <2>1. CASE i \in filled
    <3>1. PICK a \in Seq(HashTableNode), b \in Seq(HashTableNode) :
            a = first.slot[i] /\ b = second.slot[i]
      BY <1>4, <1>7, <2>1
    <3>2. gained.slot[i] = Pour(a, b) /\ shift[i] = Len(a) /\ Len(a) \in Nat
      BY <1>6, <1>15, <2>1, <3>1
    <3>3. \A x \in Int : x \in Hits(Pour(a, b), C) <=>
            x - Len(a) \in Hits(b, C) \/ (Len(a) - x) + 1 \in Hits(a, C)
      BY HitsOfPour
    <3>4. QED BY <2>1, <3>1, <3>2, <3>3
  <2>2. CASE i \notin filled
    <3>1. gained.slot[i] = second.slot[i] /\ shift[i] = 0
      BY <1>6, <1>15, <2>2
    <3>2. \A x \in Int : x - 0 = x
      OBVIOUS
    <3>3. QED BY <2>2, <3>1, <3>2
  <2>3. QED BY <2>1, <2>2
<1>17. /\ \A i, x : x \in Hits(first.slot[i], C) => x \in Int
       /\ \A i, x : x \in Hits(second.slot[i], C) => x \in Int
       /\ \A i, x : x \in Hits(gained.slot[i], C) => x \in Int
  BY DEF Hits
<1>18. \A p : p \in M <=>
         \E i \in filled : \E x \in Hits(first.slot[i], C) : p = <<i, x>>
  <2>1. Hits(<<>>, C) = {}
    BY DEF Hits
  <2>2. ASSUME NEW p \in M
        PROVE  \E i \in filled : \E x \in Hits(first.slot[i], C) : p = <<i, x>>
    <3>1. PICK i \in 0..(first.size - 1) : \E x \in Hits(first.slot[i], C) : p = <<i, x>>
      BY <1>8, <1>10
    <3>2. p[1] = i /\ i \in visited /\ first.slot[i] # <<>>
      BY <1>8, <2>1, <3>1
    <3>3. i \in filled
      BY <1>7, <3>2
    <3>4. QED BY <3>1, <3>3
  <2>3. ASSUME NEW i \in filled, NEW x \in Hits(first.slot[i], C)
        PROVE  <<i, x>> \in M
    <3>1. i \in 0..(first.size - 1) /\ i \in visited
      BY <1>7
    <3>2. <<i, x>> \in N1
      BY <1>10, <3>1
    <3>3. <<i, x>>[1] = i
      OBVIOUS
    <3>4. QED BY <1>8, <3>1, <3>2, <3>3
  <2>4. QED BY <2>2, <2>3
(* The nodes that were in the second table are its last, from shift on.    *)
<1>19. PICK R : R = {p \in NG : p[2] - shift[p[1]] \in Hits(second.slot[p[1]], C)}
  OBVIOUS
<1>20. IsFiniteSet(R) /\ Cardinality(R) = Cardinality(N2)
  <2>1. ASSUME NEW p \in N2
        PROVE  /\ p = <<p[1], p[2]>> /\ p[1] \in 0..(second.size - 1)
               /\ p[2] \in Hits(second.slot[p[1]], C)
    <3>1. PICK i \in 0..(second.size - 1) : \E x \in Hits(second.slot[i], C) : p = <<i, x>>
      BY <1>10
    <3>2. PICK x \in Hits(second.slot[i], C) : p = <<i, x>>
      BY <3>1
    <3>3. QED BY <3>2
  <2>2. ASSUME NEW i \in 0..(second.size - 1), NEW x \in Hits(second.slot[i], C)
        PROVE  <<i, shift[i] + x>> \in R
    <3>1. x \in Int /\ shift[i] \in Nat
      BY <1>16, <1>17
    <3>2. shift[i] + x \in Int /\ (shift[i] + x) - shift[i] = x
      BY <3>1
    <3>3. shift[i] + x \in Hits(gained.slot[i], C)
      BY <1>16, <3>2
    <3>4. <<i, shift[i] + x>> \in NG
      BY <1>12, <3>3
    <3>5. QED BY <1>19, <3>2, <3>4
  <2>3. PICK f \in [N2 -> R] : f = [p \in N2 |-> <<p[1], shift[p[1]] + p[2]>>]
    BY <2>1, <2>2
  <2>4. \A p, q \in N2 : f[p] = f[q] => p = q
    <3> SUFFICES ASSUME NEW p \in N2, NEW q \in N2, f[p] = f[q] PROVE p = q
      OBVIOUS
    <3>1. p[1] = q[1] /\ shift[p[1]] + p[2] = shift[p[1]] + q[2]
      BY <2>3
    <3>2. p[2] \in Int /\ q[2] \in Int /\ shift[p[1]] \in Nat
      BY <1>16, <1>17, <2>1
    <3>3. p[2] = q[2]
      BY <3>1, <3>2
    <3>4. QED BY <2>1, <3>1, <3>3
  <2>5. \A z \in R : z \in {} \/ \E p \in N2 : f[p] = z
    <3> SUFFICES ASSUME NEW z \in R PROVE \E p \in N2 : f[p] = z
      OBVIOUS
    <3>1. z \in NG /\ z[2] - shift[z[1]] \in Hits(second.slot[z[1]], C)
      BY <1>19
    <3>2. PICK i \in 0..(second.size - 1) : \E x \in Hits(gained.slot[i], C) : z = <<i, x>>
      BY <1>12, <3>1
    <3>3. PICK x \in Hits(gained.slot[i], C) : z = <<i, x>>
      BY <3>2
    <3>4. x \in Int /\ shift[i] \in Nat /\ shift[i] + (x - shift[i]) = x
      BY <1>16, <1>17
    <3>5. <<i, x - shift[i]>> \in N2
      BY <1>10, <3>1, <3>3
    <3>6. f[<<i, x - shift[i]>>] = <<i, x>>
      BY <2>3, <3>4, <3>5
    <3>7. QED BY <3>3, <3>5, <3>6
  <2>6. IsFiniteSet({}) /\ Cardinality({}) = 0
    BY FS_EmptySet
  <2>7. {} \subseteq R /\ \A p \in N2 : f[p] \notin {}
    OBVIOUS
  <2>8. IsFiniteSet(R) /\ Cardinality(R) = Cardinality(N2) + Cardinality({})
    <3>1. IsFiniteSet(N2) /\ IsFiniteSet({}) /\ f \in [N2 -> R]
      BY <1>9, <2>3, <2>6
    <3>2. QED BY <3>1, <2>4, <2>5, <2>7, PartAndImage
  <2>9. QED BY <1>9, <2>6, <2>8
(* The others came from the first, in the opposite order.                  *)
<1>21. Cardinality(NG) = Cardinality(M) + Cardinality(R)
  <2>1. ASSUME NEW p \in M
        PROVE  /\ p = <<p[1], p[2]>> /\ p[1] \in filled
               /\ p[2] \in Hits(first.slot[p[1]], C)
    <3>1. PICK i \in filled : \E x \in Hits(first.slot[i], C) : p = <<i, x>>
      BY <1>18
    <3>2. PICK x \in Hits(first.slot[i], C) : p = <<i, x>>
      BY <3>1
    <3>3. QED BY <3>2
  <2>2. ASSUME NEW i \in filled, NEW x \in Hits(first.slot[i], C)
        PROVE  /\ shift[i] \in Nat /\ x \in 1..shift[i]
               /\ <<i, (shift[i] - x) + 1>> \in NG
               /\ <<i, (shift[i] - x) + 1>> \notin R
    <3>1. i \in 0..(second.size - 1) /\ shift[i] = Len(first.slot[i])
      BY <1>7, <1>15
    <3>2. shift[i] \in Nat /\ x \in 1..shift[i]
      BY <1>16, <3>1 DEF Hits
    <3>3. PICK y \in Int : y = (shift[i] - x) + 1
      BY <3>2
    <3>4. (shift[i] - y) + 1 = x /\ ~(y - shift[i] >= 1)
      BY <3>2, <3>3
    <3>5. y \in Hits(gained.slot[i], C)
      BY <1>16, <3>1, <3>4
    <3>6. <<i, y>> \in NG
      BY <1>12, <3>1, <3>5
    <3>7. y - shift[i] \notin Hits(second.slot[i], C)
      BY <3>4 DEF Hits
    <3>8. <<i, y>> \notin R
      BY <1>19, <3>7
    <3>9. QED BY <3>2, <3>3, <3>6, <3>8
  <2>3. PICK f \in [M -> NG] : f = [p \in M |-> <<p[1], (shift[p[1]] - p[2]) + 1>>]
    BY <2>1, <2>2
  <2>4. \A p, q \in M : f[p] = f[q] => p = q
    <3> SUFFICES ASSUME NEW p \in M, NEW q \in M, f[p] = f[q] PROVE p = q
      OBVIOUS
    <3>1. p[1] = q[1] /\ (shift[p[1]] - p[2]) + 1 = (shift[p[1]] - q[2]) + 1
      BY <2>3
    <3>2. p[2] \in Int /\ q[2] \in Int /\ shift[p[1]] \in Nat
      BY <1>17, <2>1, <2>2
    <3>3. p[2] = q[2]
      BY <3>1, <3>2
    <3>4. QED BY <2>1, <3>1, <3>3
  <2>5. \A p \in M : f[p] \notin R
    BY <2>1, <2>2, <2>3
  <2>6. \A z \in NG : z \in R \/ \E p \in M : f[p] = z
    <3> SUFFICES ASSUME NEW z \in NG, z \notin R PROVE \E p \in M : f[p] = z
      OBVIOUS
    <3>1. PICK i \in 0..(second.size - 1) : \E x \in Hits(gained.slot[i], C) : z = <<i, x>>
      BY <1>12
    <3>2. PICK x \in Hits(gained.slot[i], C) : z = <<i, x>>
      BY <3>1
    <3>3. z[1] = i /\ z[2] = x /\ x \in Int /\ shift[i] \in Nat
      BY <1>16, <1>17, <3>2
    <3>4. x - shift[i] \notin Hits(second.slot[i], C)
      BY <1>19, <3>3
    <3>5. i \in filled /\ (shift[i] - x) + 1 \in Hits(first.slot[i], C)
      BY <1>16, <3>3, <3>4
    <3>6. <<i, (shift[i] - x) + 1>> \in M
      BY <1>18, <3>5
    <3>7. (shift[i] - ((shift[i] - x) + 1)) + 1 = x
      BY <3>3
    <3>8. f[<<i, (shift[i] - x) + 1>>] = <<i, x>>
      BY <2>3, <3>6, <3>7
    <3>9. QED BY <3>2, <3>6, <3>8
  <2>7. R \subseteq NG
    BY <1>19
  <2>8. QED BY <1>14, <1>20, <2>4, <2>5, <2>6, <2>7, PartAndImage
<1>22. Cardinality(NL) + Cardinality(NG) = Cardinality(N1) + Cardinality(N2)
  BY <1>9, <1>14, <1>20, <1>21
<1>23. QED
  BY <1>1, <1>8, <1>22

=============================================================================
