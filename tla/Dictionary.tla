----------------------------- MODULE Dictionary -----------------------------
(***************************************************************************)
(* The chained hash table with incremental rehashing of nosql/dictionary.c *)
(* as the code has it, its mistakes included.                              *)
(*                                                                         *)
(* The program is sequential: a call of the API runs to its end before the *)
(* next one, so each exported function is one action.  What interleaves is *)
(* the incremental rehash: every call first moves a few slots of the first *)
(* table to the second, and the next calls see the half-moved dictionary.  *)
(*                                                                         *)
(* A call that makes the C program dereference NULL, leave an array or     *)
(* free a block twice moves the dictionary to a status that names the      *)
(* fault and the behaviour ends there: nothing is claimed of what a        *)
(* program does after undefined behaviour.                                 *)
(***************************************************************************)
EXTENDS Integers, SequencesExt

CONSTANTS
  Key,                \* the keys; KeyCompare is equality on them
  Value,              \* the values
  Unset,              \* value_ of a node that DictionaryAddRaw() returned
  NULL,               \* the null pointer
  Hash,               \* type_->HashFunction, a function on Key
  TableSizes,         \* the sizes a table can have, each twice another: an
                      \* int holds no larger one
  InitialSize,        \* DICTIONARY_HASH_TABLE_INITIAL_SIZE
  ForceResizeRatio,   \* dictionary_force_resize_ratio
  EmptyVisitsPerStep, \* the 10 of `rehash_count * 10`
  RehashCounts,       \* bound: arguments of DictionaryRehash()
  ExpandSizes,        \* bound: arguments of DictionaryExpand()
  MaxNodes            \* bound: no key is added to MaxNodes nodes or more

(* Every key hashes to some int, negative ones included.                   *)
ASSUME HashAssumption == Hash \in [Key -> Int]

(* The sizes are InitialSize, 2 * InitialSize, 4 * InitialSize, ...        *)
ASSUME SizesAssumption ==
  /\ InitialSize \in Nat \ {0}
  /\ TableSizes \subseteq Nat \ {0}
  /\ InitialSize \in TableSizes
  /\ \A s \in TableSizes :
       \/ s = InitialSize
       \/ \E h \in TableSizes : s = 2 * h

ASSUME ParametersAssumption ==
  /\ ForceResizeRatio \in Nat
  /\ EmptyVisitsPerStep \in Nat \ {0}
  /\ RehashCounts \subseteq Nat
  /\ ExpandSizes \subseteq Nat
  /\ MaxNodes \in Nat

(* The bounds let no call add so many nodes that their table overflows;    *)
(* the arguments of DictionaryExpand() may.                                *)
ASSUME GrowthAssumption ==
  \A n \in 0..(2 * MaxNodes) : \E s \in TableSizes : n <= s

ASSUME ResultAssumption == {NULL, Unset} \cap Value = {}

VARIABLES
  dictionary,             \* the Dictionary, its status included
  dictionary_can_resize,  \* the static flag of dictionary.c
  result,                 \* the reply of the last call that takes a key
  references              \* history: the references to keys and to values that
                          \* the methods of type_ made and have not destroyed

vars == <<dictionary, dictionary_can_resize, result, references>>

-----------------------------------------------------------------------------
(* Hash tables.  slot[i] is the chain of slot i, head first; an array that *)
(* is not allocated is a table of size 0.                                  *)

HashTableNode == [key : Key, value : Value \cup {Unset}]

IsHashTable(T) ==
  /\ T = [slot |-> T.slot, size |-> T.size, count |-> T.count]
  /\ T.size \in TableSizes \cup {0}
  /\ T.slot \in [0..(T.size - 1) -> Seq(HashTableNode)]
  /\ T.count \in Nat

EmptyTable(n) == [slot |-> [i \in 0..(n - 1) |-> <<>>], size |-> n, count |-> 0]

(* Where the nodes are: <<slot, position in its chain>>.                   *)
Places(T) == UNION {{i} \X DOMAIN T.slot[i] : i \in DOMAIN T.slot}

(* hash_value & size_mask_, the size being a power of two.                 *)
SlotIndex(T, k) == Hash[k] % T.size

Chain(T, k) == T.slot[SlotIndex(T, k)]

(* Position of the first node of the chain whose key is k, 0 if none.      *)
FirstMatch(chain, k) == SelectInSeq(chain, LAMBDA n : n.key = k)

(* Mutant: element_number_ is not incremented.                             *)
LinkUncounted(T, i, node) == [T EXCEPT !.slot[i] = <<node>> \o @]

Link(T, i, node) ==
  [slot  |-> [T.slot EXCEPT ![i] = <<node>> \o @],
   size  |-> T.size,
   count |-> T.count + 1]

(* Mutant: element_number_ is not decremented.                             *)
UnlinkUncounted(T, i, j) == [T EXCEPT !.slot[i] = RemoveAt(@, j)]

Unlink(T, i, j) ==
  [slot  |-> [T.slot EXCEPT ![i] = RemoveAt(@, j)],
   size  |-> T.size,
   count |-> T.count - 1]

SetValue(T, i, j, v) == [T EXCEPT !.slot[i] = [@ EXCEPT ![j].value = v]]

-----------------------------------------------------------------------------
(* Dictionaries.                                                           *)

Faults == {
  "size_overflow",        \* no int is a power of two as large as the request
  "rehash_overrun",       \* rehash_index_ leaves the first table
  "rehash_out_of_bounds", \* a node is moved past the end of the second
  "add_null_slot",        \* a node is added to a table without array
  "add_out_of_bounds",    \* a node is added past the end of a table
  "replace_null_node",    \* DictionaryReplace() dereferences NULL
  "double_free"}          \* DictionaryClear() frees a node twice

IsDictionary(d) ==
  /\ d = [table        |-> [t \in 0..1 |-> d.table[t]],
          rehash_index |-> d.rehash_index,
          status       |-> d.status]
  /\ \A t \in 0..1 : IsHashTable(d.table[t])
  /\ d.rehash_index \in Nat \cup {-1}
  /\ d.status \in {"absent", "live"} \cup Faults

Tables(first, second) == [t \in 0..1 |-> IF t = 0 THEN first ELSE second]

NewDictionary(status) ==
  [table        |-> Tables(EmptyTable(0), EmptyTable(0)),
   rehash_index |-> -1,
   status       |-> status]

Fault(d, f) == [d EXCEPT !.status = f]

IsRehashing(d) == d.rehash_index # -1

(* The number of nodes, as the two element_number_ fields have it.         *)
NodeNumber(d) == d.table[0].count + d.table[1].count

-----------------------------------------------------------------------------
(* DictionaryRehash(): the loop leaves rehash_index_ at the first index j  *)
(* where it has moved n slots, visited too many empty ones, or moved every *)
(* node the first table counts.                                            *)

VisitedSlots(d, j) == d.rehash_index..(j - 1)

FilledSlots(d, j) == {i \in VisitedSlots(d, j) : d.table[0].slot[i] # <<>>}

MovedPlaces(d, j) == {p \in Places(d.table[0]) : p[1] \in VisitedSlots(d, j)}

LoopEnds(d, n, j) ==
  \/ Cardinality(FilledSlots(d, j)) = n
  \/ /\ n > 0
     /\ Cardinality(VisitedSlots(d, j) \ FilledSlots(d, j)) = n * EmptyVisitsPerStep
  \/ Cardinality(MovedPlaces(d, j)) = d.table[0].count

LoopEndings(d, n) == {j \in d.rehash_index..d.table[0].size : LoopEnds(d, n, j)}

(* Mutant: next_ of a moved node is not set to the chain it is put before. *)
PourOver(chain, onto) == Reverse(chain)

(* A chain is moved node by node to the head of another: it arrives        *)
(* reversed.                                                               *)
Pour(chain, onto) == Reverse(chain) \o onto

(* The first table without the nodes of the visited slots.                 *)
LeftTable(d, j) ==
  LET first == d.table[0]
  IN  [slot  |-> [i \in DOMAIN first.slot |->
                    IF i \in VisitedSlots(d, j) THEN <<>> ELSE first.slot[i]],
       size  |-> first.size,
       count |-> first.count - Cardinality(MovedPlaces(d, j))]

(* The second table with them, in the slots of the SAME index: line 109    *)
(* never uses new_slot_index.                                              *)
GainedTable(d, j) ==
  LET second == d.table[1]
  IN  [slot  |-> [i \in DOMAIN second.slot |->
                    IF i \in FilledSlots(d, j)
                    THEN Pour(d.table[0].slot[i], second.slot[i])
                    ELSE second.slot[i]],
       size  |-> second.size,
       count |-> second.count + Cardinality(MovedPlaces(d, j))]

MoveSlots(d, j) ==
  [table        |-> Tables(LeftTable(d, j), GainedTable(d, j)),
   rehash_index |-> j,
   status       |-> d.status]

(* Mutant: the second table is not reset.                                  *)
FinishRehashTwice(d) ==
  [table        |-> Tables(d.table[1], d.table[1]),
   rehash_index |-> -1,
   status       |-> d.status]

(* The first table is empty: the second takes its place.                   *)
FinishRehash(d) ==
  [table        |-> Tables(d.table[1], EmptyTable(0)),
   rehash_index |-> -1,
   status       |-> d.status]

RehashSlots(d, n) ==
  IF ~IsRehashing(d) THEN d
  ELSE LET endings == LoopEndings(d, n)
           j == Min(endings)
           m == MoveSlots(d, j)
       IN  IF endings = {} THEN Fault(d, "rehash_overrun")
           ELSE IF \E i \in FilledSlots(d, j) : i >= d.table[1].size
           THEN Fault(d, "rehash_out_of_bounds")
           ELSE IF m.table[0].count = 0 THEN FinishRehash(m) ELSE m

(* Mutant: the step moves no slot.                                         *)
RehashStepIdle(d) == RehashSlots(d, 0)

(* iterator_number_ is 0 from DictionaryCreate() on: no function of the    *)
(* repository changes it.                                                  *)
RehashStep(d) == RehashSlots(d, 1)

-----------------------------------------------------------------------------
(* Growing.                                                                *)

LargeEnough(size) == {s \in TableSizes : size <= s}

NextPower(size) == Min(LargeEnough(size))

CanExpand(d, size) ==
  /\ ~IsRehashing(d)
  /\ d.table[0].count <= size
  /\ NextPower(size) # d.table[0].size

(* Mutant: size_ is the size asked for, not the array's.                   *)
NewTableOfAskedSize(size) == [EmptyTable(NextPower(size)) EXCEPT !.size = size]

NewTable(size) == EmptyTable(NextPower(size))

ExpandTo(d, size) ==
  IF d.table[0].size = 0
  THEN [d EXCEPT !.table[0] = NewTable(size)]
  ELSE [table        |-> Tables(d.table[0], NewTable(size)),
        rehash_index |-> 0,
        status       |-> d.status]

(* The conditions of DictionaryExpandIfNeeded() and the size it asks for.  *)
WantsExpand(d) ==
  LET T     == d.table[0]
      ratio == T.count \div T.size
  IN  \/ T.size = 0
      \/ /\ ~IsRehashing(d)
         /\ ratio >= 1
         /\ dictionary_can_resize \/ ratio > ForceResizeRatio

WantedSize(d) ==
  IF d.table[0].size = 0 THEN InitialSize ELSE 2 * d.table[0].count

ExpandIfNeeded(d) ==
  IF WantsExpand(d) /\ CanExpand(d, WantedSize(d))
  THEN ExpandTo(d, WantedSize(d))
  ELSE d

-----------------------------------------------------------------------------
(* Looking up and adding.                                                  *)

(* The table DictionaryKeyIndex() chooses and looks for the key in.        *)
KeyTable(d) == IF IsRehashing(d) THEN d.table[1] ELSE d.table[0]

(* d is the dictionary before DictionaryExpandIfNeeded(); -1: not to add.  *)
KeyIndex(d, k) ==
  LET T == KeyTable(ExpandIfNeeded(d))
  IN  IF WantsExpand(d) /\ ~CanExpand(d, WantedSize(d)) THEN -1
      ELSE IF FirstMatch(Chain(T, k), k) # 0 THEN -1
      ELSE SlotIndex(T, k)

(* Mutant: every node is added to the first table.                         *)
AddTableFirst(d) == 0

(* The table DictionaryAddRaw() adds to: d is the dictionary before the    *)
(* rehash step and the expansion, which can end or start a rehash.         *)
AddTable(d) == IF IsRehashing(d) THEN 1 ELSE 0

(* DictionaryAddRaw() of a node that gets value v.                         *)
AddNode(d, k, v) ==
  LET stepped  == RehashStep(d)
      expanded == ExpandIfNeeded(stepped)
      index    == KeyIndex(stepped, k)
      t        == AddTable(d)
      T        == expanded.table[t]
      node     == [key |-> k, value |-> v]
  IN  IF stepped.status # "live" THEN [dict |-> stepped, added |-> FALSE]
      ELSE IF index = -1 THEN [dict |-> expanded, added |-> FALSE]
      ELSE IF T.size = 0
           THEN [dict |-> Fault(expanded, "add_null_slot"), added |-> FALSE]
      ELSE IF index >= T.size
           THEN [dict |-> Fault(expanded, "add_out_of_bounds"), added |-> FALSE]
      ELSE [dict  |-> [expanded EXCEPT !.table[t] = Link(@, index, node)],
            added |-> TRUE]

(* The rehash step that opens DictionaryFind() and the deletions.          *)
Touch(d) == IF d.table[0].size = 0 THEN d ELSE RehashStep(d)

(* Mutant: the search never goes on to the second table.                   *)
FoundInFirst(d, k) ==
  IF d.status # "live" \/ d.table[0].size = 0 THEN -1
  ELSE IF FirstMatch(Chain(d.table[0], k), k) # 0 THEN 0
  ELSE -1

(* The table in which the search of both tables ends, -1 if it fails.      *)
FoundIn(d, k) ==
  IF d.status # "live" \/ d.table[0].size = 0 THEN -1
  ELSE IF FirstMatch(Chain(d.table[0], k), k) # 0 THEN 0
  ELSE IF IsRehashing(d) /\ FirstMatch(Chain(d.table[1], k), k) # 0 THEN 1
  ELSE -1

(* value_ of the node the search returns, NULL if there is none.           *)
LookUp(d, k) ==
  LET T == d.table[FoundIn(d, k)]
  IN  IF FoundIn(d, k) = -1 THEN NULL
      ELSE Chain(T, k)[FirstMatch(Chain(T, k), k)].value

(* d with the node the search returns unlinked, or with its value changed. *)
RemoveFound(d, k) ==
  [d EXCEPT !.table[FoundIn(d, k)] =
     Unlink(@, SlotIndex(@, k), FirstMatch(Chain(@, k), k))]

ReplaceFound(d, k, v) ==
  [d EXCEPT !.table[FoundIn(d, k)] =
     SetValue(@, SlotIndex(@, k), FirstMatch(Chain(@, k), k), v)]

-----------------------------------------------------------------------------
(* Ownership.  KeyDuplicate() and ValueDuplicate() take a reference to     *)
(* what the caller passes, the destructors give it back.  A value that     *)
(* DictionaryAddRaw() leaves to the caller to fill in is his reference.    *)

References == [key : [Key -> Int], value : [Value \cup {Unset} -> Int]]

NoReferences == [key   |-> [k \in Key |-> 0],
                 value |-> [v \in Value \cup {Unset} |-> 0]]

Acquire(held, x) == [held EXCEPT ![x] = @ + 1]

Destroy(held, x) == [held EXCEPT ![x] = @ - 1]

(* A node gets its key and its value.                                      *)
TakeBoth(refs, k, v) ==
  [key |-> Acquire(refs.key, k), value |-> Acquire(refs.value, v)]

(* A node loses both.  DictionaryDeleteNoFree() leaves them to its caller, *)
(* out of this account either way.                                         *)
GiveUpBoth(refs, k, v) ==
  [key |-> Destroy(refs.key, k), value |-> Destroy(refs.value, v)]

(* Mutant: the old value is freed first.  If it was the last reference to  *)
(* the new one too, there is nothing left to take a reference to.          *)
FreeThenSet(refs, new, old) ==
  LET freed == Destroy(refs.value, old)
  IN  [key   |-> refs.key,
       value |-> IF new = old /\ freed[new] = 0 THEN freed
                 ELSE Acquire(freed, new)]

(* The new value is set before the old one is freed: they may be the same. *)
SetThenFree(refs, new, old) ==
  [key   |-> refs.key,
   value |-> Destroy(Acquire(refs.value, new), old)]

-----------------------------------------------------------------------------
(* The API, one action per function.  The calls that take no key leave     *)
(* result alone: what they return, if anything, the states tell.           *)

Reply(call, k, returned) == [call |-> call, key |-> k, returned |-> returned]

IsLive == dictionary.status = "live"

(* No call so far was undefined.                                           *)
IsDefined == dictionary.status \notin Faults

Init ==
  /\ dictionary = NewDictionary("absent")
  /\ dictionary_can_resize = TRUE
  /\ result = NULL
  /\ references = NoReferences

Create ==
  /\ dictionary.status = "absent"
  /\ dictionary' = NewDictionary("live")
  /\ UNCHANGED <<dictionary_can_resize, result, references>>

EnableResize ==
  /\ IsDefined
  /\ dictionary_can_resize' = TRUE
  /\ UNCHANGED <<dictionary, result, references>>

DisableResize ==
  /\ IsDefined
  /\ dictionary_can_resize' = FALSE
  /\ UNCHANGED <<dictionary, result, references>>

(* Its result, whether a rehash is in progress, is IsRehashing(dictionary')*)
Rehash(n) ==
  /\ IsLive
  /\ dictionary' = RehashSlots(dictionary, n)
  /\ UNCHANGED <<dictionary_can_resize, result, references>>

(* Its result is CanExpand(dictionary, size); it is an error to ask for a  *)
(* size that changes nothing.  The power is computed before any check: its *)
(* doubling, or the bytes of INT_MAX slots, can overflow.                  *)
Expand(size) ==
  /\ IsLive
  /\ dictionary' = IF LargeEnough(size) = {}
                   THEN Fault(dictionary, "size_overflow")
                   ELSE IF CanExpand(dictionary, size)
                   THEN ExpandTo(dictionary, size)
                   ELSE dictionary
  /\ UNCHANGED <<dictionary_can_resize, result, references>>

AddRaw(k) ==
  /\ IsLive
  /\ NodeNumber(dictionary) < MaxNodes
  /\ LET outcome == AddNode(dictionary, k, Unset)
     IN  /\ dictionary' = outcome.dict
         /\ result' = Reply("AddRaw", k, IF outcome.added THEN 1 ELSE NULL)
         /\ references' = IF outcome.added THEN TakeBoth(references, k, Unset)
                          ELSE references
  /\ UNCHANGED dictionary_can_resize

Add(k, v) ==
  /\ IsLive
  /\ NodeNumber(dictionary) < MaxNodes
  /\ LET outcome == AddNode(dictionary, k, v)
     IN  /\ dictionary' = outcome.dict
         /\ result' = Reply("Add", k, IF outcome.added THEN 1 ELSE 0)
         /\ references' = IF outcome.added THEN TakeBoth(references, k, v)
                          ELSE references
  /\ UNCHANGED dictionary_can_resize

(* DictionaryFind(), and DictionaryGetValue() that returns its value.      *)
Find(k) ==
  /\ IsLive
  /\ dictionary' = Touch(dictionary)
  /\ result' = Reply("Find", k, LookUp(dictionary', k))
  /\ UNCHANGED <<dictionary_can_resize, references>>

(* DictionaryAdd() and, if it refuses, DictionaryFind(): two rehash steps. *)
Replace(k, v) ==
  /\ IsLive
  /\ NodeNumber(dictionary) < MaxNodes
  /\ LET outcome == AddNode(dictionary, k, v)
         touched == Touch(outcome.dict)
     IN  \/ /\ outcome.added \/ outcome.dict.status # "live"
            /\ dictionary' = outcome.dict
            /\ result' = Reply("Replace", k, 1)
            /\ references' = IF outcome.added THEN TakeBoth(references, k, v)
                             ELSE references
         \/ /\ ~outcome.added /\ outcome.dict.status = "live"
            /\ dictionary' = IF touched.status # "live" THEN touched
                             ELSE IF FoundIn(touched, k) = -1
                             THEN Fault(touched, "replace_null_node")
                             ELSE ReplaceFound(touched, k, v)
            /\ result' = Reply("Replace", k, 0)
            /\ references' = IF FoundIn(touched, k) = -1 THEN references
                             ELSE SetThenFree(references, v, LookUp(touched, k))
  /\ UNCHANGED dictionary_can_resize

(* DictionaryDelete() and DictionaryDeleteNoFree(), which differ in who    *)
(* frees the key and the value.                                            *)
Delete(k) ==
  /\ IsLive
  /\ LET touched == Touch(dictionary)
     IN  \/ /\ FoundIn(touched, k) = -1
            /\ dictionary' = touched
            /\ result' = Reply("Delete", k, 0)
            /\ UNCHANGED references
         \/ /\ FoundIn(touched, k) # -1
            /\ dictionary' = RemoveFound(touched, k)
            /\ result' = Reply("Delete", k, 1)
            /\ references' = GiveUpBoth(references, k, LookUp(touched, k))
  /\ UNCHANGED dictionary_can_resize

(* DictionaryClear() of both tables.  Line 517 takes the node itself for   *)
(* its successor, so the first node met is freed again and again.          *)
Release ==
  /\ IsLive
  /\ dictionary' = IF NodeNumber(dictionary) > 0
                   THEN Fault(dictionary, "double_free")
                   ELSE NewDictionary("absent")
  /\ UNCHANGED <<dictionary_can_resize, result, references>>

Next ==
  \/ Create
  \/ EnableResize
  \/ DisableResize
  \/ \E n \in RehashCounts : Rehash(n)
  \/ \E size \in ExpandSizes : Expand(size)
  \/ \E k \in Key : AddRaw(k)
  \/ \E k \in Key, v \in Value : Add(k, v)
  \/ \E k \in Key : Find(k)
  \/ \E k \in Key, v \in Value : Replace(k, v)
  \/ \E k \in Key : Delete(k)
  \/ Release

Spec == Init /\ [][Next]_vars

(* The dictionary is in use: its caller goes on looking keys up.           *)
FairSpec == Spec /\ WF_dictionary(\E k \in Key : Find(k))

-----------------------------------------------------------------------------
(* Properties the code has.                                                *)

(* Every variable has its type; a table's array has size_ chains.          *)
TypeOK ==
  /\ IsDictionary(dictionary)
  /\ dictionary_can_resize \in BOOLEAN
  /\ \/ result = NULL
     \/ result \in [call : {"AddRaw", "Add", "Find", "Replace", "Delete"},
                    key : Key, returned : {0, 1, NULL, Unset} \cup Value]
  /\ references \in References

(* element_number_ of each table is the number of nodes chained in it: the *)
(* load factor, the end of a rehash and the walk of DictionaryClear() are  *)
(* all decided by this counter and never by the chains.                    *)
CountsMatch(T) == T.count = Cardinality(Places(T))

CountsMatchChains == \A t \in 0..1 : CountsMatch(dictionary.table[t])

(* The second table is allocated exactly while a rehash is in progress,    *)
(* rehash_index_ then is a slot of the first table, and the slots before   *)
(* it are empty: no node is left behind when the first array is freed.     *)
Frontier(d) ==
  /\ IsRehashing(d) <=> d.table[1].size > 0
  /\ IsRehashing(d) =>
       /\ d.rehash_index < d.table[0].size
       /\ \A i \in 0..(d.rehash_index - 1) : d.table[0].slot[i] = <<>>

RehashFrontier == Frontier(dictionary)

(* The assertion `rehash_index_ < size_` never fails and the inner loop of *)
(* DictionaryRehash() always meets a filled slot or its limit before the   *)
(* end of the first table.                                                 *)
NoRehashOverrun == dictionary.status # "rehash_overrun"

(* When DictionaryAdd() refuses the key, the DictionaryFind() after it     *)
(* finds the node although it moves slots of its own first, so that        *)
(* DictionaryReplace() never dereferences NULL.                            *)
ReplaceFindsNode == dictionary.status # "replace_null_node"

(* The references that exist are those of the nodes, one to the key and    *)
(* one to the value of each: none leaks, and none is given back that a     *)
(* node still has, through rehashes, replacements by the same value,       *)
(* second nodes of one key, and up to the release.                         *)
NodesHoldReferences ==
  LET places == UNION {{t} \X Places(dictionary.table[t]) : t \in 0..1}
      At(p)  == dictionary.table[p[1]].slot[p[2][1]][p[2][2]]
  IN  /\ \A k \in Key :
           references.key[k] = Cardinality({p \in places : At(p).key = k})
      /\ \A v \in Value \cup {Unset} :
           references.value[v] = Cardinality({p \in places : At(p).value = v})

(* While one rehash lasts the first table gains no node and rehash_index_  *)
(* does not go back, whatever calls come in between.                       *)
FirstTableDrains ==
  [][/\ IsRehashing(dictionary)
     /\ IsRehashing(dictionary')
     /\ dictionary'.table[0].size = dictionary.table[0].size
     => /\ dictionary'.table[0].count <= dictionary.table[0].count
        /\ dictionary'.rehash_index >= dictionary.rehash_index]_vars

(* A rehash ends if the dictionary stays in use: each lookup moves a slot  *)
(* or passes empty ones, and no call in between undoes that (or the        *)
(* dictionary is released, or a call is undefined, first).                 *)
RehashEnds == IsLive /\ IsRehashing(dictionary)
                ~> ~IsLive \/ ~IsRehashing(dictionary)

=============================================================================
