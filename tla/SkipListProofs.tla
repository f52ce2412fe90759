--------------------------- MODULE SkipListProofs ---------------------------
(***************************************************************************)
(* Proofs about the skip list of nosql/skip_list.c.                        *)
(*                                                                         *)
(* The properties of SkipList speak of walks along the links of a level,   *)
(* and the code never sees the order that the levels share.  The argument  *)
(* has a witness for it: a ranking r that numbers the nodes from 1 on.     *)
(* Fit(N, L, r) says that heap N and list record L are those of r: the     *)
(* link of a node on a level goes to the next node in r that has the level *)
(* and the span is the difference of their ranks.                          *)
(*                                                                         *)
(*   - The search goes on by a node or down by a level in each round, and  *)
(*     ends with the last node before the new one on every level, and its  *)
(*     rank (SearchRound, Search).                                         *)
(*   - The insertion gives the new node the rank behind that of            *)
(*     previous[0] and moves the ranks behind it by one; each part of Fit  *)
(*     holds of the new heap and the new ranks.                            *)
(*   - The walk of a level meets the nodes that have it by their ranks     *)
(*     (Linked), which gives SpansMeasureRanks and LevelsAgree.            *)
(*   - References: what an insertion, a release and the callers change in  *)
(*     the counts is what they change in the owners.                       *)
(*   - Refinement: the sequence of SortedItems is the items by rank.       *)
(*                                                                         *)
(* Inductions are over the numbers of an iteration (NaturalLemmas).        *)
(***************************************************************************)
EXTENDS SkipList, NaturalLemmas, SequenceTheorems

-----------------------------------------------------------------------------
(* The nodes of a heap and their ranks.                                    *)

Live(N) == {n \in Node : N[n] # NULL}

Points(N) == Live(N) \cup {HeadNode}

Tall(N, n, l) == l \in DOMAIN N[n].forward

SkipLists == [tail : Node \cup {NULL}, length : Nat, level : 1..SKIP_LIST_MAX_LEVEL]

(* The nodes have their types, and no level above those of the list.       *)
HeapType(N, L) ==
  /\ N[HeadNode] \in SkipListNode(SKIP_LIST_MAX_LEVEL)
  /\ \A n \in Live(N) :
       /\ \E level \in 1..L.level : N[n] \in SkipListNode(level)
       /\ N[n].object \in Object /\ N[n].score \in Score

(* r numbers the nodes from 1 on.                                          *)
Ranking(N, L, r) ==
  /\ r \in [Node \cup {HeadNode} -> Nat] /\ r[HeadNode] = 0
  /\ \A n \in Live(N) : r[n] \in 1..L.length
  /\ \A i \in 1..L.length : \E n \in Live(N) : r[n] = i
  /\ \A m, n \in Live(N) : r[m] = r[n] => m = n

(* The link of n on level l goes to the next node that has the level, and  *)
(* its span is their distance.                                             *)
Threaded(N, L, r, n, l) ==
  \/ /\ N[n].forward[l] = NULL
     /\ \A k \in Live(N) : Tall(N, k, l) => r[k] <= r[n]
     /\ l < L.level => N[n].span[l] = L.length - r[n]
  \/ \E m \in Live(N) :
       /\ N[n].forward[l] = m
       /\ Tall(N, m, l) /\ r[n] < r[m]
       /\ \A k \in Live(N) : Tall(N, k, l) /\ r[n] < r[k] => r[m] <= r[k]
       /\ l < L.level => N[n].span[l] = r[m] - r[n]

AllThreaded(N, L, r) ==
  \A n \in Points(N), l \in Level : Tall(N, n, l) => Threaded(N, L, r, n, l)

(* Links back and the end.                                                 *)
Backed(N, r) ==
  \A n \in Live(N) :
    /\ r[n] = 1 => N[n].backward = NULL
    /\ \A m \in Live(N) : r[n] = r[m] + 1 => N[n].backward = m

Ended(N, L, r) ==
  /\ L.length = 0 => L.tail = NULL
  /\ \A n \in Live(N) : r[n] = L.length => L.tail = n

(* The order of scores and names.                                          *)
Precedes(N, n, object, score) ==
  \/ N[n].score < score
  \/ N[n].score = score /\ Name[N[n].object] < Name[object]

Sorted(N, r) ==
  \A m, n \in Live(N) : r[m] < r[n] => ~Precedes(N, n, N[m].object, N[m].score)

Topped(N, L) == L.level = 1 \/ \E n \in Live(N) : Tall(N, n, L.level - 1)

(* r is the order of the list L in heap N.                                 *)
Fit(N, L, r) ==
  /\ L \in SkipLists /\ HeapType(N, L) /\ Ranking(N, L, r)
  /\ AllThreaded(N, L, r) /\ Backed(N, r) /\ Ended(N, L, r)
  /\ Sorted(N, r) /\ Topped(N, L)

-----------------------------------------------------------------------------
(* What the levels of a node are.                                          *)
LEMMA NodeLevels ==
  ASSUME NEW N, NEW L, L \in SkipLists, HeapType(N, L)
  PROVE  /\ \A l : Tall(N, HeadNode, l) <=> l \in Level
         /\ \A n \in Points(N) : \A l : Tall(N, n, l) => l \in Level
         /\ \A n \in Points(N) : Tall(N, n, 0)
         /\ \A n \in Points(N) : \A l : Tall(N, n, l) /\ l # 0 => Tall(N, n, l - 1)
         /\ \A n \in Live(N) : \A l : Tall(N, n, l) => l < L.level
         /\ \A n \in Points(N) : \A l : Tall(N, n, l) =>
              N[n].forward[l] \in Node \cup {NULL} /\ N[n].span[l] \in Nat
         /\ \A n \in Points(N) : N[n].score \in Int
         /\ \A n \in Points(N) : \A l, k : Tall(N, n, l) /\ k \in 0..l => Tall(N, n, k)
<1>1. PICK max \in Nat \ {0} : max = SKIP_LIST_MAX_LEVEL
  BY SkipListAssumption
<1>2. L.level \in 1..max
  BY <1>1 DEF SkipLists
<1>3. ASSUME NEW n \in Points(N)
      PROVE  \E h \in 1..max :
               /\ \A l : Tall(N, n, l) <=> l \in 0..(h - 1)
               /\ N[n].forward \in [0..(h - 1) -> Node \cup {NULL}]
               /\ N[n].span \in [0..(h - 1) -> Nat]
               /\ N[n].score \in Int
               /\ n = HeadNode => h = max
               /\ n \in Live(N) => h <= L.level
  <2>1. PICK h \in 1..max :
          /\ N[n] \in SkipListNode(h)
          /\ n = HeadNode => h = max
          /\ n \in Live(N) => h <= L.level
    <3>1. CASE n = HeadNode
      <4>1. n \notin Live(N)
        BY <3>1, SkipListAssumption DEF Live
      <4>2. max \in 1..max
        BY <1>1
      <4>3. QED BY <1>1, <3>1, <4>1, <4>2 DEF HeapType
    <3>2. CASE n # HeadNode
      <4>1. n \in Live(N)
        BY <3>2 DEF Points
      <4>2. PICK h \in 1..L.level : N[n] \in SkipListNode(h)
        BY <4>1 DEF HeapType
      <4>3. h \in 1..max /\ h <= L.level
        BY <1>2
      <4>4. QED BY <3>2, <4>2, <4>3
    <3>3. QED BY <3>1, <3>2
  <2>2. /\ N[n].forward \in [0..(h - 1) -> Node \cup {NULL}]
        /\ N[n].span \in [0..(h - 1) -> Nat]
        /\ N[n].score \in Int
    BY <2>1 DEF SkipListNode
  <2>3. DOMAIN N[n].forward = 0..(h - 1)
    BY <2>2
  <2>4. QED BY <2>1, <2>2, <2>3 DEF Tall
<1>4. HeadNode \in Points(N) /\ Live(N) \subseteq Points(N)
  BY DEF Points
<1>5. Level = 0..(max - 1)
  BY <1>1 DEF Level
<1>6. \A l : Tall(N, HeadNode, l) <=> l \in Level
  BY <1>3, <1>4, <1>5
<1>7. ASSUME NEW n \in Points(N)
      PROVE  /\ \A l : Tall(N, n, l) => l \in Level
             /\ Tall(N, n, 0)
             /\ \A l : Tall(N, n, l) /\ l # 0 => Tall(N, n, l - 1)
             /\ n \in Live(N) => \A l : Tall(N, n, l) => l < L.level
             /\ \A l : Tall(N, n, l) => N[n].forward[l] \in Node \cup {NULL} /\ N[n].span[l] \in Nat
             /\ N[n].score \in Int
             /\ \A l, k : Tall(N, n, l) /\ k \in 0..l => Tall(N, n, k)
  <2>1. PICK h \in 1..max :
               /\ \A l : Tall(N, n, l) <=> l \in 0..(h - 1)
               /\ N[n].forward \in [0..(h - 1) -> Node \cup {NULL}]
               /\ N[n].span \in [0..(h - 1) -> Nat]
               /\ N[n].score \in Int
               /\ n \in Live(N) => h <= L.level
    BY <1>3
  <2>2. \A l : l \in 0..(h - 1) => l \in Level
    BY <1>5
  <2>3. 0 \in 0..(h - 1)
    OBVIOUS
  <2>4. \A l : l \in 0..(h - 1) /\ l # 0 => l - 1 \in 0..(h - 1)
    OBVIOUS
  <2>5. n \in Live(N) => \A l \in 0..(h - 1) : l < L.level
    BY <1>2, <2>1
  <2>6. \A l, k : l \in 0..(h - 1) /\ k \in 0..l => k \in 0..(h - 1)
    OBVIOUS
  <2>7. QED BY <2>1, <2>2, <2>3, <2>4, <2>5, <2>6
<1>8. QED BY <1>4, <1>6, <1>7

(* No more nodes are in the list than there are.                           *)
LEMMA LengthBound ==
  ASSUME NEW N, NEW L, L \in SkipLists, NEW r, Ranking(N, L, r)
  PROVE  Cardinality(Node) \in Nat /\ L.length \in Nat /\ L.length <= Cardinality(Node)
<1>1. L.length \in Nat
  BY DEF SkipLists
<1>2. IsFiniteSet(Node) /\ Cardinality(Node) \in Nat
  BY SkipListAssumption, FS_CardinalityType
<1>3. IsFiniteSet(Live(N)) /\ Cardinality(Live(N)) <= Cardinality(Node) /\ Cardinality(Live(N)) \in Nat
  <2>1. Live(N) \in SUBSET Node
    BY DEF Live
  <2>2. QED BY <1>2, <2>1, FS_Subset, FS_CardinalityType
<1>4. PICK f : f = [n \in Live(N) |-> r[n]]
  OBVIOUS
<1>5. f \in Surjection(Live(N), 1..L.length)
  BY <1>4 DEF Ranking, Surjection
<1>6. Cardinality(1..L.length) <= Cardinality(Live(N))
  BY <1>3, <1>5, FS_Surjection
<1>7. Cardinality(1..L.length) = L.length
  <2>1. PICK n \in Nat : n = L.length
    BY <1>1
  <2>2. Cardinality(1..n) = IF 1 > n THEN 0 ELSE n - 1 + 1
    BY FS_Interval
  <2>3. QED BY <2>1, <2>2
<1>8. QED BY <1>1, <1>2, <1>3, <1>6, <1>7

-----------------------------------------------------------------------------
(* Iterations.                                                             *)

Iterates(f, n, d, g) == f[0] = d /\ \A k \in 1..n : f[k] = g[k][f[k - 1]]

LEMMA IterationFrom ==
  ASSUME NEW D, NEW d \in D, NEW g \in [Nat -> [D -> D]], NEW n \in Nat
  PROVE  \E f \in [0..n -> D] : Iterates(f, n, d, g)
BY IterationExists DEF Iterates

-----------------------------------------------------------------------------
(* The search.                                                             *)

(* The new node comes behind n, a node or the head.                        *)
Passed(n, object, score) == n = HeadNode \/ IsBefore(n, object, score)

(* What previous[] and rank[] of a level should be: the last node that has *)
(* the level and that the new one comes behind.                            *)
FoundOn(r, path, l, object, score) ==
  /\ path[l].previous \in Points(node) /\ Tall(node, path[l].previous, l)
  /\ path[l].rank = r[path[l].previous]
  /\ Passed(path[l].previous, object, score)
  /\ \A k \in Live(node) :
       Tall(node, k, l) /\ path[l].rank < r[k] => ~IsBefore(k, object, score)
  /\ l >= skip_list.level => path[l].previous = HeadNode

Paths == [Level -> [previous : Points(node), rank : Nat]]

SearchStates ==
  [at : Points(node), rank : Nat, level : -1..(skip_list.level - 1), path : Paths]

(* The states of the loops of SkipListInsert().                            *)
Searching(r, object, score) ==
  {t \in SearchStates :
     /\ t.rank = r[t.at] /\ Passed(t.at, object, score)
     /\ t.level >= 0 => Tall(node, t.at, t.level)
     /\ \A l \in Level : t.level < l => FoundOn(r, t.path, l, object, score)}

(* The nodes that come before a node that comes before the new one do too. *)
LEMMA BeforeIsDownward ==
  ASSUME NEW r, Fit(node, skip_list, r), NEW object \in Object, NEW score \in Score,
         NEW m \in Live(node), NEW n \in Live(node), r[m] <= r[n],
         IsBefore(n, object, score)
  PROVE  IsBefore(m, object, score)
<1>1. CASE r[m] = r[n]
  BY <1>1 DEF Fit, Ranking
<1>2. CASE r[m] # r[n]
  <2>1. ~Precedes(node, n, node[m].object, node[m].score)
    <3>1. r[m] \in Nat /\ r[n] \in Nat
      BY DEF Fit, Ranking, Live
    <3>2. r[m] < r[n]
      BY <1>2, <3>1
    <3>3. QED BY <3>2 DEF Fit, Sorted
  <2>2. /\ node[m].object \in Object /\ node[n].object \in Object
        /\ node[m].score \in Int /\ node[n].score \in Int
    BY SkipListAssumption DEF Fit, HeapType
  <2>3. PICK a \in Int, b \in Int, c \in Int :
          a = Name[node[m].object] /\ b = Name[node[n].object] /\ c = Name[object]
    BY <2>2, SkipListAssumption
  <2>4. PICK x \in Int, y \in Int, z \in Int :
          x = node[m].score /\ y = node[n].score /\ z = score
    BY <2>2, SkipListAssumption
  <2>5. ~(y < x \/ (y = x /\ b < a)) /\ (y < z \/ (y = z /\ b < c))
    BY <2>1, <2>3, <2>4 DEF Precedes, IsBefore
  <2>6. x < z \/ (x = z /\ a < c)
    BY <2>5
  <2>7. QED BY <2>3, <2>4, <2>6 DEF IsBefore
<1>3. QED BY <1>1, <1>2

(* A round keeps to the states of the search, and while levels are left it *)
(* gains a node or a level.                                                *)
LEMMA RoundAdvances ==
  ASSUME NEW r, Fit(node, skip_list, r), NEW object \in Object, NEW score \in Score,
         NEW t \in Searching(r, object, score)
  PROVE  /\ SearchRound(t, object, score) \in Searching(r, object, score)
         /\ t.level >= 0 =>
              r[SearchRound(t, object, score).at] - SearchRound(t, object, score).level
                >= r[t.at] - t.level + 1
<1> DEFINE l == t.level
           n == t.at
           next == node[n].forward[l]
           u == SearchRound(t, object, score)
<1>1. /\ t \in SearchStates /\ t.rank = r[n] /\ Passed(n, object, score)
      /\ l >= 0 => Tall(node, n, l)
      /\ \A i \in Level : l < i => FoundOn(r, t.path, i, object, score)
  BY DEF Searching
<1>2. /\ n \in Points(node) /\ t.rank \in Nat /\ t.path \in Paths
      /\ l \in -1..(skip_list.level - 1) /\ l \in Int
      /\ t = [at |-> n, rank |-> t.rank, level |-> l, path |-> t.path]
  BY <1>1 DEF SearchStates
<1>3. skip_list \in SkipLists /\ HeapType(node, skip_list) /\ Ranking(node, skip_list, r)
  BY DEF Fit
<1>4. skip_list.level \in 1..SKIP_LIST_MAX_LEVEL /\ skip_list.level \in Int
  BY <1>3, SkipListAssumption DEF SkipLists
<1>5. /\ r[HeadNode] = 0 /\ r[n] \in Nat /\ \A k \in Live(node) : r[k] \in Nat
  BY <1>2, <1>3 DEF Ranking, Points, Live
<1>6. CASE l < 0
  BY <1>6, <1>2 DEF SearchRound
<1>7. CASE l >= 0 /\ next # NULL /\ IsBefore(next, object, score)
  <2>1. l \in Level /\ Tall(node, n, l) /\ l < skip_list.level
    <3>1. l \in Level
      BY <1>1, <1>2, <1>3, <1>7, NodeLevels
    <3>2. QED BY <1>1, <1>2, <1>4, <1>7, <3>1
  <2>2. Threaded(node, skip_list, r, n, l)
    BY <1>2, <2>1 DEF Fit, AllThreaded
  <2>3. /\ next \in Live(node) /\ Tall(node, next, l) /\ r[n] < r[next]
        /\ node[n].span[l] = r[next] - r[n]
    BY <1>7, <2>1, <2>2 DEF Threaded
  <2>4. u = [at |-> next, rank |-> r[next], level |-> l, path |-> t.path]
    <3>1. ~(l < 0)
      BY <1>2, <1>7
    <3>2. t.rank + node[n].span[l] = r[next]
      BY <1>1, <1>5, <2>3
    <3>3. u = [t EXCEPT !.at = next, !.rank = @ + node[t.at].span[t.level]]
      BY <1>7, <3>1 DEF SearchRound
    <3>4. QED BY <1>2, <3>2, <3>3
  <2>5. next \in Points(node) /\ r[next] \in Nat /\ Passed(next, object, score)
    BY <1>5, <1>7, <2>3 DEF Points, Passed
  <2>6. u \in SearchStates
    BY <1>2, <2>4, <2>5 DEF SearchStates
  <2>7. u \in Searching(r, object, score)
    <3>1. u.rank = r[u.at] /\ Passed(u.at, object, score)
      BY <2>4, <2>5
    <3>2. u.level >= 0 => Tall(node, u.at, u.level)
      BY <2>3, <2>4
    <3>3. \A i \in Level : u.level < i => FoundOn(r, u.path, i, object, score)
      BY <1>1, <2>4
    <3>4. QED BY <2>6, <3>1, <3>2, <3>3 DEF Searching
  <2>8. r[u.at] - u.level >= r[n] - l + 1
    <3>1. u.at = next /\ u.level = l
      BY <2>4
    <3>2. r[next] \in Nat /\ r[n] \in Nat /\ r[n] < r[next] /\ l \in Int
      BY <1>2, <1>5, <2>3, <2>5
    <3>3. QED BY <3>1, <3>2
  <2>9. QED BY <2>7, <2>8
<1>8. CASE l >= 0 /\ ~(next # NULL /\ IsBefore(next, object, score))
  <2>1. l \in Level /\ Tall(node, n, l) /\ l < skip_list.level
    <3>1. l \in Level
      BY <1>1, <1>2, <1>3, <1>8, NodeLevels
    <3>2. QED BY <1>1, <1>2, <1>4, <1>8, <3>1
  <2>2. Threaded(node, skip_list, r, n, l)
    BY <1>2, <2>1 DEF Fit, AllThreaded
  <2>3. PICK path : path = [t.path EXCEPT ![l] = [previous |-> n, rank |-> t.rank]]
    OBVIOUS
  <2>4. u = [at |-> n, rank |-> t.rank, level |-> l - 1, path |-> path]
    <3>1. ~(l < 0)
      BY <1>2, <1>8
    <3>2. u = [t EXCEPT !.path[t.level] = [previous |-> t.at, rank |-> t.rank],
                        !.level = @ - 1]
      BY <1>8, <3>1 DEF SearchRound
    <3>3. QED BY <1>2, <2>3, <3>2
  <2>5. /\ path \in Paths /\ path[l] = [previous |-> n, rank |-> t.rank]
        /\ \A i \in Level : i # l => path[i] = t.path[i]
    BY <1>2, <2>1, <2>3 DEF Paths
  <2>6. u \in SearchStates
    <3>1. l - 1 \in -1..(skip_list.level - 1)
      BY <1>2, <1>4, <1>8
    <3>2. QED BY <1>2, <2>4, <2>5, <3>1 DEF SearchStates
  <2>7. FoundOn(r, path, l, object, score)
    <3>1. path[l].previous = n /\ path[l].rank = r[n]
      BY <1>1, <2>5
    <3>2. ASSUME NEW k \in Live(node), Tall(node, k, l), r[n] < r[k],
                 IsBefore(k, object, score)
          PROVE  FALSE
      <4>1. PICK m \in Live(node) :
              node[n].forward[l] = m /\ r[m] <= r[k]
        <5>1. ~(r[k] <= r[n])
          BY <1>5, <3>2
        <5>2. QED BY <2>2, <3>2, <5>1 DEF Threaded
      <4>2. IsBefore(m, object, score)
        BY <3>2, <4>1, BeforeIsDownward
      <4>3. m # NULL
        BY <4>1, SkipListAssumption DEF Live
      <4>4. QED BY <1>8, <4>1, <4>2, <4>3
    <3>3. ~(l >= skip_list.level)
      BY <1>2, <1>4, <2>1
    <3>4. QED BY <1>1, <1>2, <2>1, <3>1, <3>2, <3>3 DEF FoundOn
  <2>8. u \in Searching(r, object, score)
    <3>1. u.rank = r[u.at] /\ Passed(u.at, object, score)
      BY <1>1, <2>4
    <3>2. u.level >= 0 => Tall(node, u.at, u.level)
      <4>1. ASSUME l - 1 >= 0 PROVE Tall(node, n, l - 1)
        <5>1. l # 0
          BY <1>2, <4>1
        <5>2. QED BY <1>2, <1>3, <2>1, <5>1, NodeLevels
      <4>2. QED BY <2>4, <4>1
    <3>3. ASSUME NEW i \in Level, l - 1 < i
          PROVE  FoundOn(r, path, i, object, score)
      <4>1. CASE i = l
        BY <2>7, <4>1
      <4>2. CASE i # l
        <5>1. l < i
          BY <1>2, <3>3, <4>2 DEF Level
        <5>2. path[i] = t.path[i] /\ FoundOn(r, t.path, i, object, score)
          BY <1>1, <2>5, <4>2, <5>1
        <5>3. QED BY <5>2 DEF FoundOn
      <4>3. QED BY <4>1, <4>2
    <3>4. u.level = l - 1 /\ u.path = path
      BY <2>4
    <3>5. QED BY <2>6, <3>1, <3>2, <3>3, <3>4 DEF Searching
  <2>9. r[u.at] - u.level >= r[n] - l + 1
    <3>1. u.at = n /\ u.level = l - 1
      BY <2>4
    <3>2. QED BY <1>2, <1>5, <3>1
  <2>10. QED BY <2>8, <2>9
<1>9. QED
  <2>1. l < 0 \/ l >= 0
    BY <1>2
  <2>2. QED BY <1>6, <1>7, <1>8, <2>1

(* The search ends on every level at the last node that the new one comes  *)
(* behind.                                                                 *)
LEMMA SearchFinds ==
  ASSUME NEW r, Fit(node, skip_list, r), NEW object \in Object, NEW score \in Score
  PROVE  /\ Search(object, score) \in Paths
         /\ \A l \in Level : FoundOn(r, Search(object, score), l, object, score)
<1> DEFINE D == Searching(r, object, score)
           start == [at |-> HeadNode, rank |-> 0, level |-> skip_list.level - 1,
                     path |-> [l \in Level |-> [previous |-> HeadNode, rank |-> 0]]]
           round == [k \in Nat |-> [t \in D |-> SearchRound(t, object, score)]]
<1>1. skip_list \in SkipLists /\ HeapType(node, skip_list) /\ Ranking(node, skip_list, r)
  BY DEF Fit
<1>2. PICK top \in Nat, max \in Nat :
        top = skip_list.level - 1 /\ max = SKIP_LIST_MAX_LEVEL /\ top < max
  BY <1>1, SkipListAssumption DEF SkipLists
<1>3. start \in D
  <2>1. /\ start.at = HeadNode /\ start.rank = 0 /\ start.level = top
        /\ \A l \in Level : start.path[l] = [previous |-> HeadNode, rank |-> 0]
    BY <1>2
  <2>2. start \in SearchStates
    <3>1. HeadNode \in Points(node) /\ top \in -1..top /\ 0 \in Nat
      BY DEF Points
    <3>2. [l \in Level |-> [previous |-> HeadNode, rank |-> 0]] \in Paths
      BY <3>1 DEF Paths
    <3>3. QED BY <1>2, <3>1, <3>2 DEF SearchStates
  <2>3. r[HeadNode] = 0 /\ Passed(HeadNode, object, score) /\ HeadNode \in Points(node)
    BY <1>1 DEF Ranking, Passed, Points
  <2>4. \A l \in Level : Tall(node, HeadNode, l)
    BY <1>1, NodeLevels
  <2>5. top \in Level
    BY <1>2 DEF Level
  <2>6. ASSUME NEW l \in Level, top < l
        PROVE  FoundOn(r, start.path, l, object, score)
    <3>1. ASSUME NEW k \in Live(node), Tall(node, k, l) PROVE FALSE
      <4>1. l < skip_list.level
        BY <1>1, <3>1, NodeLevels
      <4>2. l \in Int /\ skip_list.level \in Int
        BY <1>1, SkipListAssumption DEF SkipLists, Level
      <4>3. QED BY <1>2, <2>6, <4>1, <4>2
    <3>2. start.path[l].previous = HeadNode /\ start.path[l].rank = 0
      BY <2>1
    <3> HIDE DEF start
    <3>3. QED BY <2>3, <2>4, <3>1, <3>2 DEF FoundOn
  <2> HIDE DEF start
  <2>7. QED BY <2>1, <2>2, <2>3, <2>4, <2>5, <2>6 DEF Searching
<1>4. round \in [Nat -> [D -> D]]
  BY RoundAdvances
<1>5. PICK M \in Nat : M = Cardinality(Node) + SKIP_LIST_MAX_LEVEL
  BY SkipListAssumption, FS_CardinalityType
<1>6. PICK h \in [0..M -> D] :
        h[0] = start /\ \A k \in 1..M : h[k] = round[k][h[k - 1]]
  <2> HIDE DEF D, start, round
  <2>1. PICK E, s, g : E = D /\ s = start /\ g = round
    OBVIOUS
  <2>2. s \in E /\ g \in [Nat -> [E -> E]]
    BY <1>3, <1>4, <2>1
  <2>3. PICK h \in [0..M -> E] : Iterates(h, M, s, g)
    BY <1>5, <2>2, IterationFrom
  <2>4. h[0] = s /\ \A k \in 1..M : h[k] = g[k][h[k - 1]]
    BY <2>3 DEF Iterates
  <2>5. QED BY <2>1, <2>3, <2>4
<1>7. \A k \in 1..M : h[k - 1] \in D /\ h[k] = SearchRound(h[k - 1], object, score)
  <2> SUFFICES ASSUME NEW k \in 1..M
               PROVE  h[k - 1] \in D /\ h[k] = SearchRound(h[k - 1], object, score)
    OBVIOUS
  <2>1. k \in Nat /\ k - 1 \in 0..M
    BY <1>5
  <2>2. h[k - 1] \in D /\ h[k] = round[k][h[k - 1]]
    <3> HIDE DEF D, round
    <3> QED BY <1>6, <2>1
  <2>3. QED BY <2>1, <2>2
<1> HIDE DEF D, round
<1> DEFINE search[k \in 0..M] ==
             IF k = 0 THEN start ELSE SearchRound(search[k - 1], object, score)
<1>8. h = [k \in 0..M |-> IF k = 0 THEN start ELSE SearchRound(h[k - 1], object, score)]
  <2>1. ASSUME NEW k \in 0..M
        PROVE  h[k] = IF k = 0 THEN start ELSE SearchRound(h[k - 1], object, score)
    <3>1. CASE k = 0
      BY <1>6, <3>1
    <3>2. CASE k # 0
      <4>1. k \in 1..M
        BY <1>5, <3>2
      <4>2. QED BY <1>7, <3>2, <4>1
    <3>3. QED BY <3>1, <3>2
  <2> HIDE DEF start
  <2>2. QED BY <1>6, <2>1
<1>9. search = [k \in 0..M |-> IF k = 0 THEN start ELSE SearchRound(search[k - 1], object, score)]
  <2> HIDE DEF start
  <2> QED BY <1>8, Zenon
<1>10. Search(object, score) = search[M].path
  BY <1>5 DEF Search
<1> HIDE DEF search, start
(* Both are the same iteration.                                            *)
<1>11. \A k \in 0..M : search[k] = h[k]
  <2> DEFINE S == {k \in Nat : k <= M => search[k] = h[k]}
  <2>1. 0 \in S
    <3>1. 0 \in 0..M
      BY <1>5
    <3>2. search[0] = start
      BY <1>9, <3>1
    <3>3. QED BY <1>6, <3>2
  <2>2. ASSUME NEW k \in S PROVE k + 1 \in S
    <3>1. k \in Nat /\ k + 1 \in Nat /\ (k <= M => search[k] = h[k])
      OBVIOUS
    <3>2. ASSUME k + 1 <= M PROVE search[k + 1] = h[k + 1]
      <4>1. k + 1 \in 1..M /\ k + 1 \in 0..M /\ k + 1 # 0 /\ (k + 1) - 1 = k /\ k <= M
        BY <1>5, <3>1, <3>2
      <4>2. search[k + 1] = SearchRound(search[k], object, score)
        BY <1>9, <4>1
      <4>3. h[k + 1] = SearchRound(h[k], object, score)
        BY <1>7, <4>1
      <4>4. QED BY <3>1, <4>1, <4>2, <4>3
    <3>3. QED BY <3>1, <3>2
  <2>3. S \in SUBSET Nat
    OBVIOUS
  <2>4. S = Nat
    <3> HIDE DEF S
    <3> QED BY <2>1, <2>2, <2>3, NaturalInduction
  <2>5. \A k \in 0..M : k \in S /\ k <= M
    <3>1. \A k \in 0..M : k \in Nat /\ k <= M
      BY <1>5
    <3> HIDE DEF S
    <3>2. QED BY <2>4, <3>1
  <2>6. QED BY <2>5
(* After k rounds the search is over or has come k nodes or levels far.    *)
<1>12. h[M].level < 0
  <2> DEFINE Gained(k) == k <= M => h[k].level < 0 \/ k <= r[h[k].at] + (top - h[k].level)
             S == {k \in Nat : Gained(k)}
  <2>0. ASSUME NEW k \in 0..M
        PROVE  /\ h[k] \in D /\ h[k].level \in Int /\ h[k].level <= top
               /\ r[h[k].at] \in Nat /\ r[h[k].at] <= skip_list.length
    <3>1. h[k] \in D
      BY <1>6
    <3>2. h[k] \in SearchStates
      BY <3>1 DEF D, Searching
    <3>3. h[k].at \in Points(node) /\ h[k].level \in -1..top
      BY <1>2, <3>2 DEF SearchStates
    <3>4. r[h[k].at] \in Nat /\ r[h[k].at] <= skip_list.length
      <4>1. skip_list.length \in Nat
        BY <1>1 DEF SkipLists
      <4>2. r[HeadNode] = 0 /\ \A n \in Live(node) : r[n] \in 1..skip_list.length
        BY <1>1 DEF Ranking
      <4>3. QED BY <3>3, <4>1, <4>2 DEF Points
    <3>5. QED BY <1>2, <3>1, <3>3, <3>4
  <2>1. 0 \in S
    <3>1. 0 \in 0..M
      BY <1>5
    <3>2. h[0].level <= top /\ h[0].level \in Int /\ r[h[0].at] \in Nat
      BY <2>0, <3>1
    <3>3. 0 <= r[h[0].at] + (top - h[0].level)
      BY <1>2, <3>2
    <3>4. QED BY <3>3
  <2>2. ASSUME NEW k \in S PROVE k + 1 \in S
    <3>1. k \in Nat /\ Gained(k)
      OBVIOUS
    <3> HIDE DEF S
    <3>2. ASSUME k + 1 <= M PROVE Gained(k + 1)
      <4>1. k + 1 \in 1..M /\ k + 1 \in 0..M /\ (k + 1) - 1 = k /\ k <= M /\ k \in 0..M
        BY <1>5, <3>1, <3>2
      <4>2. h[k] \in D /\ h[k + 1] = SearchRound(h[k], object, score)
        BY <1>7, <4>1
      <4>3. h[k].level >= 0 => r[h[k + 1].at] - h[k + 1].level >= r[h[k].at] - h[k].level + 1
        BY <4>2, RoundAdvances DEF D
      <4>4. h[k].level < 0 => h[k + 1].level < 0
        BY <4>2 DEF SearchRound
      <4>5. PICK a \in Int, b \in Int, c \in Int, d \in Int :
              /\ a = h[k].level /\ b = h[k + 1].level
              /\ c = r[h[k].at] /\ d = r[h[k + 1].at]
        <5>1. /\ h[k].level \in Int /\ h[k + 1].level \in Int
              /\ r[h[k].at] \in Int /\ r[h[k + 1].at] \in Int
          BY <2>0, <4>1
        <5>2. QED BY <5>1
      <4>6. a < 0 \/ k <= c + (top - a)
        BY <3>1, <4>1, <4>5
      <4>7. /\ a < 0 => b < 0
            /\ a >= 0 => d - b >= c - a + 1
        BY <4>3, <4>4, <4>5
      <4>8. ASSUME ~(b < 0) PROVE k + 1 <= d + (top - b)
        <5>1. ~(a < 0) /\ d - b >= c - a + 1 /\ k <= c + (top - a)
          BY <4>6, <4>7, <4>8
        <5>2. top \in Int /\ k \in Int
          BY <1>2, <3>1
        <5>3. QED BY <5>1, <5>2
      <4>9. QED BY <4>5, <4>8
    <3>3. Gained(k + 1)
      BY <3>2
    <3>4. QED BY <3>1, <3>3 DEF S
  <2>3. S = Nat
    <3>1. S \in SUBSET Nat
      OBVIOUS
    <3> HIDE DEF S
    <3>2. QED BY <2>1, <2>2, <3>1, NaturalInduction
  <2>4. Gained(M)
    <3>1. M \in S
      <4> HIDE DEF S
      <4> QED BY <1>5, <2>3
    <3>2. QED BY <3>1
  <2>5. M \in 0..M
    BY <1>5
  <2>6. h[M].level < 0 \/ M <= r[h[M].at] + (top - h[M].level)
    BY <2>4, <2>5
  <2>7. PICK a \in Int, c \in Nat, n \in Nat, size \in Nat :
          /\ a = h[M].level /\ c = r[h[M].at]
          /\ n = skip_list.length /\ size = Cardinality(Node)
    <3>1. h[M].level \in Int /\ r[h[M].at] \in Nat
      BY <2>0, <2>5
    <3>2. skip_list.length \in Nat /\ Cardinality(Node) \in Nat
      BY <1>1, LengthBound
    <3>3. QED BY <3>1, <3>2
  <2>8. c <= n /\ n <= size /\ M = size + max
    BY <1>1, <1>2, <1>5, <2>0, <2>5, <2>7, LengthBound
  <2>9. a < 0 \/ M <= c + (top - a)
    BY <2>6, <2>7
  <2>10. a < 0
    BY <1>2, <2>8, <2>9
  <2>11. QED BY <2>7, <2>10
<1>13. /\ h[M].path \in Paths
       /\ \A l \in Level : FoundOn(r, h[M].path, l, object, score)
  <2>1. M \in 0..M
    BY <1>5
  <2>2. h[M] \in Searching(r, object, score)
    BY <1>6, <2>1 DEF D
  <2>3. h[M] \in SearchStates
    BY <2>2 DEF Searching
  <2>4. h[M].path \in Paths /\ h[M].level \in Int
    BY <1>2, <2>3 DEF SearchStates
  <2>5. \A l \in Level : h[M].level < l
    BY <1>12, <2>4 DEF Level
  <2>6. QED BY <2>2, <2>4, <2>5 DEF Searching
<1>14. Search(object, score) = h[M].path
  <2>1. M \in 0..M
    BY <1>5
  <2>2. QED BY <1>10, <1>11, <2>1
<1>15. QED BY <1>13, <1>14

-----------------------------------------------------------------------------
(* The place of the new node.                                              *)

(* Its place is behind that of previous[0], and every level is cut there.  *)
Placed(r, path) ==
  /\ path \in Paths /\ path[0].rank \in 0..skip_list.length
  /\ \A l \in Level :
       /\ path[l].previous \in Points(node) /\ Tall(node, path[l].previous, l)
       /\ path[l].rank = r[path[l].previous] /\ path[l].rank \in 0..path[0].rank
       /\ \A k \in Live(node) :
            Tall(node, k, l) /\ path[l].rank < r[k] => path[0].rank < r[k]
       /\ l >= skip_list.level => path[l].previous = HeadNode

(* The nodes before it precede it, the others do not.                      *)
Split(r, path, object, score) ==
  \A k \in Live(node) : r[k] <= path[0].rank <=> IsBefore(k, object, score)

LEMMA SearchPlaces ==
  ASSUME NEW r, Fit(node, skip_list, r), NEW object \in Object, NEW score \in Score,
         NEW path, path = Search(object, score)
  PROVE  Placed(r, path) /\ Split(r, path, object, score)
<1>1. path \in Paths /\ \A l \in Level : FoundOn(r, path, l, object, score)
  BY SearchFinds
<1>2. skip_list \in SkipLists /\ HeapType(node, skip_list) /\ Ranking(node, skip_list, r)
  BY DEF Fit
<1>3. 0 \in Level
  BY SkipListAssumption DEF Level
<1>4. /\ skip_list.length \in Nat /\ r[HeadNode] = 0
      /\ \A n \in Live(node) : r[n] \in 1..skip_list.length /\ r[n] \in Nat
      /\ \A n \in Points(node) : r[n] \in 0..skip_list.length
  <2>1. skip_list.length \in Nat
    BY <1>2 DEF SkipLists
  <2>2. r[HeadNode] = 0 /\ \A n \in Live(node) : r[n] \in 1..skip_list.length
    BY <1>2 DEF Ranking
  <2>3. QED BY <2>1, <2>2 DEF Points
<1>5. PICK P \in 0..skip_list.length : P = path[0].rank /\ P = r[path[0].previous]
  BY <1>1, <1>3, <1>4 DEF FoundOn
<1>6. \A k \in Live(node) : P < r[k] => ~IsBefore(k, object, score)
  BY <1>1, <1>2, <1>3, <1>5, NodeLevels DEF FoundOn, Points
<1>7. ASSUME NEW k \in Live(node), r[k] <= P
      PROVE  IsBefore(k, object, score)
  <2>1. PICK p : p = path[0].previous /\ p \in Points(node) /\ Passed(p, object, score)
    BY <1>1, <1>3 DEF FoundOn
  <2>2. p # HeadNode
    BY <1>4, <1>5, <1>7, <2>1
  <2>3. p \in Live(node) /\ IsBefore(p, object, score) /\ r[k] <= r[p]
    BY <1>5, <1>7, <2>1, <2>2 DEF Points, Passed
  <2>4. QED BY <2>3, BeforeIsDownward
<1>8. Split(r, path, object, score)
  <2>1. \A k \in Live(node) : r[k] <= P \/ P < r[k]
    BY <1>4
  <2>2. QED BY <1>5, <1>6, <1>7, <2>1 DEF Split
<1>9. ASSUME NEW l \in Level
      PROVE  /\ path[l].rank \in 0..P
             /\ \A k \in Live(node) : Tall(node, k, l) /\ path[l].rank < r[k] => P < r[k]
  <2>1. PICK p : /\ p = path[l].previous /\ p \in Points(node) /\ path[l].rank = r[p]
                 /\ Passed(p, object, score)
    BY <1>1 DEF FoundOn
  <2>2. path[l].rank \in 0..P
    <3>1. CASE p = HeadNode
      BY <1>4, <2>1, <3>1
    <3>2. CASE p # HeadNode
      <4>1. p \in Live(node) /\ IsBefore(p, object, score)
        BY <2>1, <3>2 DEF Points, Passed
      <4>2. ~(P < r[p]) /\ r[p] \in Nat
        BY <1>4, <1>6, <4>1
      <4>3. QED BY <2>1, <4>2
    <3>3. QED BY <3>1, <3>2
  <2>3. ASSUME NEW k \in Live(node), Tall(node, k, l), path[l].rank < r[k]
        PROVE  P < r[k]
    <3>1. ~IsBefore(k, object, score)
      BY <1>1, <2>3 DEF FoundOn
    <3>2. ~(r[k] <= P) /\ r[k] \in Nat
      BY <1>4, <1>7, <3>1
    <3>3. QED BY <3>2
  <2>4. QED BY <2>2, <2>3
<1>10. QED BY <1>1, <1>5, <1>8, <1>9 DEF Placed, FoundOn

(* What is behind the new node on a level.                                 *)
Cut(r, path, l) ==
  \/ /\ node[path[l].previous].forward[l] = NULL
     /\ \A k \in Live(node) : Tall(node, k, l) => r[k] <= path[0].rank
     /\ OldSpan(path, l) = skip_list.length - path[l].rank
  \/ \E m \in Live(node) :
       /\ node[path[l].previous].forward[l] = m
       /\ Tall(node, m, l) /\ path[0].rank < r[m]
       /\ \A k \in Live(node) : Tall(node, k, l) /\ path[0].rank < r[k] => r[m] <= r[k]
       /\ OldSpan(path, l) = r[m] - path[l].rank

LEMMA LevelsAreCut ==
  ASSUME NEW r, Fit(node, skip_list, r), NEW path, Placed(r, path), NEW l \in Level
  PROVE  Cut(r, path, l)
<1>1. skip_list \in SkipLists /\ HeapType(node, skip_list) /\ Ranking(node, skip_list, r)
  BY DEF Fit
<1>2. PICK p : /\ p = path[l].previous /\ p \in Points(node) /\ Tall(node, p, l)
               /\ path[l].rank = r[p]
  BY DEF Placed
<1>3. PICK P \in Nat : P = path[0].rank /\ path[l].rank \in 0..P
  BY <1>1 DEF Placed, SkipLists
<1>4. /\ \A n \in Live(node) : r[n] \in Nat
      /\ r[HeadNode] = 0 /\ l \in Int /\ skip_list.level \in Int /\ skip_list.length \in Nat
  BY <1>1, SkipListAssumption DEF Ranking, Live, SkipLists, Level
<1>5. Threaded(node, skip_list, r, p, l)
  BY <1>2 DEF Fit, AllThreaded
<1>6. \A k \in Live(node) : Tall(node, k, l) => (r[p] < r[k] <=> P < r[k])
  <2>1. ASSUME NEW k \in Live(node), Tall(node, k, l)
        PROVE  r[p] < r[k] <=> P < r[k]
    <3>1. r[p] < r[k] => P < r[k]
      BY <1>2, <1>3, <2>1 DEF Placed
    <3>2. r[p] \in 0..P /\ r[k] \in Nat
      BY <1>2, <1>3, <1>4
    <3>3. QED BY <3>1, <3>2
  <2>2. QED BY <2>1
<1>7. CASE l < skip_list.level
  <2>1. OldSpan(path, l) = node[p].span[l]
    BY <1>2, <1>7 DEF OldSpan
  <2>2. CASE node[p].forward[l] = NULL
    <3>1. /\ \A k \in Live(node) : Tall(node, k, l) => r[k] <= r[p]
          /\ node[p].span[l] = skip_list.length - r[p]
      BY <1>5, <1>7, <2>2, SkipListAssumption DEF Threaded, Live
    <3>2. \A k \in Live(node) : Tall(node, k, l) => r[k] <= P
      BY <1>2, <1>3, <1>4, <3>1
    <3>3. QED BY <1>2, <1>3, <2>1, <2>2, <3>1, <3>2 DEF Cut
  <2>3. CASE node[p].forward[l] # NULL
    <3>1. PICK m \in Live(node) :
            /\ node[p].forward[l] = m
            /\ Tall(node, m, l) /\ r[p] < r[m]
            /\ \A k \in Live(node) : Tall(node, k, l) /\ r[p] < r[k] => r[m] <= r[k]
            /\ node[p].span[l] = r[m] - r[p]
      BY <1>5, <1>7, <2>3 DEF Threaded
    <3>2. /\ P < r[m]
          /\ \A k \in Live(node) : Tall(node, k, l) /\ P < r[k] => r[m] <= r[k]
      BY <1>6, <3>1
    <3>3. QED BY <1>2, <1>3, <2>1, <3>1, <3>2 DEF Cut
  <2>4. QED BY <2>2, <2>3
<1>8. CASE ~(l < skip_list.level)
  <2>1. \A k \in Live(node) : ~Tall(node, k, l)
    BY <1>1, <1>8, NodeLevels
  <2>2. p = HeadNode
    BY <1>2, <1>4, <1>8 DEF Placed
  <2>3. node[p].forward[l] = NULL
    BY <1>5, <2>1 DEF Threaded
  <2>4. OldSpan(path, l) = skip_list.length - path[l].rank
    <3>1. OldSpan(path, l) = skip_list.length /\ path[l].rank = 0
      BY <1>2, <1>4, <1>8, <2>2 DEF OldSpan
    <3>2. QED BY <1>4, <3>1
  <2>5. QED BY <1>2, <2>1, <2>3, <2>4 DEF Cut
<1>9. QED BY <1>7, <1>8

-----------------------------------------------------------------------------
(* The ranks after an insertion.                                           *)

(* The new node comes behind place P, and those behind it come one later.  *)
Shifted(r, new, P) ==
  [n \in Node \cup {HeadNode} |->
     IF n = new THEN P + 1 ELSE IF r[n] > P THEN r[n] + 1 ELSE r[n]]

(* What is known of the new ranks s.                                       *)
Shifts(N, L, r, s, new, P) ==
  /\ s[new] = P + 1 /\ s[HeadNode] = 0 /\ r[HeadNode] = 0
  /\ \A k \in Points(N) :
       /\ k # new /\ k \in Node \cup {HeadNode}
       /\ r[k] \in 0..L.length
       /\ s[k] = IF r[k] > P THEN r[k] + 1 ELSE r[k]
       /\ k # HeadNode => r[k] # 0
  /\ \A j, k \in Points(N) : r[j] = r[k] => j = k

LEMMA ShiftedRanks ==
  ASSUME NEW N, NEW L, L \in SkipLists, NEW r, Ranking(N, L, r),
         NEW new \in Node, new \notin Live(N), NEW P \in 0..L.length,
         NEW s, s = Shifted(r, new, P)
  PROVE  /\ s \in [Node \cup {HeadNode} -> Nat]
         /\ Shifts(N, L, r, s, new, P)
<1>1. L.length \in Nat /\ P \in Nat
  BY DEF SkipLists
<1>2. /\ HeadNode \notin Node /\ r \in [Node \cup {HeadNode} -> Nat] /\ r[HeadNode] = 0
      /\ \A n \in Live(N) : r[n] \in 1..L.length
      /\ \A m, n \in Live(N) : r[m] = r[n] => m = n
  BY SkipListAssumption DEF Ranking
<1>3. s \in [Node \cup {HeadNode} -> Nat]
  BY <1>1, <1>2 DEF Shifted
<1>4. s[new] = P + 1 /\ s[HeadNode] = 0
  BY <1>1, <1>2 DEF Shifted
<1>5. ASSUME NEW k \in Points(N)
      PROVE  /\ k # new /\ k \in Node \cup {HeadNode}
             /\ r[k] \in 0..L.length
             /\ s[k] = IF r[k] > P THEN r[k] + 1 ELSE r[k]
             /\ k # HeadNode => r[k] # 0
  <2>1. k # new /\ k \in Node \cup {HeadNode}
    BY <1>2 DEF Points, Live
  <2>2. r[k] \in 0..L.length /\ (k # HeadNode => r[k] # 0)
    BY <1>1, <1>2 DEF Points
  <2>3. QED BY <2>1, <2>2 DEF Shifted
<1>6. ASSUME NEW j \in Points(N), NEW k \in Points(N), r[j] = r[k]
      PROVE  j = k
  BY <1>2, <1>6 DEF Points
<1>7. QED BY <1>2, <1>3, <1>4, <1>5, <1>6 DEF Shifts

(* The order of the nodes that were there is the same.                     *)
LEMMA ShiftKeepsOrder ==
  ASSUME NEW N, NEW L, NEW r, NEW s, NEW new, NEW P \in Nat, L.length \in Nat,
         Shifts(N, L, r, s, new, P), NEW j \in Points(N), NEW k \in Points(N)
  PROVE  /\ s[j] \in Nat /\ (s[j] < s[k] <=> r[j] < r[k])
         /\ (s[j] <= s[k] <=> r[j] <= r[k])
         /\ (s[j] = s[k] <=> r[j] = r[k])
<1>1. PICK a \in Nat, b \in Nat : a = r[j] /\ b = r[k]
  BY DEF Shifts
<1>2. /\ s[j] = IF a > P THEN a + 1 ELSE a
      /\ s[k] = IF b > P THEN b + 1 ELSE b
  BY <1>1 DEF Shifts
<1>3. QED BY <1>1, <1>2

LEMMA ShiftedRanking ==
  ASSUME NEW N, NEW L, L \in SkipLists, NEW r, Ranking(N, L, r),
         NEW new \in Node, new \notin Live(N), NEW P \in 0..L.length,
         NEW s, s = Shifted(r, new, P),
         NEW M, Live(M) = Live(N) \cup {new}, NEW K, K.length = L.length + 1
  PROVE  Ranking(M, K, s)
<1>1. L.length \in Nat /\ P \in Nat
  BY DEF SkipLists
<1>2. s \in [Node \cup {HeadNode} -> Nat] /\ Shifts(N, L, r, s, new, P)
  BY ShiftedRanks
<1>3. Live(N) \subseteq Points(N) /\ HeadNode \notin Live(N)
  BY SkipListAssumption DEF Points, Live
<1>4. ASSUME NEW n \in Live(M) PROVE s[n] \in 1..K.length
  <2>1. CASE n = new
    BY <1>1, <1>2, <2>1 DEF Shifts
  <2>2. CASE n # new
    <3>1. n \in Live(N) /\ n \in Points(N) /\ n # HeadNode
      BY <1>3, <2>2
    <3>2. PICK a \in 1..L.length : a = r[n] /\ s[n] = IF a > P THEN a + 1 ELSE a
      BY <1>1, <1>2, <3>1 DEF Shifts
    <3>3. QED BY <1>1, <3>2
  <2>3. QED BY <2>1, <2>2
<1>5. ASSUME NEW i \in 1..K.length PROVE \E n \in Live(M) : s[n] = i
  <2>1. CASE i = P + 1
    BY <1>2, <2>1 DEF Shifts
  <2>2. CASE i # P + 1
    <3>1. PICK j \in 1..L.length : j = IF i > P + 1 THEN i - 1 ELSE i
      <4>1. (IF i > P + 1 THEN i - 1 ELSE i) \in 1..L.length
        BY <1>1, <2>2
      <4>2. QED BY <4>1
    <3>2. PICK n \in Live(N) : r[n] = j
      BY DEF Ranking
    <3>3. s[n] = IF j > P THEN j + 1 ELSE j
      BY <1>2, <1>3, <3>2 DEF Shifts
    <3>4. s[n] = i
      BY <1>1, <2>2, <3>1, <3>3
    <3>5. QED BY <3>2, <3>4
  <2>3. QED BY <2>1, <2>2
<1>6. ASSUME NEW m \in Live(N) PROVE s[m] # s[new]
  <2>1. PICK a \in Nat : a = r[m] /\ s[m] = IF a > P THEN a + 1 ELSE a
    BY <1>2, <1>3 DEF Shifts
  <2>2. s[new] = P + 1
    BY <1>2 DEF Shifts
  <2>3. QED BY <1>1, <2>1, <2>2
<1>7. ASSUME NEW m \in Live(N), NEW n \in Live(N), s[m] = s[n] PROVE m = n
  <2>1. m \in Points(N) /\ n \in Points(N)
    BY <1>3
  <2>2. r[m] = r[n]
    BY <1>1, <1>2, <1>7, <2>1, ShiftKeepsOrder
  <2>3. QED BY <1>2, <2>1, <2>2 DEF Shifts
<1>8. \A m, n \in Live(M) : s[m] = s[n] => m = n
  BY <1>6, <1>7
<1>9. s[HeadNode] = 0
  BY <1>2 DEF Shifts
<1>10. QED BY <1>2, <1>4, <1>5, <1>8, <1>9 DEF Ranking

-----------------------------------------------------------------------------
(* What an insertion does to the heap.                                     *)

Behind0(path) == node[path[0].previous].forward[0]

(* The nodes that were there keep what they hold; their links change where *)
(* they are the previous node of a level.                                  *)
KeepsNode(M, path, new, level, n) ==
  /\ M[n].object = node[n].object /\ M[n].score = node[n].score
  /\ M[n].backward = IF n = Behind0(path) THEN new ELSE node[n].backward
  /\ \A l : Tall(M, n, l) <=> Tall(node, n, l)
  /\ \A l : Tall(node, n, l) =>
       /\ M[n].forward[l] =
            IF path[l].previous = n /\ l < level THEN new ELSE node[n].forward[l]
       /\ M[n].span[l] =
            IF path[l].previous = n /\ (l < level \/ l < skip_list.level)
            THEN NewSpan(path, l, level) ELSE node[n].span[l]
  /\ \A h \in 1..SKIP_LIST_MAX_LEVEL :
       node[n] \in SkipListNode(h) => M[n] \in SkipListNode(h)

MakesNode(M, path, object, score, new, level) ==
  /\ M[new] \in SkipListNode(level)
  /\ M[new].object = object /\ M[new].score = score
  /\ M[new].backward = Backward(path)
  /\ \A l : Tall(M, new, l) <=> l \in 0..(level - 1)
  /\ \A l \in 0..(level - 1) :
       /\ M[new].forward[l] = node[path[l].previous].forward[l]
       /\ M[new].span[l] = OldSpan(path, l) - path[0].rank + path[l].rank

Adds(M, path, object, score, new, level) ==
  /\ new \notin Live(node) /\ Live(M) = Live(node) \cup {new}
  /\ MakesNode(M, path, object, score, new, level)
  /\ \A n \in Points(node) : KeepsNode(M, path, new, level, n)

LEMMA HigherLevel ==
  ASSUME NEW a \in Nat, NEW b \in Nat
  PROVE  Max({a, b}) = IF a < b THEN b ELSE a
<1>1. PICK c \in Nat : c = IF a < b THEN b ELSE a
  OBVIOUS
<1>2. {a, b} \in SUBSET (0..c) /\ {a, b} # {}
  BY <1>1
<1>3. PICK m : m = Max({a, b}) /\ m \in {a, b} /\ \A y \in {a, b} : y <= m
  BY <1>1, <1>2, MaxIsGreatest
<1>4. QED BY <1>3

(* The old and the new spans are naturals.                                 *)
LEMMA SpansAreNat ==
  ASSUME NEW r, Fit(node, skip_list, r), NEW path, Placed(r, path), NEW l \in Level,
         NEW level \in 1..SKIP_LIST_MAX_LEVEL
  PROVE  /\ OldSpan(path, l) - path[0].rank + path[l].rank \in Nat
         /\ NewSpan(path, l, level) \in Nat
         /\ node[path[l].previous].forward[l] \in Node \cup {NULL}
<1>1. skip_list \in SkipLists /\ HeapType(node, skip_list) /\ Ranking(node, skip_list, r)
  BY DEF Fit
<1>2. PICK length \in Nat : length = skip_list.length
  BY <1>1 DEF SkipLists
<1>3. PICK P \in 0..length : P = path[0].rank
  BY <1>2 DEF Placed
<1>10. PICK R \in 0..P : R = path[l].rank
  BY <1>3 DEF Placed
<1>4. PICK span \in Nat : span = OldSpan(path, l) /\ P - R <= span
  <2>1. Cut(r, path, l)
    BY LevelsAreCut
  <2>2. CASE OldSpan(path, l) = skip_list.length - path[l].rank
    <3>1. length - R \in Nat /\ P - R <= length - R
      BY <1>2, <1>3, <1>10
    <3>2. QED BY <1>2, <1>10, <2>2, <3>1
  <2>3. CASE \E m \in Live(node) : path[0].rank < r[m] /\ OldSpan(path, l) = r[m] - path[l].rank
    <3>1. PICK m \in Live(node) : P < r[m] /\ OldSpan(path, l) = r[m] - R
      BY <1>3, <1>10, <2>3
    <3>2. r[m] \in Nat
      BY <1>1 DEF Ranking, Live
    <3>3. r[m] - R \in Nat /\ P - R <= r[m] - R
      BY <1>2, <1>3, <1>10, <3>1, <3>2
    <3>4. QED BY <3>1, <3>3
  <2>4. QED BY <2>1, <2>2, <2>3 DEF Cut
<1>5. span - P + R \in Nat /\ P + 1 - R \in Nat /\ span + 1 \in Nat
  BY <1>2, <1>3, <1>10, <1>4
<1>6. NewSpan(path, l, level) \in {P + 1 - R, span + 1}
  BY <1>3, <1>10, <1>4 DEF NewSpan
<1>7. path[l].previous \in Points(node) /\ Tall(node, path[l].previous, l)
  BY DEF Placed
<1>8. node[path[l].previous].forward[l] \in Node \cup {NULL}
  BY <1>1, <1>7, NodeLevels
<1>9. QED BY <1>3, <1>10, <1>4, <1>5, <1>6, <1>8

LEMMA InsertMakes ==
  ASSUME NEW r, Fit(node, skip_list, r), NEW path, Placed(r, path),
         NEW object \in Object, NEW score \in Score, NEW new \in Node,
         NEW level \in 1..SKIP_LIST_MAX_LEVEL,
         NEW M, M[new] = Inserted(path, object, score, level)
  PROVE  MakesNode(M, path, object, score, new, level)
<1>1. PICK top \in Nat : top = level - 1 /\ 0..top \subseteq Level
  BY SkipListAssumption DEF Level
<1>2. DOMAIN [l \in 0..(level - 1) |-> NULL] = 0..(level - 1)
  OBVIOUS
<1>3. PICK forward, span :
        /\ forward = [l \in 0..(level - 1) |-> node[path[l].previous].forward[l]]
        /\ span = [l \in 0..(level - 1) |-> OldSpan(path, l) - path[0].rank + path[l].rank]
  OBVIOUS
<1>4. M[new] = [object |-> object, score |-> score, forward |-> forward, span |-> span,
                backward |-> Backward(path)]
  BY <1>3 DEF Inserted, NewNode
<1>5. \A l \in 0..(level - 1) : forward[l] \in Node \cup {NULL} /\ span[l] \in Nat
  <2>1. \A l \in 0..(level - 1) : l \in Level
    BY <1>1
  <2>2. QED BY <1>3, <2>1, SpansAreNat
<1>6. Backward(path) \in Node \cup {HeadNode, NULL}
  <2>1. 0 \in Level
    BY SkipListAssumption DEF Level
  <2>2. path[0].previous \in Points(node)
    BY <2>1 DEF Placed
  <2>3. QED BY <2>2 DEF Backward, Points, Live
<1>7. M[new] \in SkipListNode(level)
  <2>1. /\ forward \in [0..(level - 1) -> Node \cup {NULL}]
        /\ span \in [0..(level - 1) -> Nat]
    BY <1>3, <1>5
  <2>2. score \in Int
    BY SkipListAssumption
  <2>3. QED BY <1>4, <1>6, <2>1, <2>2 DEF SkipListNode
<1>8. \A l : Tall(M, new, l) <=> l \in 0..(level - 1)
  BY <1>3, <1>4 DEF Tall
<1>9. \A l \in 0..(level - 1) :
       /\ M[new].forward[l] = node[path[l].previous].forward[l]
       /\ M[new].span[l] = OldSpan(path, l) - path[0].rank + path[l].rank
  BY <1>3, <1>4
<1>10. QED BY <1>4, <1>7, <1>8, <1>9 DEF MakesNode

LEMMA InsertKeeps ==
  ASSUME NEW r, Fit(node, skip_list, r), NEW path, Placed(r, path), NEW new \in Node,
         NEW level \in 1..SKIP_LIST_MAX_LEVEL, NEW n \in Points(node),
         NEW M, M[n] = Relinked(n, path, new, level)
  PROVE  KeepsNode(M, path, new, level, n)
<1>1. skip_list \in SkipLists /\ HeapType(node, skip_list) /\ Ranking(node, skip_list, r)
  BY DEF Fit
<1>2. PICK top \in Nat, max \in Nat :
        /\ top = skip_list.level /\ max = SKIP_LIST_MAX_LEVEL /\ level \in 1..max
        /\ level \in Nat
  BY <1>1, SkipListAssumption DEF SkipLists
<1>3. PICK h \in 1..max : node[n] \in SkipListNode(h)
  <2>1. CASE n = HeadNode
    <3>1. max \in 1..max
      BY <1>2
    <3>2. QED BY <1>1, <1>2, <2>1, <3>1 DEF HeapType
  <2>2. CASE n # HeadNode
    <3>1. n \in Live(node)
      BY <2>2 DEF Points
    <3>2. PICK i \in 1..top : node[n] \in SkipListNode(i)
      BY <1>1, <1>2, <3>1 DEF HeapType
    <3>3. i \in 1..max
      BY <1>1, <1>2 DEF SkipLists
    <3>4. QED BY <3>2, <3>3
  <2>3. QED BY <2>1, <2>2
<1>4. PICK changed : changed = {l \in DOMAIN node[n].forward :
                    path[l].previous = n /\ l < Max({level, skip_list.level})}
  OBVIOUS
<1>5. PICK forward, span, backward :
        /\ forward = [l \in DOMAIN node[n].forward |->
                        IF l \in changed /\ l < level THEN new ELSE node[n].forward[l]]
        /\ span = [l \in DOMAIN node[n].span |->
                     IF l \in changed THEN NewSpan(path, l, level) ELSE node[n].span[l]]
        /\ backward = IF n = Behind0(path) THEN new ELSE node[n].backward
  OBVIOUS
<1>6. M[n] = [node[n] EXCEPT !.forward = forward, !.span = span, !.backward = backward]
  BY <1>4, <1>5 DEF Relinked, Behind0
<1>7. /\ node[n] = [object |-> node[n].object, score |-> node[n].score,
                    forward |-> node[n].forward, span |-> node[n].span,
                    backward |-> node[n].backward]
      /\ node[n].forward \in [0..(h - 1) -> Node \cup {NULL}]
      /\ node[n].span \in [0..(h - 1) -> Nat]
      /\ node[n].object \in Object \cup {NULL} /\ node[n].score \in Int
      /\ node[n].backward \in Node \cup {HeadNode, NULL}
  BY <1>3 DEF SkipListNode
<1>8. M[n] = [object |-> node[n].object, score |-> node[n].score, forward |-> forward,
              span |-> span, backward |-> backward]
  BY <1>6, <1>7
<1>9. DOMAIN forward = DOMAIN node[n].forward
  BY <1>5
<1>10. \A l : Tall(M, n, l) <=> Tall(node, n, l)
  BY <1>8, <1>9 DEF Tall
<1>11. \A l : Tall(node, n, l) <=> l \in 0..(h - 1)
  BY <1>7 DEF Tall
<1>12. \A l \in 0..(h - 1) :
         l \in changed <=> path[l].previous = n /\ (l < level \/ l < skip_list.level)
  <2>1. Max({level, top}) = IF level < top THEN top ELSE level
    BY <1>2, HigherLevel
  <2>2. \A l \in 0..(h - 1) : l < Max({level, skip_list.level}) <=> l < level \/ l < skip_list.level
    BY <1>2, <2>1
  <2>3. DOMAIN node[n].forward = 0..(h - 1)
    BY <1>7
  <2>4. QED BY <1>4, <2>2, <2>3
<1>13. ASSUME NEW l, Tall(node, n, l)
       PROVE  /\ M[n].forward[l] =
                   IF path[l].previous = n /\ l < level THEN new ELSE node[n].forward[l]
              /\ M[n].span[l] =
                   IF path[l].previous = n /\ (l < level \/ l < skip_list.level)
                   THEN NewSpan(path, l, level) ELSE node[n].span[l]
  <2>1. l \in 0..(h - 1) /\ l \in DOMAIN node[n].forward /\ l \in DOMAIN node[n].span
    BY <1>7, <1>11, <1>13
  <2>2. l \in changed <=> path[l].previous = n /\ (l < level \/ l < skip_list.level)
    BY <1>12, <2>1
  <2>3. M[n].forward[l] = forward[l] /\ M[n].span[l] = span[l]
    BY <1>8
  <2>4. forward[l] = IF l \in changed /\ l < level THEN new ELSE node[n].forward[l]
    BY <1>5, <2>1
  <2>5. span[l] = IF l \in changed THEN NewSpan(path, l, level) ELSE node[n].span[l]
    BY <1>5, <2>1
  <2>6. QED BY <2>2, <2>3, <2>4, <2>5
<1>14. ASSUME NEW i \in 1..SKIP_LIST_MAX_LEVEL, node[n] \in SkipListNode(i)
       PROVE  M[n] \in SkipListNode(i)
  <2>1. 0..(h - 1) \subseteq Level
    BY <1>2 DEF Level
  <2>2. \A l \in 0..(h - 1) : NewSpan(path, l, level) \in Nat
    BY <2>1, SpansAreNat
  <2>3. DOMAIN node[n].forward = 0..(h - 1) /\ DOMAIN node[n].span = 0..(h - 1)
    BY <1>7
  <2>4. \A l \in 0..(h - 1) : node[n].forward[l] \in Node \cup {NULL} /\ node[n].span[l] \in Nat
    BY <1>7
  <2>5. /\ forward \in [0..(h - 1) -> Node \cup {NULL}]
        /\ span \in [0..(h - 1) -> Nat]
    BY <1>5, <2>2, <2>3, <2>4
  <2>6. backward \in Node \cup {HeadNode, NULL}
    BY <1>5, <1>7
  <2>7. 0..(h - 1) = 0..(i - 1)
    <3>1. DOMAIN node[n].forward = 0..(i - 1)
      BY <1>14 DEF SkipListNode
    <3>2. QED BY <2>3, <3>1
  <2>8. QED BY <1>7, <1>8, <2>5, <2>6, <2>7 DEF SkipListNode
<1>15. /\ M[n].object = node[n].object /\ M[n].score = node[n].score
       /\ M[n].backward = IF n = Behind0(path) THEN new ELSE node[n].backward
  BY <1>5, <1>8
<1>16. QED BY <1>10, <1>13, <1>14, <1>15 DEF KeepsNode

(* The heap that an insertion leaves.                                      *)
LEMMA InsertAdds ==
  ASSUME NEW r, Fit(node, skip_list, r), NEW path, Placed(r, path),
         NEW object \in Object, NEW score \in Score, NEW new \in Node, node[new] = NULL,
         NEW level \in 1..SKIP_LIST_MAX_LEVEL, DOMAIN node = Node \cup {HeadNode},
         NEW M,
         M = [n \in DOMAIN node |->
                IF n = new THEN Inserted(path, object, score, level)
                ELSE IF node[n] = NULL THEN NULL ELSE Relinked(n, path, new, level)]
  PROVE  Adds(M, path, object, score, new, level)
<1>1. skip_list \in SkipLists /\ HeapType(node, skip_list)
  BY DEF Fit
<1>2. new \notin Live(node) /\ new # HeadNode /\ node[HeadNode] # NULL
  <2>1. node[HeadNode] \in SkipListNode(SKIP_LIST_MAX_LEVEL)
    BY <1>1 DEF HeapType
  <2>2. SKIP_LIST_MAX_LEVEL \in 1..SKIP_LIST_MAX_LEVEL
    BY SkipListAssumption
  <2>3. QED BY <2>1, <2>2, SkipListAssumption, NullAssumption DEF Live
<1>3. MakesNode(M, path, object, score, new, level)
  <2>1. M[new] = Inserted(path, object, score, level)
    OBVIOUS
  <2>2. QED BY <2>1, InsertMakes
<1>4. ASSUME NEW n \in Points(node) PROVE KeepsNode(M, path, new, level, n)
  <2>1. n \in DOMAIN node /\ n # new /\ node[n] # NULL
    BY <1>2 DEF Points, Live
  <2>2. M[n] = Relinked(n, path, new, level)
    BY <2>1
  <2>3. QED BY <2>2, InsertKeeps
<1>5. ASSUME NEW n \in Live(node) PROVE M[n] # NULL
  <2>1. n \in Points(node)
    BY DEF Points
  <2>2. PICK h \in 1..SKIP_LIST_MAX_LEVEL : node[n] \in SkipListNode(h)
    <3>1. PICK h \in 1..skip_list.level : node[n] \in SkipListNode(h)
      BY <1>1 DEF HeapType
    <3>2. h \in 1..SKIP_LIST_MAX_LEVEL
      BY <1>1, SkipListAssumption DEF SkipLists
    <3>3. QED BY <3>1, <3>2
  <2>3. M[n] \in SkipListNode(h)
    BY <1>4, <2>1, <2>2 DEF KeepsNode
  <2>4. QED BY <2>3, NullAssumption
<1>6. M[new] # NULL
  BY <1>3, NullAssumption DEF MakesNode
<1>7. ASSUME NEW n \in Node, n # new, n \notin Live(node) PROVE M[n] = NULL
  BY <1>7 DEF Live
<1>8. Live(M) = Live(node) \cup {new}
  <2>1. \A n \in Node : M[n] # NULL <=> n \in Live(node) \/ n = new
    BY <1>5, <1>6, <1>7
  <2>2. Live(node) \subseteq Node
    BY DEF Live
  <2>3. QED BY <2>1, <2>2 DEF Live
<1>9. QED BY <1>2, <1>3, <1>4, <1>8 DEF Adds

-----------------------------------------------------------------------------
(* The parts of Fit after an insertion.                                    *)

(* What is known when new is put behind place P, with list K and heap M.   *)
Inserting(r, s, path, P, M, K, object, score, new, level) ==
  /\ Fit(node, skip_list, r) /\ Placed(r, path) /\ Split(r, path, object, score)
  /\ Adds(M, path, object, score, new, level)
  /\ P = path[0].rank /\ P \in 0..skip_list.length /\ P \in Nat /\ skip_list.length \in Nat
  /\ Shifts(node, skip_list, r, s, new, P)
  /\ object \in Object /\ score \in Score
  /\ new \in Node /\ level \in 1..SKIP_LIST_MAX_LEVEL
  /\ K.length = skip_list.length + 1
  /\ K.level = IF level < skip_list.level THEN skip_list.level ELSE level
  /\ K.tail = IF Behind0(path) = NULL THEN new ELSE skip_list.tail

(* The nodes on a level.                                                   *)
LEMMA TallAfter ==
  ASSUME NEW M, NEW path, NEW object, NEW score, NEW new,
         NEW level \in 1..SKIP_LIST_MAX_LEVEL, Adds(M, path, object, score, new, level)
  PROVE  /\ \A n \in Points(node), l \in Level : Tall(M, n, l) <=> Tall(node, n, l)
         /\ \A l \in Level : Tall(M, new, l) <=> l < level
         /\ \A n \in Live(M) : n = new \/ n \in Live(node)
         /\ \A n \in Points(M) : n = new \/ n \in Points(node)
         /\ new \in Live(M) /\ Live(node) \subseteq Live(M)
         /\ new \notin Points(node) \/ new = HeadNode
<1>1. \A n \in Points(node), l \in Level : Tall(M, n, l) <=> Tall(node, n, l)
  BY DEF Adds, KeepsNode
<1>2. \A l \in Level : Tall(M, new, l) <=> l \in 0..(level - 1)
  BY DEF Adds, MakesNode
<1>3. \A l \in Level : l \in 0..(level - 1) <=> l < level
  BY SkipListAssumption DEF Level
<1>4. QED BY <1>1, <1>2, <1>3 DEF Adds, Points

(* The links of the new node.                                              *)
LEMMA NewIsThreaded ==
  ASSUME NEW r, NEW s, NEW path, NEW P, NEW M, NEW K, NEW object, NEW score, NEW new,
         NEW level, Inserting(r, s, path, P, M, K, object, score, new, level),
         NEW l \in Level, l < level
  PROVE  Threaded(M, K, s, new, l)
<1>1. /\ Fit(node, skip_list, r) /\ Placed(r, path) /\ P = path[0].rank
      /\ Adds(M, path, object, score, new, level)
      /\ Shifts(node, skip_list, r, s, new, P) /\ P \in Nat
      /\ level \in 1..SKIP_LIST_MAX_LEVEL /\ skip_list.length \in Nat
      /\ K.length = skip_list.length + 1
  BY DEF Inserting
<1>2. Cut(r, path, l)
  BY <1>1, LevelsAreCut
<1>3. PICK R \in 0..P : R = path[l].rank
  BY <1>1 DEF Placed
<1>4. /\ M[new].forward[l] = node[path[l].previous].forward[l]
      /\ M[new].span[l] = OldSpan(path, l) - P + R
  <2>1. l \in 0..(level - 1)
    BY <1>1, SkipListAssumption DEF Level
  <2>2. QED BY <1>1, <1>3, <2>1 DEF Adds, MakesNode
<1>5. s[new] = P + 1
  BY <1>1 DEF Shifts
<1>6. ASSUME NEW k \in Live(node)
      PROVE  /\ r[k] \in Nat /\ s[k] = IF r[k] > P THEN r[k] + 1 ELSE r[k]
  BY <1>1 DEF Shifts, Points
<1>7. ASSUME NEW k \in Live(M), k # new PROVE k \in Live(node)
  BY <1>1, <1>7, TallAfter
<1>8. ASSUME NEW k \in Live(node), Tall(M, k, l) PROVE Tall(node, k, l)
  BY <1>1, <1>8, TallAfter DEF Points
<1>9. CASE /\ node[path[l].previous].forward[l] = NULL
           /\ \A k \in Live(node) : Tall(node, k, l) => r[k] <= P
           /\ OldSpan(path, l) = skip_list.length - R
  <2>1. ASSUME NEW k \in Live(M), Tall(M, k, l) PROVE s[k] <= s[new]
    <3>1. CASE k = new
      BY <1>1, <1>5, <3>1
    <3>2. CASE k # new
      <4>1. k \in Live(node) /\ r[k] <= P
        BY <1>7, <1>8, <1>9, <2>1, <3>2
      <4>2. QED BY <1>1, <1>5, <1>6, <4>1
    <3>3. QED BY <3>1, <3>2
  <2>2. M[new].span[l] = K.length - s[new]
    <3>1. M[new].span[l] = (skip_list.length - R) - P + R
      BY <1>4, <1>9
    <3>2. QED BY <1>1, <1>3, <1>5, <3>1
  <2>3. QED BY <1>4, <1>9, <2>1, <2>2 DEF Threaded
<1>10. CASE \E m \in Live(node) :
             /\ node[path[l].previous].forward[l] = m
             /\ Tall(node, m, l) /\ P < r[m]
             /\ \A k \in Live(node) : Tall(node, k, l) /\ P < r[k] => r[m] <= r[k]
             /\ OldSpan(path, l) = r[m] - R
  <2>1. PICK m \in Live(node) :
             /\ node[path[l].previous].forward[l] = m
             /\ Tall(node, m, l) /\ P < r[m]
             /\ \A k \in Live(node) : Tall(node, k, l) /\ P < r[k] => r[m] <= r[k]
             /\ OldSpan(path, l) = r[m] - R
    BY <1>10
  <2>2. m \in Live(M) /\ Tall(M, m, l) /\ M[new].forward[l] = m
    BY <1>1, <1>4, <2>1, TallAfter DEF Points
  <2>3. r[m] \in Nat /\ s[m] = r[m] + 1
    BY <1>1, <1>6, <2>1
  <2>4. s[new] < s[m]
    BY <1>1, <1>5, <2>1, <2>3
  <2>5. ASSUME NEW k \in Live(M), Tall(M, k, l), s[new] < s[k] PROVE s[m] <= s[k]
    <3>1. k # new
      BY <1>1, <1>5, <2>5
    <3>2. k \in Live(node) /\ Tall(node, k, l)
      BY <1>7, <1>8, <2>5, <3>1
    <3>3. P < r[k]
      BY <1>1, <1>5, <1>6, <2>5, <3>2
    <3>4. r[m] <= r[k]
      BY <2>1, <3>2, <3>3
    <3>5. QED BY <1>1, <1>6, <2>3, <3>2, <3>3, <3>4
  <2>6. M[new].span[l] = s[m] - s[new]
    <3>1. M[new].span[l] = (r[m] - R) - P + R
      BY <1>4, <2>1
    <3>2. QED BY <1>1, <1>3, <1>5, <2>3, <3>1
  <2>7. QED BY <2>2, <2>4, <2>5, <2>6 DEF Threaded
<1>11. QED BY <1>1, <1>2, <1>3, <1>9, <1>10 DEF Cut

(* The links of the previous node of a level.                              *)
LEMMA PreviousIsThreaded ==
  ASSUME NEW r, NEW s, NEW path, NEW P, NEW M, NEW K, NEW object, NEW score, NEW new,
         NEW level, Inserting(r, s, path, P, M, K, object, score, new, level),
         NEW l \in Level, NEW n \in Points(node), n = path[l].previous
  PROVE  Threaded(M, K, s, n, l)
<1>1. /\ Fit(node, skip_list, r) /\ Placed(r, path) /\ P = path[0].rank
      /\ Adds(M, path, object, score, new, level)
      /\ Shifts(node, skip_list, r, s, new, P) /\ P \in Nat
      /\ level \in 1..SKIP_LIST_MAX_LEVEL /\ skip_list.length \in Nat
      /\ K.length = skip_list.length + 1
      /\ K.level = IF level < skip_list.level THEN skip_list.level ELSE level
  BY DEF Inserting
<1>2. Cut(r, path, l)
  BY <1>1, LevelsAreCut
<1>3. PICK R \in 0..P : R = path[l].rank /\ R = r[n] /\ Tall(node, n, l)
  <2>1. path[l].rank \in 0..P /\ path[l].rank = r[n] /\ Tall(node, n, l)
    BY <1>1 DEF Placed
  <2>2. QED BY <2>1
<1>4. /\ M[n].forward[l] = IF l < level THEN new ELSE node[n].forward[l]
      /\ M[n].span[l] = IF l < level \/ l < skip_list.level
                        THEN NewSpan(path, l, level) ELSE node[n].span[l]
  <2>1. KeepsNode(M, path, new, level, n)
    BY <1>1 DEF Adds
  <2>2. QED BY <1>3, <2>1 DEF KeepsNode
<1>5. s[n] = R /\ s[new] = P + 1
  BY <1>1, <1>3 DEF Shifts
<1>6. ASSUME NEW k \in Live(node)
      PROVE  /\ r[k] \in Nat /\ s[k] = IF r[k] > P THEN r[k] + 1 ELSE r[k]
  BY <1>1 DEF Shifts, Points
<1>7. ASSUME NEW k \in Live(M), k # new PROVE k \in Live(node)
  BY <1>1, <1>7, TallAfter
<1>8. ASSUME NEW k \in Live(node) PROVE Tall(M, k, l) <=> Tall(node, k, l)
  BY <1>1, <1>8, TallAfter DEF Points
<1>9. new \in Live(M) /\ (Tall(M, new, l) <=> l < level)
  BY <1>1, TallAfter
<1>10. ASSUME NEW k \in Live(node), Tall(node, k, l), R < r[k] PROVE P < r[k]
  BY <1>1, <1>3, <1>10 DEF Placed
<1>11. CASE l < level
  <2>1. M[n].forward[l] = new /\ Tall(M, new, l) /\ s[n] < s[new]
    BY <1>1, <1>3, <1>4, <1>5, <1>9, <1>11
  <2>2. ASSUME NEW k \in Live(M), Tall(M, k, l), s[n] < s[k] PROVE s[new] <= s[k]
    <3>1. CASE k = new
      BY <1>1, <1>5, <3>1
    <3>2. CASE k # new
      <4>1. k \in Live(node) /\ Tall(node, k, l)
        BY <1>7, <1>8, <2>2, <3>2
      <4>2. R < r[k]
        BY <1>1, <1>3, <1>5, <1>6, <2>2, <4>1
      <4>3. P < r[k]
        BY <1>10, <4>1, <4>2
      <4>4. QED BY <1>1, <1>5, <1>6, <4>1, <4>3
    <3>3. QED BY <3>1, <3>2
  <2>3. M[n].span[l] = s[new] - s[n]
    <3>1. M[n].span[l] = P + 1 - R
      BY <1>1, <1>3, <1>4, <1>11 DEF NewSpan
    <3>2. QED BY <1>1, <1>3, <1>5, <3>1
  <2>4. QED BY <1>9, <2>1, <2>2, <2>3 DEF Threaded
<1>12. CASE ~(l < level)
  <2>1. /\ M[n].forward[l] = node[n].forward[l]
        /\ l < skip_list.level => M[n].span[l] = OldSpan(path, l) + 1
    BY <1>4, <1>12 DEF NewSpan
  <2>2. l < K.level => l < skip_list.level
    BY <1>1, <1>12
  <2>3. ASSUME NEW k \in Live(M), Tall(M, k, l)
        PROVE  k \in Live(node) /\ Tall(node, k, l)
    BY <1>7, <1>8, <1>9, <1>12, <2>3
  <2>4. CASE /\ node[n].forward[l] = NULL
             /\ \A k \in Live(node) : Tall(node, k, l) => r[k] <= P
             /\ OldSpan(path, l) = skip_list.length - R
    <3>1. ASSUME NEW k \in Live(M), Tall(M, k, l) PROVE s[k] <= s[n]
      <4>1. k \in Live(node) /\ Tall(node, k, l) /\ r[k] <= P
        BY <2>3, <2>4, <3>1
      <4>2. ~(P < r[k]) /\ r[k] \in Nat
        BY <1>1, <1>6, <4>1
      <4>3. ~(R < r[k])
        BY <1>10, <4>1, <4>2
      <4>4. QED BY <1>1, <1>3, <1>5, <1>6, <4>1, <4>2, <4>3
    <3>2. l < K.level => M[n].span[l] = K.length - s[n]
      <4>1. l < K.level => M[n].span[l] = (skip_list.length - R) + 1
        BY <2>1, <2>2, <2>4
      <4>2. QED BY <1>1, <1>3, <1>5, <4>1
    <3>3. QED BY <2>1, <2>4, <3>1, <3>2 DEF Threaded
  <2>5. CASE \E m \in Live(node) :
               /\ node[n].forward[l] = m
               /\ Tall(node, m, l) /\ P < r[m]
               /\ \A k \in Live(node) : Tall(node, k, l) /\ P < r[k] => r[m] <= r[k]
               /\ OldSpan(path, l) = r[m] - R
    <3>1. PICK m \in Live(node) :
               /\ node[n].forward[l] = m
               /\ Tall(node, m, l) /\ P < r[m]
               /\ \A k \in Live(node) : Tall(node, k, l) /\ P < r[k] => r[m] <= r[k]
               /\ OldSpan(path, l) = r[m] - R
      BY <2>5
    <3>2. m \in Live(M) /\ Tall(M, m, l) /\ M[n].forward[l] = m
      BY <1>1, <1>8, <2>1, <3>1, TallAfter
    <3>3. r[m] \in Nat /\ s[m] = r[m] + 1
      BY <1>1, <1>6, <3>1
    <3>4. s[n] < s[m]
      BY <1>1, <1>3, <1>5, <3>1, <3>3
    <3>5. ASSUME NEW k \in Live(M), Tall(M, k, l), s[n] < s[k] PROVE s[m] <= s[k]
      <4>1. k \in Live(node) /\ Tall(node, k, l)
        BY <2>3, <3>5
      <4>2. R < r[k]
        BY <1>1, <1>3, <1>5, <1>6, <3>5, <4>1
      <4>3. r[m] <= r[k] /\ P < r[k]
        BY <1>10, <3>1, <4>1, <4>2
      <4>4. QED BY <1>1, <1>6, <3>3, <4>1, <4>3
    <3>6. l < K.level => M[n].span[l] = s[m] - s[n]
      <4>1. l < K.level => M[n].span[l] = (r[m] - R) + 1
        BY <2>1, <2>2, <3>1
      <4>2. QED BY <1>3, <1>5, <3>3, <4>1
    <3>7. QED BY <3>2, <3>4, <3>5, <3>6 DEF Threaded
  <2>6. QED BY <1>1, <1>2, <1>3, <2>4, <2>5 DEF Cut
<1>13. QED BY <1>11, <1>12

(* The links of the other nodes.                                           *)
LEMMA OthersAreThreaded ==
  ASSUME NEW r, NEW s, NEW path, NEW P, NEW M, NEW K, NEW object, NEW score, NEW new,
         NEW level, Inserting(r, s, path, P, M, K, object, score, new, level),
         NEW l \in Level, NEW n \in Points(node), n # path[l].previous, Tall(node, n, l)
  PROVE  Threaded(M, K, s, n, l)
<1>1. /\ Fit(node, skip_list, r) /\ Placed(r, path) /\ P = path[0].rank
      /\ Adds(M, path, object, score, new, level)
      /\ Shifts(node, skip_list, r, s, new, P) /\ P \in Nat
      /\ level \in 1..SKIP_LIST_MAX_LEVEL /\ skip_list.length \in Nat
      /\ K.length = skip_list.length + 1
      /\ K.level = IF level < skip_list.level THEN skip_list.level ELSE level
  BY DEF Inserting
<1>2. skip_list \in SkipLists /\ HeapType(node, skip_list)
  BY <1>1 DEF Fit
<1> DEFINE p == path[l].previous
<1>3. PICK R \in 0..P :
        /\ p \in Points(node) /\ R = r[p] /\ Tall(node, p, l)
        /\ \A k \in Live(node) : Tall(node, k, l) /\ R < r[k] => P < r[k]
        /\ l >= skip_list.level => p = HeadNode
  <2>1. path[l].rank \in 0..P
    BY <1>1 DEF Placed
  <2>2. QED BY <1>1, <2>1 DEF Placed
<1> HIDE DEF p
<1>4. M[n].forward[l] = node[n].forward[l] /\ M[n].span[l] = node[n].span[l] /\ n # p
  <2>1. KeepsNode(M, path, new, level, n)
    BY <1>1 DEF Adds
  <2>2. QED BY <2>1 DEF KeepsNode, p
<1>5. PICK a \in Nat : a = r[n] /\ s[n] = IF a > P THEN a + 1 ELSE a
  BY <1>1 DEF Shifts
<1>6. ASSUME NEW k \in Live(node)
      PROVE  /\ r[k] \in Nat /\ s[k] = IF r[k] > P THEN r[k] + 1 ELSE r[k]
  BY <1>1 DEF Shifts, Points
<1>7. ASSUME NEW k \in Live(M), Tall(M, k, l), k # new
      PROVE  k \in Live(node) /\ Tall(node, k, l)
  BY <1>1, <1>7, TallAfter DEF Points
<1>8. ASSUME NEW k \in Live(node), Tall(node, k, l) PROVE k \in Live(M) /\ Tall(M, k, l)
  BY <1>1, <1>8, TallAfter DEF Points
<1>9. s[new] = P + 1
  BY <1>1 DEF Shifts
<1>10. a < R \/ a > P
  <2>1. CASE n = HeadNode
    <3>1. a = 0 /\ p # HeadNode
      BY <1>1, <1>4, <1>5, <2>1 DEF Shifts
    <3>2. R # 0
      BY <1>1, <1>3, <3>1 DEF Shifts
    <3>3. QED BY <1>1, <1>3, <3>1, <3>2
  <2>2. CASE n # HeadNode
    <3>1. n \in Live(node)
      BY <2>2 DEF Points
    <3>2. a # R
      BY <1>1, <1>3, <1>4, <1>5 DEF Shifts
    <3>3. R < a => P < a
      BY <1>3, <1>5, <3>1
    <3>4. QED BY <1>1, <1>3, <1>5, <3>2, <3>3
  <2>3. QED BY <2>1, <2>2
<1>11. l < skip_list.level
  <2>1. CASE n = HeadNode
    <3>1. p # HeadNode
      BY <1>4, <2>1
    <3>2. l \in Int /\ skip_list.level \in Int
      BY <1>2, SkipListAssumption DEF Level, SkipLists
    <3>3. QED BY <1>3, <3>1, <3>2
  <2>2. CASE n # HeadNode
    <3>1. n \in Live(node)
      BY <2>2 DEF Points
    <3>2. QED BY <1>2, <3>1, NodeLevels
  <2>3. QED BY <2>1, <2>2
<1>12. Threaded(node, skip_list, r, n, l)
  BY <1>1 DEF Fit, AllThreaded
<1>13. CASE node[n].forward[l] = NULL
  <2>1. /\ \A k \in Live(node) : Tall(node, k, l) => r[k] <= a
        /\ node[n].span[l] = skip_list.length - a
    BY <1>5, <1>11, <1>12, <1>13, SkipListAssumption DEF Threaded, Live
  <2>2. a > P
    <3>1. CASE p = HeadNode
      <4>1. R = 0
        BY <1>1, <1>3, <3>1 DEF Shifts
      <4>2. QED BY <1>5, <1>10, <4>1
    <3>2. CASE p # HeadNode
      <4>1. p \in Live(node)
        BY <1>3, <3>2 DEF Points
      <4>2. R <= a
        BY <1>3, <2>1, <4>1
      <4>3. QED BY <1>1, <1>3, <1>5, <1>10, <4>2
    <3>3. QED BY <3>1, <3>2
  <2>3. ASSUME NEW k \in Live(M), Tall(M, k, l) PROVE s[k] <= s[n]
    <3>1. CASE k = new
      BY <1>1, <1>5, <1>9, <2>2, <3>1
    <3>2. CASE k # new
      <4>1. k \in Live(node) /\ r[k] <= a
        BY <1>7, <2>1, <2>3, <3>2
      <4>2. QED BY <1>1, <1>5, <1>6, <2>2, <4>1
    <3>3. QED BY <3>1, <3>2
  <2>4. M[n].span[l] = K.length - s[n]
    <3>1. M[n].span[l] = skip_list.length - a /\ s[n] = a + 1
      BY <1>1, <1>4, <1>5, <2>1, <2>2
    <3>2. QED BY <1>1, <1>5, <3>1
  <2>5. QED BY <1>4, <1>13, <2>3, <2>4 DEF Threaded
<1>14. CASE node[n].forward[l] # NULL
  <2>1. PICK m \in Live(node) :
          /\ node[n].forward[l] = m
          /\ Tall(node, m, l) /\ a < r[m]
          /\ \A k \in Live(node) : Tall(node, k, l) /\ a < r[k] => r[m] <= r[k]
          /\ node[n].span[l] = r[m] - a
    BY <1>5, <1>11, <1>12, <1>14 DEF Threaded
  <2>2. m \in Live(M) /\ Tall(M, m, l) /\ M[n].forward[l] = m
    BY <1>4, <1>8, <2>1
  <2>3. PICK b \in Nat : b = r[m] /\ s[m] = IF b > P THEN b + 1 ELSE b
    BY <1>6
  <2>4. \/ a <= P /\ b <= P
        \/ a > P /\ b > P
    <3>1. CASE a < R
      <4>1. p \in Live(node)
        <5>1. p # HeadNode
          BY <1>1, <1>3, <1>5, <3>1 DEF Shifts
        <5>2. QED BY <1>3, <5>1 DEF Points
      <4>2. b <= R
        BY <1>3, <1>5, <2>1, <2>3, <3>1, <4>1
      <4>3. QED BY <1>1, <1>3, <1>5, <2>3, <3>1, <4>2
    <3>2. CASE a > P
      BY <1>1, <1>5, <2>1, <2>3, <3>2
    <3>3. QED BY <1>10, <3>1, <3>2
  <2>5. s[n] < s[m] /\ s[m] - s[n] = b - a
    BY <1>1, <1>5, <2>1, <2>3, <2>4
  <2>6. ASSUME NEW k \in Live(M), Tall(M, k, l), s[n] < s[k] PROVE s[m] <= s[k]
    <3>1. CASE k = new
      <4>1. ~(a > P)
        BY <1>1, <1>5, <1>9, <2>6, <3>1
      <4>2. QED BY <1>1, <1>5, <1>9, <2>3, <2>4, <3>1, <4>1
    <3>2. CASE k # new
      <4>1. k \in Live(node) /\ Tall(node, k, l)
        BY <1>7, <2>6, <3>2
      <4>2. PICK c \in Nat : c = r[k] /\ s[k] = IF c > P THEN c + 1 ELSE c
        BY <1>6, <4>1
      <4>3. a < c
        BY <1>1, <1>5, <2>6, <4>2
      <4>4. b <= c
        BY <2>1, <2>3, <4>1, <4>2, <4>3
      <4>5. QED BY <1>1, <2>3, <4>2, <4>4
    <3>3. QED BY <3>1, <3>2
  <2>7. M[n].span[l] = s[m] - s[n]
    BY <1>4, <2>1, <2>3, <2>5
  <2>8. QED BY <2>2, <2>5, <2>6, <2>7 DEF Threaded
<1>15. QED BY <1>13, <1>14

LEMMA InsertThreads ==
  ASSUME NEW r, NEW s, NEW path, NEW P, NEW M, NEW K, NEW object, NEW score, NEW new,
         NEW level, Inserting(r, s, path, P, M, K, object, score, new, level)
  PROVE  AllThreaded(M, K, s)
<1>1. Adds(M, path, object, score, new, level) /\ level \in 1..SKIP_LIST_MAX_LEVEL
  BY DEF Inserting
<1>2. ASSUME NEW n \in Points(M), NEW l \in Level, Tall(M, n, l)
      PROVE  Threaded(M, K, s, n, l)
  <2>1. CASE n = new
    <3>1. l < level
      BY <1>1, <1>2, <2>1, TallAfter
    <3>2. QED BY <2>1, <3>1, NewIsThreaded
  <2>2. CASE n # new
    <3>1. n \in Points(node) /\ Tall(node, n, l)
      BY <1>1, <1>2, <2>2, TallAfter
    <3>2. CASE n = path[l].previous
      BY <3>1, <3>2, PreviousIsThreaded
    <3>3. CASE n # path[l].previous
      BY <3>1, <3>3, OthersAreThreaded
    <3>4. QED BY <3>2, <3>3
  <2>3. QED BY <2>1, <2>2
<1>3. QED BY <1>2 DEF AllThreaded

(* What is behind the new node on level 0.                                 *)
LEMMA BehindOnLevelZero ==
  ASSUME NEW r, NEW s, NEW path, NEW P, NEW M, NEW K, NEW object, NEW score, NEW new,
         NEW level, Inserting(r, s, path, P, M, K, object, score, new, level)
  PROVE  /\ path[0].previous \in Points(node) /\ r[path[0].previous] = P
         /\ \/ Behind0(path) = NULL /\ \A k \in Live(node) : r[k] <= P
            \/ /\ Behind0(path) \in Live(node) /\ Behind0(path) # NULL
               /\ P < r[Behind0(path)]
               /\ \A k \in Live(node) : P < r[k] => r[Behind0(path)] <= r[k]
<1>1. /\ Fit(node, skip_list, r) /\ Placed(r, path) /\ P = path[0].rank
  BY DEF Inserting
<1>2. skip_list \in SkipLists /\ HeapType(node, skip_list) /\ 0 \in Level
  BY <1>1, SkipListAssumption DEF Fit, Level
<1>3. path[0].previous \in Points(node) /\ r[path[0].previous] = P
  BY <1>1, <1>2 DEF Placed
<1>4. \A k \in Live(node) : Tall(node, k, 0)
  BY <1>2, NodeLevels DEF Points
<1>5. Cut(r, path, 0)
  BY <1>1, <1>2, LevelsAreCut
<1>6. \A k \in Live(node) : k # NULL
  BY SkipListAssumption DEF Live
<1>7. QED BY <1>1, <1>3, <1>4, <1>5, <1>6 DEF Cut, Behind0

LEMMA InsertBacks ==
  ASSUME NEW r, NEW s, NEW path, NEW P, NEW M, NEW K, NEW object, NEW score, NEW new,
         NEW level, Inserting(r, s, path, P, M, K, object, score, new, level)
  PROVE  Backed(M, s)
<1>1. /\ Fit(node, skip_list, r) /\ Adds(M, path, object, score, new, level)
      /\ Shifts(node, skip_list, r, s, new, P) /\ P \in Nat
      /\ level \in 1..SKIP_LIST_MAX_LEVEL /\ skip_list.length \in Nat
  BY DEF Inserting
<1> DEFINE p == path[0].previous
           b == Behind0(path)
<1>2. p \in Points(node) /\ r[p] = P
  BY BehindOnLevelZero
<1>3. \/ b = NULL /\ \A k \in Live(node) : r[k] <= P
      \/ /\ b \in Live(node) /\ P < r[b]
         /\ \A k \in Live(node) : P < r[k] => r[b] <= r[k]
  BY BehindOnLevelZero
<1>4. M[new].backward = IF p = HeadNode THEN NULL ELSE p
  BY <1>1 DEF Adds, MakesNode, Backward
<1>5. \A n \in Live(node) : M[n].backward = IF n = b THEN new ELSE node[n].backward
  BY <1>1 DEF Adds, KeepsNode, Points
<1> HIDE DEF p, b
<1>6. ASSUME NEW k \in Live(node)
      PROVE  /\ r[k] \in Nat /\ r[k] # 0 /\ s[k] = IF r[k] > P THEN r[k] + 1 ELSE r[k]
             /\ k \in Points(node) /\ k # NULL /\ k # HeadNode
  <2>1. k \in Points(node) /\ k # NULL /\ k # HeadNode
    BY SkipListAssumption DEF Points, Live
  <2>2. QED BY <1>1, <2>1 DEF Shifts
<1>7. s[new] = P + 1 /\ r[HeadNode] = 0
  BY <1>1 DEF Shifts
<1>8. Live(M) = Live(node) \cup {new}
  BY <1>1 DEF Adds
<1>9. ASSUME NEW n \in Live(M), s[n] = 1 PROVE M[n].backward = NULL
  <2>1. CASE n = new
    <3>1. P = 0
      BY <1>1, <1>7, <1>9, <2>1
    <3>2. p = HeadNode
      BY <1>1, <1>2, <1>7, <3>1 DEF Shifts
    <3>3. QED BY <1>4, <2>1, <3>2
  <2>2. CASE n # new
    <3>1. n \in Live(node)
      BY <1>8, <2>2
    <3>2. r[n] = 1 /\ ~(P < r[n])
      BY <1>1, <1>6, <1>9, <3>1
    <3>3. n # b
      BY <1>3, <1>6, <3>1, <3>2
    <3>4. node[n].backward = NULL
      BY <1>1, <3>1, <3>2 DEF Fit, Backed
    <3>5. QED BY <1>5, <3>1, <3>3, <3>4
  <2>3. QED BY <2>1, <2>2
<1>10. ASSUME NEW n \in Live(M), NEW m \in Live(M), s[n] = s[m] + 1
       PROVE  M[n].backward = m
  <2>1. CASE n = new
    <3>1. s[m] = P /\ m # new
      <4>1. m # new
        BY <1>1, <1>7, <1>10, <2>1
      <4>2. m \in Live(node) /\ s[m] \in Nat
        BY <1>6, <1>8, <4>1
      <4>3. QED BY <1>1, <1>7, <1>10, <2>1, <4>1, <4>2
    <3>2. m \in Live(node)
      BY <1>8, <3>1
    <3>3. r[m] = P
      BY <1>1, <1>6, <3>1, <3>2
    <3>4. m = p
      BY <1>1, <1>2, <1>6, <3>2, <3>3 DEF Shifts
    <3>5. QED BY <1>4, <1>6, <2>1, <3>2, <3>4
  <2>2. CASE n # new /\ m = new
    <3>1. n \in Live(node)
      BY <1>8, <2>2
    <3>2. r[n] = P + 1
      BY <1>1, <1>6, <1>7, <1>10, <2>2, <3>1
    <3>3. b \in Live(node) /\ P < r[b] /\ r[b] <= r[n]
      BY <1>1, <1>3, <1>6, <3>1, <3>2
    <3>4. r[b] = r[n]
      BY <1>1, <1>6, <3>1, <3>2, <3>3
    <3>5. b = n
      BY <1>1, <1>6, <3>1, <3>3, <3>4 DEF Shifts
    <3>6. QED BY <1>5, <2>2, <3>1, <3>5
  <2>3. CASE n # new /\ m # new
    <3>1. n \in Live(node) /\ m \in Live(node)
      BY <1>8, <2>3
    <3>2. PICK x \in Nat, y \in Nat :
            /\ x = r[n] /\ y = r[m]
            /\ s[n] = IF x > P THEN x + 1 ELSE x
            /\ s[m] = IF y > P THEN y + 1 ELSE y
      BY <1>6, <3>1
    <3>3. x = y + 1
      BY <1>1, <1>10, <3>2
    <3>4. node[n].backward = m
      BY <1>1, <3>1, <3>2, <3>3 DEF Fit, Backed
    <3>5. ASSUME n = b PROVE FALSE
      <4>1. P < x
        BY <1>3, <1>6, <3>1, <3>2, <3>5
      <4>2. P < y
        BY <1>1, <1>10, <3>2, <3>3, <4>1
      <4>3. x <= y
        BY <1>3, <1>6, <3>1, <3>2, <3>5, <4>2
      <4>4. QED BY <3>2, <3>3, <4>3
    <3>6. QED BY <1>5, <3>1, <3>4, <3>5
  <2>4. QED BY <2>1, <2>2, <2>3
<1>11. QED BY <1>9, <1>10 DEF Backed

LEMMA InsertEnds ==
  ASSUME NEW r, NEW s, NEW path, NEW P, NEW M, NEW K, NEW object, NEW score, NEW new,
         NEW level, Inserting(r, s, path, P, M, K, object, score, new, level)
  PROVE  Ended(M, K, s)
<1>1. /\ Fit(node, skip_list, r) /\ Adds(M, path, object, score, new, level)
      /\ Shifts(node, skip_list, r, s, new, P) /\ P \in Nat /\ skip_list.length \in Nat
      /\ P \in 0..skip_list.length
      /\ K.length = skip_list.length + 1
      /\ K.tail = IF Behind0(path) = NULL THEN new ELSE skip_list.tail
  BY DEF Inserting
<1>2. \/ Behind0(path) = NULL /\ \A k \in Live(node) : r[k] <= P
      \/ /\ Behind0(path) \in Live(node) /\ Behind0(path) # NULL
         /\ P < r[Behind0(path)]
  BY BehindOnLevelZero
<1>3. ASSUME NEW k \in Live(node)
      PROVE  /\ r[k] \in Nat /\ r[k] <= skip_list.length
             /\ s[k] = IF r[k] > P THEN r[k] + 1 ELSE r[k]
  BY <1>1 DEF Shifts, Points
<1>4. ASSUME NEW n \in Live(M), s[n] = K.length PROVE K.tail = n
  <2>1. CASE n = new
    <3>1. P = skip_list.length
      BY <1>1, <1>4, <2>1 DEF Shifts
    <3>2. Behind0(path) = NULL
      BY <1>1, <1>2, <1>3, <3>1
    <3>3. QED BY <1>1, <2>1, <3>2
  <2>2. CASE n # new
    <3>1. n \in Live(node)
      BY <1>1, <2>2 DEF Adds
    <3>2. r[n] = skip_list.length /\ ~(r[n] <= P)
      BY <1>1, <1>3, <1>4, <3>1
    <3>3. skip_list.tail = n
      BY <1>1, <3>1, <3>2 DEF Fit, Ended
    <3>4. QED BY <1>1, <1>2, <3>1, <3>2, <3>3
  <2>3. QED BY <2>1, <2>2
<1>5. K.length # 0
  BY <1>1
<1>6. QED BY <1>4, <1>5 DEF Ended

LEMMA InsertSorts ==
  ASSUME NEW r, NEW s, NEW path, NEW P, NEW M, NEW K, NEW object, NEW score, NEW new,
         NEW level, Inserting(r, s, path, P, M, K, object, score, new, level)
  PROVE  Sorted(M, s)
<1>1. /\ Fit(node, skip_list, r) /\ Adds(M, path, object, score, new, level)
      /\ Shifts(node, skip_list, r, s, new, P) /\ P \in Nat /\ skip_list.length \in Nat
      /\ Split(r, path, object, score) /\ P = path[0].rank
      /\ object \in Object /\ score \in Score
  BY DEF Inserting
<1>2. /\ M[new].object = object /\ M[new].score = score
      /\ \A n \in Live(node) : M[n].object = node[n].object /\ M[n].score = node[n].score
  BY <1>1 DEF Adds, MakesNode, KeepsNode, Points
<1>3. ASSUME NEW k \in Live(node)
      PROVE  /\ r[k] \in Nat /\ k \in Points(node)
             /\ s[k] = IF r[k] > P THEN r[k] + 1 ELSE r[k]
             /\ node[k].object \in Object /\ node[k].score \in Score
  <2>1. k \in Points(node)
    BY DEF Points
  <2>2. QED BY <1>1, <2>1 DEF Shifts, Fit, HeapType
<1>4. s[new] = P + 1
  BY <1>1 DEF Shifts
<1>5. ASSUME NEW m \in Live(M), NEW n \in Live(M), s[m] < s[n]
      PROVE  ~Precedes(M, n, M[m].object, M[m].score)
  <2>1. CASE n = new /\ m = new
    BY <1>1, <1>4, <1>5, <2>1
  <2>2. CASE n = new /\ m # new
    <3>1. m \in Live(node)
      BY <1>1, <2>2 DEF Adds
    <3>2. r[m] <= P
      BY <1>1, <1>3, <1>4, <1>5, <2>2, <3>1
    <3>3. IsBefore(m, object, score)
      BY <1>1, <3>1, <3>2 DEF Split
    <3>4. PICK x \in Int, y \in Int, a \in Int, c \in Int :
            /\ x = node[m].score /\ y = score
            /\ a = Name[node[m].object] /\ c = Name[object]
      <4>1. /\ node[m].score \in Int /\ score \in Int
            /\ Name[node[m].object] \in Int /\ Name[object] \in Int
        BY <1>1, <1>3, <3>1, SkipListAssumption
      <4>2. QED BY <4>1
    <3>5. x < y \/ (x = y /\ a < c)
      BY <3>3, <3>4 DEF IsBefore
    <3>6. ~(y < x \/ (y = x /\ c < a))
      BY <3>5
    <3>7. M[n].score = y /\ M[m].score = x /\ Name[M[n].object] = c /\ Name[M[m].object] = a
      BY <1>2, <2>2, <3>1, <3>4
    <3>8. QED BY <3>6, <3>7 DEF Precedes
  <2>3. CASE n # new /\ m = new
    <3>1. n \in Live(node)
      BY <1>1, <2>3 DEF Adds
    <3>2. ~(r[n] <= P)
      BY <1>1, <1>3, <1>4, <1>5, <2>3, <3>1
    <3>3. ~IsBefore(n, object, score)
      BY <1>1, <3>1, <3>2 DEF Split
    <3>4. M[n].score = node[n].score /\ M[n].object = node[n].object
      BY <1>2, <3>1
    <3>5. QED BY <1>2, <2>3, <3>3, <3>4 DEF Precedes, IsBefore
  <2>4. CASE n # new /\ m # new
    <3>1. n \in Live(node) /\ m \in Live(node)
      BY <1>1, <2>4 DEF Adds
    <3>2. r[m] < r[n]
      BY <1>1, <1>3, <1>5, <3>1, ShiftKeepsOrder
    <3>3. ~Precedes(node, n, node[m].object, node[m].score)
      BY <1>1, <3>1, <3>2 DEF Fit, Sorted
    <3>4. /\ M[n].score = node[n].score /\ M[n].object = node[n].object
          /\ M[m].score = node[m].score /\ M[m].object = node[m].object
      BY <1>2, <3>1
    <3>5. QED BY <3>3, <3>4 DEF Precedes
  <2>5. QED BY <2>1, <2>2, <2>3, <2>4
<1>6. QED BY <1>5 DEF Sorted

LEMMA InsertTops ==
  ASSUME NEW r, NEW s, NEW path, NEW P, NEW M, NEW K, NEW object, NEW score, NEW new,
         NEW level, Inserting(r, s, path, P, M, K, object, score, new, level)
  PROVE  Topped(M, K)
<1>1. /\ Fit(node, skip_list, r) /\ Adds(M, path, object, score, new, level)
      /\ level \in 1..SKIP_LIST_MAX_LEVEL
      /\ K.level = IF level < skip_list.level THEN skip_list.level ELSE level
  BY DEF Inserting
<1>2. PICK top \in Nat, max \in Nat :
        top = skip_list.level /\ max = SKIP_LIST_MAX_LEVEL /\ top \in 1..max
  BY <1>1, SkipListAssumption DEF Fit, SkipLists
<1>3. CASE level < skip_list.level
  <2>1. K.level = top /\ top # 1
    BY <1>1, <1>2, <1>3
  <2>2. PICK n \in Live(node) : Tall(node, n, top - 1)
    BY <1>1, <1>2, <2>1 DEF Fit, Topped
  <2>3. top - 1 \in Level
    BY <1>2 DEF Level
  <2>4. n \in Live(M) /\ Tall(M, n, top - 1)
    BY <1>1, <2>2, <2>3, TallAfter DEF Points
  <2>5. QED BY <2>1, <2>4 DEF Topped
<1>4. CASE ~(level < skip_list.level)
  <2>1. K.level = level
    BY <1>1, <1>4
  <2>2. level - 1 \in Level /\ level - 1 < level
    BY <1>1, <1>2 DEF Level
  <2>3. new \in Live(M) /\ Tall(M, new, level - 1)
    BY <1>1, <2>2, TallAfter
  <2>4. QED BY <2>1, <2>3 DEF Topped
<1>5. QED BY <1>3, <1>4

LEMMA InsertTypes ==
  ASSUME NEW r, NEW s, NEW path, NEW P, NEW M, NEW K, NEW object, NEW score, NEW new,
         NEW level, Inserting(r, s, path, P, M, K, object, score, new, level)
  PROVE  HeapType(M, K)
<1>1. /\ Fit(node, skip_list, r) /\ Adds(M, path, object, score, new, level)
      /\ level \in 1..SKIP_LIST_MAX_LEVEL /\ object \in Object /\ score \in Score
      /\ K.level = IF level < skip_list.level THEN skip_list.level ELSE level
  BY DEF Inserting
<1>2. PICK top \in Nat, max \in Nat :
        top = skip_list.level /\ max = SKIP_LIST_MAX_LEVEL /\ top \in 1..max
  BY <1>1, SkipListAssumption DEF Fit, SkipLists
<1>3. HeapType(node, skip_list)
  BY <1>1 DEF Fit
<1>4. M[HeadNode] \in SkipListNode(SKIP_LIST_MAX_LEVEL)
  <2>1. KeepsNode(M, path, new, level, HeadNode)
    BY <1>1 DEF Adds, Points
  <2>2. SKIP_LIST_MAX_LEVEL \in 1..SKIP_LIST_MAX_LEVEL
    BY <1>2
  <2>3. QED BY <1>3, <2>1, <2>2 DEF KeepsNode, HeapType
<1>5. ASSUME NEW n \in Live(node)
      PROVE  /\ \E h \in 1..K.level : M[n] \in SkipListNode(h)
             /\ M[n].object \in Object /\ M[n].score \in Score
  <2>1. KeepsNode(M, path, new, level, n)
    BY <1>1 DEF Adds, Points
  <2>2. PICK h \in 1..top : node[n] \in SkipListNode(h)
    BY <1>2, <1>3 DEF HeapType
  <2>3. h \in 1..SKIP_LIST_MAX_LEVEL /\ h \in 1..K.level
    BY <1>1, <1>2
  <2>4. M[n] \in SkipListNode(h)
    BY <2>1, <2>2, <2>3 DEF KeepsNode
  <2>5. M[n].object \in Object /\ M[n].score \in Score
    BY <1>3, <2>1 DEF KeepsNode, HeapType
  <2>6. QED BY <2>3, <2>4, <2>5
<1>6. /\ \E h \in 1..K.level : M[new] \in SkipListNode(h)
      /\ M[new].object \in Object /\ M[new].score \in Score
  <2>1. level \in 1..K.level
    BY <1>1, <1>2
  <2>2. QED BY <1>1, <2>1 DEF Adds, MakesNode
<1>7. QED BY <1>1, <1>4, <1>5, <1>6 DEF HeapType, Adds

(* An insertion puts the new node behind place P of the order.             *)
LEMMA InsertFits ==
  ASSUME NEW r, NEW s, NEW path, NEW P, NEW M, NEW K, NEW object, NEW score, NEW new,
         NEW level, Inserting(r, s, path, P, M, K, object, score, new, level),
         K \in SkipLists, s = Shifted(r, new, P)
  PROVE  Fit(M, K, s)
<1>1. Ranking(M, K, s)
  <2>1. /\ skip_list \in SkipLists /\ Ranking(node, skip_list, r)
        /\ new \in Node /\ new \notin Live(node) /\ P \in 0..skip_list.length
        /\ Live(M) = Live(node) \cup {new} /\ K.length = skip_list.length + 1
    BY DEF Inserting, Fit, Adds
  <2>2. QED BY <2>1, ShiftedRanking
<1>2. HeapType(M, K) /\ AllThreaded(M, K, s)
  BY InsertTypes, InsertThreads
<1>3. Backed(M, s) /\ Ended(M, K, s)
  BY InsertBacks, InsertEnds
<1>4. Sorted(M, s) /\ Topped(M, K)
  BY InsertSorts, InsertTops
<1>5. QED BY <1>1, <1>2, <1>3, <1>4 DEF Fit

(* What Insert() does, as these definitions say it.                        *)
LEMMA InsertInserts ==
  ASSUME NEW r, Fit(node, skip_list, r), DOMAIN node = Node \cup {HeadNode},
         NEW object \in Object, NEW score \in Score, NEW new \in Node,
         NEW level \in 1..SKIP_LIST_MAX_LEVEL, Insert(object, score, new, level)
  PROVE  \E path, P, s :
           /\ s = Shifted(r, new, P)
           /\ Inserting(r, s, path, P, node', skip_list', object, score, new, level)
           /\ skip_list' \in SkipLists /\ Fit(node', skip_list', s)
<1>1. PICK path : path = Search(object, score)
  OBVIOUS
<1>2. Placed(r, path) /\ Split(r, path, object, score)
  BY <1>1, SearchPlaces
<1>3. skip_list \in SkipLists /\ Ranking(node, skip_list, r)
  BY DEF Fit
<1>4. PICK top \in Nat, max \in Nat, length \in Nat :
        /\ top = skip_list.level /\ max = SKIP_LIST_MAX_LEVEL /\ top \in 1..max
        /\ length = skip_list.length /\ level \in 1..max
  BY <1>3, SkipListAssumption DEF SkipLists
<1>5. PICK P \in 0..length : P = path[0].rank
  BY <1>2, <1>4 DEF Placed
<1>6. PICK s : s = Shifted(r, new, P)
  OBVIOUS
<1>7. Adds(node', path, object, score, new, level)
  <2>1. node[new] = NULL
    BY DEF Insert
  <2>2. node' = [n \in DOMAIN node |->
              IF n = new THEN Inserted(path, object, score, level)
              ELSE IF node[n] = NULL THEN NULL ELSE Relinked(n, path, new, level)]
    BY <1>1 DEF Insert
  <2>3. QED BY <1>2, <2>1, <2>2, InsertAdds
<1>8. /\ skip_list' = [tail |-> skip_list'.tail, length |-> skip_list'.length,
                       level |-> skip_list'.level]
      /\ skip_list'.length = length + 1
      /\ skip_list'.level = IF level < top THEN top ELSE level
      /\ skip_list'.tail = IF Behind0(path) = NULL THEN new ELSE skip_list.tail
  <2>1. skip_list' =
              [tail   |-> IF Inserted(path, object, score, level).forward[0] = NULL
                          THEN new ELSE skip_list.tail,
               length |-> skip_list.length + 1,
               level  |-> Max({level, skip_list.level})]
    BY <1>1 DEF Insert
  <2>2. Inserted(path, object, score, level).forward[0] = Behind0(path)
    <3>1. 0 \in 0..(level - 1)
      BY <1>4
    <3>2. QED BY <3>1 DEF Inserted, NewNode, Behind0
  <2>3. Max({level, top}) = IF level < top THEN top ELSE level
    BY <1>4, HigherLevel
  <2>4. QED BY <1>4, <2>1, <2>2, <2>3
<1>9. skip_list' \in SkipLists
  <2>1. skip_list'.length \in Nat /\ skip_list'.level \in 1..max
    BY <1>4, <1>8
  <2>2. skip_list'.tail \in Node \cup {NULL}
    BY <1>3, <1>8 DEF SkipLists
  <2>3. QED BY <1>4, <1>8, <2>1, <2>2 DEF SkipLists
<1>10. Shifts(node, skip_list, r, s, new, P)
  <2>1. new \notin Live(node) /\ P \in 0..skip_list.length
    BY <1>4, <1>7 DEF Adds
  <2>2. QED BY <1>3, <1>6, <2>1, ShiftedRanks
<1>11. Inserting(r, s, path, P, node', skip_list', object, score, new, level)
  <2>1. P \in Nat /\ P \in 0..skip_list.length /\ skip_list.length \in Nat
    BY <1>4
  <2>2. QED BY <1>2, <1>4, <1>5, <1>7, <1>8, <1>10, <2>1 DEF Inserting
<1>12. Fit(node', skip_list', s)
  BY <1>6, <1>9, <1>11, InsertFits
<1>13. QED BY <1>6, <1>9, <1>11, <1>12

-----------------------------------------------------------------------------
(* The nodes that are linked on a level.                                   *)

(* q has the nodes of a level in the order of r.                           *)
InOrder(q, S, r) ==
  /\ q \in Seq(Node) /\ ToSet(q) = S
  /\ \A i, j \in DOMAIN q : i < j => r[q[i]] < r[q[j]]

LEMMA NodesAreTall ==
  ASSUME NEW N, NEW l
  PROVE  \A n : n \in NodesOn(N, l) <=> n \in Live(N) /\ Tall(N, n, l)
BY DEF NodesOn, Live, Tall

(* The links of a level end or go to its nodes.                            *)
LEMMA ForwardOnLevel ==
  ASSUME NEW N, NEW L, NEW r, Fit(N, L, r), NEW l \in Level,
         NEW n \in Points(N), Tall(N, n, l)
  PROVE  N[n].forward[l] \in NodesOn(N, l) \cup {NULL}
<1>1. Threaded(N, L, r, n, l)
  BY DEF Fit, AllThreaded
<1>2. QED BY <1>1, NodesAreTall DEF Threaded

LEMMA LinkedRecursion ==
  ASSUME NEW N, NEW L, NEW r, Fit(N, L, r), NEW l \in Level
  PROVE  \E walk :
           /\ Linked(N, l) = walk[Cardinality(Node) + 1][N[HeadNode].forward[l]]
           /\ \A k \in 0..(Cardinality(Node) + 1), n \in NodesOn(N, l) \cup {NULL} :
                walk[k][n] = IF n = NULL \/ k = 0 THEN <<>>
                             ELSE <<n>> \o walk[k - 1][N[n].forward[l]]
<1> DEFINE A == NodesOn(N, l) \cup {NULL}
           D == [A -> Seq(Node)]
           nothing == [n \in A |-> <<>>]
           longer == [k \in Nat |-> [x \in D |-> [n \in A |->
             IF n = NULL THEN <<>> ELSE <<n>> \o x[N[n].forward[l]]]]]
<1>0. N[HeadNode] # NULL
  <2>1. N[HeadNode] \in SkipListNode(SKIP_LIST_MAX_LEVEL)
    BY DEF Fit, HeapType
  <2>2. SKIP_LIST_MAX_LEVEL \in 1..SKIP_LIST_MAX_LEVEL
    BY SkipListAssumption
  <2>3. QED BY <2>1, <2>2, NullAssumption
<1>1. nothing \in D /\ longer \in [Nat -> [D -> D]]
  <2>1. nothing \in D
    OBVIOUS
  <2>2. ASSUME NEW x \in D
        PROVE  [n \in A |-> IF n = NULL THEN <<>> ELSE <<n>> \o x[N[n].forward[l]]] \in D
    <3>1. ASSUME NEW n \in A, n # NULL PROVE <<n>> \o x[N[n].forward[l]] \in Seq(Node)
      <4>1. n \in Live(N) /\ Tall(N, n, l)
        BY <3>1, NodesAreTall
      <4>2. N[n].forward[l] \in A
        BY <4>1, ForwardOnLevel DEF Points
      <4>3. x[N[n].forward[l]] \in Seq(Node)
        BY <4>2
      <4>4. <<n>> \in Seq(Node)
        BY <4>1 DEF Live
      <4>5. QED BY <4>3, <4>4, ConcatProperties
    <3>2. QED BY <3>1
  <2>3. QED BY <2>1, <2>2
<1>2. PICK M \in Nat : M = Cardinality(Node) + 1
  BY SkipListAssumption, FS_CardinalityType
<1>3. PICK h \in [0..M -> D] :
        h[0] = nothing /\ \A k \in 1..M : h[k] = longer[k][h[k - 1]]
  <2> HIDE DEF D, nothing, longer
  <2>1. PICK E, d, g : E = D /\ d = nothing /\ g = longer
    OBVIOUS
  <2>2. d \in E /\ g \in [Nat -> [E -> E]]
    BY <1>1, <2>1
  <2>3. PICK h \in [0..M -> E] : Iterates(h, M, d, g)
    BY <1>2, <2>2, IterationFrom
  <2>4. h[0] = d /\ \A k \in 1..M : h[k] = g[k][h[k - 1]]
    BY <2>3 DEF Iterates
  <2>5. QED BY <2>1, <2>3, <2>4
<1> DEFINE walk[k \in 0..M] ==
             [n \in A |-> IF n = NULL \/ k = 0 THEN <<>>
                          ELSE <<n>> \o walk[k - 1][N[n].forward[l]]]
<1>4. ASSUME NEW k \in 0..M
      PROVE  h[k] = [n \in A |-> IF n = NULL \/ k = 0 THEN <<>>
                                 ELSE <<n>> \o h[k - 1][N[n].forward[l]]]
  <2>1. CASE k = 0
    BY <1>3, <2>1
  <2>2. CASE k # 0
    <3>1. k \in 1..M /\ k \in Nat /\ k - 1 \in 0..M
      BY <1>2, <2>2
    <3>2. h[k] = longer[k][h[k - 1]] /\ h[k - 1] \in D
      BY <1>3, <3>1
    <3>3. QED BY <2>2, <3>1, <3>2
  <2>3. QED BY <2>1, <2>2
<1>5. h = [k \in 0..M |-> [n \in A |-> IF n = NULL \/ k = 0 THEN <<>>
                                 ELSE <<n>> \o h[k - 1][N[n].forward[l]]]]
  <2> HIDE DEF A
  <2> QED BY <1>4
<1>6. walk = [k \in 0..M |-> [n \in A |-> IF n = NULL \/ k = 0 THEN <<>>
                                 ELSE <<n>> \o walk[k - 1][N[n].forward[l]]]]
  <2> HIDE DEF A
  <2> QED BY <1>5, Zenon
<1>7. Linked(N, l) = walk[M][N[HeadNode].forward[l]]
  <2>1. Linked(N, l) = IF N[HeadNode] = NULL THEN <<>>
                       ELSE walk[M][N[HeadNode].forward[l]]
    BY <1>2 DEF Linked
  <2> HIDE DEF walk
  <2>2. QED BY <1>0, <2>1
<1> HIDE DEF walk
<1>8. ASSUME NEW k \in 0..M, NEW n \in A
      PROVE  walk[k][n] = IF n = NULL \/ k = 0 THEN <<>>
                          ELSE <<n>> \o walk[k - 1][N[n].forward[l]]
  <2>1. walk[k] = [i \in A |-> IF i = NULL \/ k = 0 THEN <<>>
                               ELSE <<i>> \o walk[k - 1][N[i].forward[l]]]
    <3> HIDE DEF A
    <3> QED BY <1>6
  <2> HIDE DEF A
  <2>2. QED BY <2>1
<1>9. QED BY <1>2, <1>7, <1>8

(* A node before nodes that come later in the order.                       *)
LEMMA InOrderBefore ==
  ASSUME NEW r, NEW S, NEW q, InOrder(q, S, r), NEW n \in Node,
         \A m \in S : r[n] < r[m]
  PROVE  InOrder(<<n>> \o q, S \cup {n}, r)
<1>1. q \in Seq(Node) /\ S = ToSet(q) /\ <<n>> \in Seq(Node)
  BY DEF InOrder
<1>2. PICK k \in Nat : k = Len(q) /\ DOMAIN q = 1..k
  BY <1>1
<1>3. PICK p : p = <<n>> \o q
  OBVIOUS
<1>4. p \in Seq(Node) /\ Len(p) = k + 1 /\ DOMAIN p = 1..(k + 1)
  BY <1>1, <1>2, <1>3
<1>5. p[1] = n /\ \A i \in 1..k : p[i + 1] = q[i]
  BY <1>1, <1>2, <1>3
<1>6. \A i \in 1..k : q[i] \in S
  BY <1>1, <1>2 DEF ToSet
<1>7. \A i \in 2..(k + 1) : i - 1 \in 1..k /\ p[i] = q[i - 1]
  <2>1. \A i \in 2..(k + 1) : i - 1 \in 1..k /\ (i - 1) + 1 = i
    BY <1>2
  <2>2. QED BY <1>5, <2>1
<1>8. ToSet(p) = S \cup {n}
  <2>1. ASSUME NEW x \in ToSet(p) PROVE x \in S \cup {n}
    <3>1. PICK i \in 1..(k + 1) : x = p[i]
      BY <1>4 DEF ToSet
    <3>2. i = 1 \/ i \in 2..(k + 1)
      BY <1>2
    <3>3. QED BY <1>5, <1>6, <1>7, <3>1, <3>2
  <2>2. ASSUME NEW x \in S PROVE x \in ToSet(p)
    <3>1. PICK i \in 1..k : x = q[i]
      BY <1>1, <1>2 DEF ToSet
    <3>2. i + 1 \in 1..(k + 1) /\ x = p[i + 1]
      BY <1>2, <1>5, <3>1
    <3>3. QED BY <1>4, <3>2 DEF ToSet
  <2>3. n \in ToSet(p)
    <3>1. 1 \in 1..(k + 1)
      BY <1>2
    <3>2. QED BY <1>4, <1>5, <3>1 DEF ToSet
  <2>4. QED BY <2>1, <2>2, <2>3
<1>9. ASSUME NEW i \in 1..(k + 1), NEW j \in 1..(k + 1), i < j
      PROVE  r[p[i]] < r[p[j]]
  <2>1. j \in 2..(k + 1)
    BY <1>2, <1>9
  <2>2. CASE i = 1
    BY <1>5, <1>6, <1>7, <2>1, <2>2
  <2>3. CASE i # 1
    <3>1. i \in 2..(k + 1) /\ i - 1 < j - 1
      BY <1>2, <1>9, <2>3
    <3>2. /\ i - 1 \in 1..k /\ p[i] = q[i - 1]
          /\ j - 1 \in 1..k /\ p[j] = q[j - 1]
      BY <1>7, <2>1, <3>1
    <3>3. r[q[i - 1]] < r[q[j - 1]]
      BY <1>2, <3>1, <3>2 DEF InOrder
    <3>4. QED BY <3>2, <3>3
  <2>4. QED BY <2>2, <2>3
<1>10. QED BY <1>3, <1>4, <1>8, <1>9 DEF InOrder

(* The nodes of a level from one on.                                       *)
OnFrom(N, r, l, n) == {m \in NodesOn(N, l) : r[n] <= r[m]}

(* Each level links the nodes that have it, in the order of their ranks.   *)
LEMMA LinkedInOrder ==
  ASSUME NEW N, NEW L, NEW r, Fit(N, L, r), NEW l \in Level
  PROVE  InOrder(Linked(N, l), NodesOn(N, l), r)
<1>1. L \in SkipLists /\ HeapType(N, L) /\ Ranking(N, L, r)
  BY DEF Fit
<1>2. PICK length \in Nat : length = L.length
  BY <1>1 DEF SkipLists
<1>3. PICK M \in Nat : M = Cardinality(Node) + 1 /\ length < M
  <2>1. Cardinality(Node) \in Nat /\ length <= Cardinality(Node)
    BY <1>1, <1>2, LengthBound
  <2>2. QED BY <1>2, <2>1
<1>4. PICK walk :
        /\ Linked(N, l) = walk[M][N[HeadNode].forward[l]]
        /\ \A k \in 0..M, n \in NodesOn(N, l) \cup {NULL} :
             walk[k][n] = IF n = NULL \/ k = 0 THEN <<>>
                          ELSE <<n>> \o walk[k - 1][N[n].forward[l]]
  BY <1>3, LinkedRecursion
<1>5. ASSUME NEW n \in NodesOn(N, l)
      PROVE  /\ n \in Live(N) /\ n \in Points(N) /\ n \in Node /\ n # NULL /\ Tall(N, n, l)
             /\ r[n] \in 1..length /\ r[n] \in Nat
             /\ Threaded(N, L, r, n, l)
  <2>1. n \in Live(N) /\ Tall(N, n, l)
    BY NodesAreTall
  <2>2. n \in Points(N) /\ n \in Node /\ n # NULL
    BY <2>1, SkipListAssumption DEF Points, Live
  <2>3. r[n] \in 1..length /\ r[n] \in Nat
    BY <1>1, <1>2, <2>1 DEF Ranking
  <2>4. Threaded(N, L, r, n, l)
    BY <2>1, <2>2 DEF Fit, AllThreaded
  <2>5. QED BY <2>1, <2>2, <2>3, <2>4
<1>6. ASSUME NEW k \in 0..M PROVE walk[k][NULL] = <<>>
  BY <1>4
<1>7. InOrder(<<>>, {}, r)
  BY DEF InOrder, ToSet
<1> DEFINE Walks(k) == k <= M => \A n \in NodesOn(N, l) :
                         length - r[n] < k => InOrder(walk[k][n], OnFrom(N, r, l, n), r)
           S == {k \in Nat : Walks(k)}
<1>8. 0 \in S
  <2>1. \A n \in NodesOn(N, l) : ~(length - r[n] < 0)
    BY <1>2, <1>5
  <2>2. QED BY <2>1
<1>9. ASSUME NEW k \in S PROVE k + 1 \in S
  <2>1. k \in Nat /\ Walks(k)
    OBVIOUS
  <2> HIDE DEF S
  <2>2. ASSUME k + 1 <= M, NEW n \in NodesOn(N, l), length - r[n] < k + 1
        PROVE  InOrder(walk[k + 1][n], OnFrom(N, r, l, n), r)
    <3> DEFINE next == N[n].forward[l]
    <3>1. k + 1 \in 0..M /\ k \in 0..M /\ k <= M /\ (k + 1) - 1 = k /\ k + 1 # 0
      BY <1>3, <2>1, <2>2
    <3>2. walk[k + 1][n] = <<n>> \o walk[k][next]
      <4>1. n # NULL
        BY <1>5
      <4>2. walk[k + 1][n] = IF n = NULL \/ k + 1 = 0 THEN <<>>
                             ELSE <<n>> \o walk[(k + 1) - 1][N[n].forward[l]]
        BY <1>4, <3>1
      <4>3. QED BY <3>1, <4>1, <4>2
    <3>3. CASE next = NULL
      <4>1. walk[k][next] = <<>>
        BY <1>6, <3>1, <3>3
      <4>2. \A m \in Live(N) : Tall(N, m, l) => r[m] <= r[n]
        BY <1>5, <3>3, SkipListAssumption DEF Threaded, Live
      <4>3. OnFrom(N, r, l, n) = {} \cup {n}
        <5>1. ASSUME NEW m \in NodesOn(N, l), r[n] <= r[m] PROVE m = n
          <6>1. r[m] <= r[n] /\ r[m] \in Nat /\ r[n] \in Nat
            BY <1>5, <4>2
          <6>2. r[m] = r[n]
            BY <5>1, <6>1
          <6>3. QED BY <1>1, <1>5, <6>2 DEF Ranking
        <5>2. r[n] <= r[n]
          BY <1>5
        <5>3. QED BY <5>1, <5>2 DEF OnFrom
      <4>4. InOrder(<<n>> \o <<>>, {} \cup {n}, r)
        BY <1>5, <1>7, InOrderBefore
      <4>5. QED BY <3>2, <4>1, <4>3, <4>4
    <3>4. CASE next # NULL
      <4>1. PICK m \in Live(N) :
              /\ next = m /\ Tall(N, m, l) /\ r[n] < r[m]
              /\ \A i \in Live(N) : Tall(N, i, l) /\ r[n] < r[i] => r[m] <= r[i]
        BY <1>5, <3>4 DEF Threaded
      <4>2. m \in NodesOn(N, l)
        BY <4>1, NodesAreTall
      <4>3. length - r[m] < k
        <5>1. r[m] \in Nat /\ r[n] \in Nat
          BY <1>5, <4>2
        <5>2. QED BY <1>2, <2>1, <2>2, <4>1, <5>1
      <4>4. InOrder(walk[k][m], OnFrom(N, r, l, m), r)
        BY <2>1, <3>1, <4>2, <4>3
      <4>5. \A i \in OnFrom(N, r, l, m) : r[n] < r[i]
        <5>1. ASSUME NEW i \in OnFrom(N, r, l, m) PROVE r[n] < r[i]
          <6>1. i \in NodesOn(N, l) /\ r[m] <= r[i]
            BY DEF OnFrom
          <6>2. r[i] \in Nat /\ r[m] \in Nat /\ r[n] \in Nat
            BY <1>5, <4>2, <6>1
          <6>3. QED BY <4>1, <6>1, <6>2
        <5>2. QED BY <5>1
      <4>6. InOrder(<<n>> \o walk[k][m], OnFrom(N, r, l, m) \cup {n}, r)
        BY <1>5, <4>4, <4>5, InOrderBefore
      <4>7. OnFrom(N, r, l, m) \cup {n} = OnFrom(N, r, l, n)
        <5>1. ASSUME NEW i \in OnFrom(N, r, l, n), i # n PROVE i \in OnFrom(N, r, l, m)
          <6>1. i \in NodesOn(N, l) /\ r[n] <= r[i]
            BY DEF OnFrom
          <6>2. i \in Live(N) /\ Tall(N, i, l) /\ r[i] \in Nat /\ r[n] \in Nat /\ n \in Live(N)
            BY <1>5, <6>1
          <6>3. r[i] # r[n]
            BY <1>1, <5>1, <6>2 DEF Ranking
          <6>4. r[n] < r[i]
            BY <6>1, <6>2, <6>3
          <6>5. r[m] <= r[i]
            BY <4>1, <6>2, <6>4
          <6>6. QED BY <6>1, <6>5 DEF OnFrom
        <5>2. ASSUME NEW i \in OnFrom(N, r, l, m) PROVE i \in OnFrom(N, r, l, n)
          <6>1. i \in NodesOn(N, l)
            BY DEF OnFrom
          <6>2. r[n] <= r[i]
            BY <1>5, <4>5, <6>1
          <6>3. QED BY <6>1, <6>2 DEF OnFrom
        <5>3. n \in OnFrom(N, r, l, n)
          BY <1>5 DEF OnFrom
        <5>4. QED BY <5>1, <5>2, <5>3
      <4>8. QED BY <3>2, <4>1, <4>6, <4>7
    <3>5. QED BY <3>3, <3>4
  <2>3. Walks(k + 1)
    BY <2>2
  <2>4. QED BY <2>1, <2>3 DEF S
<1>10. S = Nat
  <2>1. S \in SUBSET Nat
    OBVIOUS
  <2> HIDE DEF S
  <2>2. QED BY <1>8, <1>9, <2>1, NaturalInduction
<1>11. Walks(M)
  <2>1. M \in S
    <3> HIDE DEF S
    <3> QED BY <1>3, <1>10
  <2>2. QED BY <2>1
<1> HIDE DEF S
<1> DEFINE first == N[HeadNode].forward[l]
<1>12. Threaded(N, L, r, HeadNode, l) /\ r[HeadNode] = 0
  <2>1. HeadNode \in Points(N) /\ Tall(N, HeadNode, l)
    BY <1>1, NodeLevels DEF Points
  <2>2. QED BY <1>1, <2>1 DEF Fit, AllThreaded, Ranking
<1>13. CASE first = NULL
  <2>1. \A m \in Live(N) : Tall(N, m, l) => r[m] <= 0
    BY <1>12, <1>13, SkipListAssumption DEF Threaded, Live
  <2>2. NodesOn(N, l) = {}
    <3>1. ASSUME NEW m \in NodesOn(N, l) PROVE FALSE
      BY <1>2, <1>5, <2>1
    <3>2. QED BY <3>1
  <2>3. Linked(N, l) = <<>>
    BY <1>3, <1>4, <1>6, <1>13
  <2>4. QED BY <1>7, <2>2, <2>3
<1>14. CASE first # NULL
  <2>1. PICK m \in Live(N) :
          /\ first = m /\ Tall(N, m, l)
          /\ \A i \in Live(N) : Tall(N, i, l) /\ 0 < r[i] => r[m] <= r[i]
    BY <1>12, <1>14 DEF Threaded
  <2>2. m \in NodesOn(N, l)
    BY <2>1, NodesAreTall
  <2>3. length - r[m] < M
    BY <1>2, <1>3, <1>5, <2>2
  <2>4. InOrder(walk[M][m], OnFrom(N, r, l, m), r)
    BY <1>3, <1>11, <2>2, <2>3
  <2>5. OnFrom(N, r, l, m) = NodesOn(N, l)
    <3>1. ASSUME NEW i \in NodesOn(N, l) PROVE r[m] <= r[i]
      <4>1. i \in Live(N) /\ Tall(N, i, l) /\ 0 < r[i]
        BY <1>2, <1>5
      <4>2. QED BY <2>1, <4>1
    <3>2. QED BY <3>1 DEF OnFrom
  <2>6. QED BY <1>4, <2>1, <2>4, <2>5
<1>15. QED BY <1>13, <1>14

(* f increases and takes all values from 1 to m.                           *)
CountsTo(f, n, m) ==
  /\ f \in [1..n -> 1..m]
  /\ \A i, j \in 1..n : i < j => f[i] < f[j]
  /\ \A v \in 1..m : \E i \in 1..n : f[i] = v

LEMMA IncreasingIsIdentity ==
  ASSUME NEW m \in Nat, NEW n \in Nat, NEW f, CountsTo(f, n, m)
  PROVE  n = m /\ \A i \in 1..n : f[i] = i
<1>0. /\ f \in [1..n -> 1..m]
      /\ \A i, j \in 1..n : i < j => f[i] < f[j]
      /\ \A v \in 1..m : \E i \in 1..n : f[i] = v
  BY DEF CountsTo
<1> DEFINE S == {k \in Nat : \A i \in 1..n : i <= k => f[i] = i}
<1>1. 0 \in S
  OBVIOUS
<1>2. ASSUME NEW k \in S PROVE k + 1 \in S
  <2>1. k \in Nat /\ \A i \in 1..n : i <= k => f[i] = i
    OBVIOUS
  <2> HIDE DEF S
  <2>2. ASSUME k + 1 \in 1..n PROVE f[k + 1] = k + 1
    <3>1. f[k + 1] \in 1..m
      BY <1>0, <2>2
    <3>2. f[k + 1] > k
      <4>1. CASE k = 0
        BY <3>1, <4>1
      <4>2. CASE k # 0
        <5>1. k \in 1..n /\ k < k + 1
          BY <2>1, <2>2, <4>2
        <5>2. f[k] = k /\ f[k] < f[k + 1]
          BY <1>0, <2>1, <2>2, <5>1
        <5>3. QED BY <2>1, <3>1, <5>2
      <4>3. QED BY <4>1, <4>2
    <3>3. ASSUME f[k + 1] > k + 1 PROVE FALSE
      <4>1. k + 1 \in 1..m
        BY <2>1, <3>1, <3>3
      <4>2. PICK i \in 1..n : f[i] = k + 1
        BY <1>0, <4>1
      <4>3. ~(i <= k)
        BY <2>1, <4>2
      <4>4. i # k + 1
        BY <3>1, <3>3, <4>2
      <4>5. k + 1 < i
        BY <2>1, <4>3, <4>4
      <4>6. f[k + 1] < f[i]
        BY <1>0, <2>2, <4>5
      <4>7. PICK a \in Nat : a = f[k + 1]
        BY <3>1
      <4>8. a < k + 1 /\ a > k + 1
        BY <3>3, <4>2, <4>6, <4>7
      <4>9. QED BY <2>1, <4>7, <4>8
    <3>4. QED BY <2>1, <3>1, <3>2, <3>3
  <2>3. \A i \in 1..n : i <= k + 1 => i <= k \/ i = k + 1
    BY <2>1
  <2>4. \A i \in 1..n : i <= k + 1 => f[i] = i
    BY <2>1, <2>2, <2>3
  <2>5. QED BY <2>1, <2>4 DEF S
<1>3. S = Nat
  <2>1. S \in SUBSET Nat
    OBVIOUS
  <2> HIDE DEF S
  <2>2. QED BY <1>1, <1>2, <2>1, NaturalInduction
<1>4. \A i \in 1..n : f[i] = i
  BY <1>3
<1>5. n <= m
  <2>1. CASE n = 0
    BY <2>1
  <2>2. CASE n # 0
    <3>1. n \in 1..n
      BY <2>2
    <3>2. f[n] = n /\ f[n] \in 1..m
      BY <1>0, <1>4, <3>1
    <3>3. QED BY <3>2
  <2>3. QED BY <2>1, <2>2
<1>6. m <= n
  <2>1. CASE m = 0
    BY <2>1
  <2>2. CASE m # 0
    <3>1. PICK i \in 1..n : f[i] = m
      BY <1>0, <2>2
    <3>2. i = m
      BY <1>0, <1>4, <3>1
    <3>3. QED BY <3>2
  <2>3. QED BY <2>1, <2>2
<1>7. QED BY <1>4, <1>5, <1>6

(* Level 0 links all nodes, each at its rank.                              *)
LEMMA LinkedRanks ==
  ASSUME NEW N, NEW L, NEW r, Fit(N, L, r)
  PROVE  /\ Linked(N, 0) \in Seq(Node) /\ L.length \in Nat
         /\ ToSet(Linked(N, 0)) = Live(N)
         /\ Len(Linked(N, 0)) = L.length
         /\ \A i \in 1..L.length : Linked(N, 0)[i] \in Live(N) /\ r[Linked(N, 0)[i]] = i
         /\ \A n \in Live(N) : r[n] \in 1..L.length /\ Linked(N, 0)[r[n]] = n
<1>1. L \in SkipLists /\ HeapType(N, L) /\ Ranking(N, L, r) /\ 0 \in Level
  BY SkipListAssumption DEF Fit, Level
<1>2. PICK m \in Nat : m = L.length
  BY <1>1 DEF SkipLists
<1>3. PICK q : q = Linked(N, 0) /\ InOrder(q, NodesOn(N, 0), r)
  BY <1>1, LinkedInOrder
<1>4. NodesOn(N, 0) = Live(N)
  <2>1. \A n \in Live(N) : Tall(N, n, 0)
    BY <1>1, NodeLevels DEF Points
  <2>2. QED BY <2>1, NodesAreTall
<1>5. q \in Seq(Node) /\ ToSet(q) = Live(N)
  BY <1>3, <1>4 DEF InOrder
<1>6. PICK k \in Nat : k = Len(q) /\ DOMAIN q = 1..k
  BY <1>5
<1>7. \A i \in 1..k : q[i] \in Live(N) /\ r[q[i]] \in 1..m
  BY <1>1, <1>2, <1>5, <1>6 DEF ToSet, Ranking
<1>8. PICK f \in [1..k -> 1..m] : \A i \in 1..k : f[i] = r[q[i]]
  <2>1. [i \in 1..k |-> r[q[i]]] \in [1..k -> 1..m]
    BY <1>7
  <2>2. \A i \in 1..k : [j \in 1..k |-> r[q[j]]][i] = r[q[i]]
    OBVIOUS
  <2>3. QED BY <2>1, <2>2
<1>9. \A i, j \in 1..k : i < j => f[i] < f[j]
  BY <1>3, <1>6, <1>8 DEF InOrder
<1>10. ASSUME NEW v \in 1..m PROVE \E i \in 1..k : f[i] = v
  <2>1. PICK n \in Live(N) : r[n] = v
    BY <1>1, <1>2 DEF Ranking
  <2>2. PICK i \in 1..k : q[i] = n
    BY <1>5, <1>6, <2>1 DEF ToSet
  <2>3. QED BY <1>8, <2>1, <2>2
<1>11. k = m /\ \A i \in 1..k : f[i] = i
  <2>1. CountsTo(f, k, m)
    BY <1>9, <1>10 DEF CountsTo
  <2>2. QED BY <2>1, IncreasingIsIdentity
<1>12. \A i \in 1..m : q[i] \in Live(N) /\ r[q[i]] = i
  BY <1>7, <1>8, <1>11
<1>13. ASSUME NEW n \in Live(N) PROVE r[n] \in 1..m /\ q[r[n]] = n
  <2>1. r[n] \in 1..m
    BY <1>1, <1>2 DEF Ranking
  <2>2. q[r[n]] \in Live(N) /\ r[q[r[n]]] = r[n]
    BY <1>12, <2>1
  <2>3. QED BY <1>1, <2>1, <2>2 DEF Ranking
<1>14. QED BY <1>2, <1>3, <1>5, <1>6, <1>11, <1>12, <1>13

-----------------------------------------------------------------------------
(* The properties of a list that has an order.                             *)

LEMMA RankIsPlace ==
  ASSUME NEW r, Fit(node, skip_list, r)
  PROVE  /\ \A n \in Points(node) : Rank(n) = r[n]
         /\ Rank(NULL) = skip_list.length
<1>1. PICK q : q = Linked(node, 0)
  OBVIOUS
<1>2. PICK m \in Nat : m = skip_list.length
  BY LinkedRanks
<1>3. /\ q \in Seq(Node) /\ Len(q) = m
      /\ \A i \in 1..m : q[i] \in Live(node) /\ r[q[i]] = i
      /\ \A n \in Live(node) : r[n] \in 1..m /\ q[r[n]] = n
  BY <1>1, <1>2, LinkedRanks
<1>4. NULL # HeadNode /\ HeadNode \notin Live(node) /\ NULL \notin Live(node)
  BY SkipListAssumption DEF Live
<1>5. ASSUME NEW n \in Live(node) PROVE Rank(n) = r[n]
  <2>1. PICK I : I = {i \in 1..m : q[i] = n}
    OBVIOUS
  <2>2. I = {r[n]}
    <3>1. r[n] \in I
      BY <1>3, <2>1
    <3>2. \A i \in I : i = r[n]
      BY <1>3, <2>1
    <3>3. QED BY <3>1, <3>2
  <2>3. r[n] \in Nat
    BY <1>3
  <2>4. Min(I) = r[n]
    <3>1. I \in SUBSET Nat /\ I # {}
      BY <2>2, <2>3
    <3>2. Min(I) \in I
      BY <3>1, MinIsLeast
    <3>3. QED BY <2>2, <3>2
  <2>5. SelectInSeq(q, LAMBDA x : x = n) = IF I # {} THEN Min(I) ELSE 0
    BY <1>3, <2>1 DEF SelectInSeq
  <2>6. Rank(n) = SelectInSeq(q, LAMBDA x : x = n)
    BY <1>1, <1>4 DEF Rank
  <2>7. QED BY <2>2, <2>4, <2>5, <2>6
<1>6. Rank(HeadNode) = 0 /\ r[HeadNode] = 0
  BY DEF Rank, Fit, Ranking
<1>7. Rank(NULL) = skip_list.length
  BY <1>4 DEF Rank
<1>8. QED BY <1>5, <1>6, <1>7 DEF Points

LEMMA ListIsNotNull ==
  ASSUME NEW r, Fit(node, skip_list, r)
  PROVE  skip_list # NULL /\ node[HeadNode] # NULL
<1>1. skip_list \in SkipLists /\ node[HeadNode] \in SkipListNode(SKIP_LIST_MAX_LEVEL)
  BY DEF Fit, HeapType
<1>2. SKIP_LIST_MAX_LEVEL \in 1..SKIP_LIST_MAX_LEVEL
  BY SkipListAssumption
<1>3. QED BY <1>1, <1>2, NullAssumption DEF SkipLists

LEMMA FitMeasures ==
  ASSUME NEW r, Fit(node, skip_list, r), DOMAIN node = Node \cup {HeadNode}
  PROVE  SpansMeasureRanks
<1>1. HeapType(node, skip_list) /\ skip_list \in SkipLists
  BY DEF Fit
<1>2. ASSUME NEW n \in DOMAIN node, node[n] # NULL, NEW l \in DOMAIN node[n].forward,
             l < skip_list.level
      PROVE  node[n].span[l] = Rank(node[n].forward[l]) - Rank(n)
  <2>1. n \in Points(node) /\ Tall(node, n, l)
    BY <1>2 DEF Points, Live, Tall
  <2>2. l \in Level
    BY <1>1, <2>1, NodeLevels
  <2>3. Threaded(node, skip_list, r, n, l)
    BY <2>1, <2>2 DEF Fit, AllThreaded
  <2>4. Rank(n) = r[n]
    BY <2>1, RankIsPlace
  <2>5. CASE node[n].forward[l] = NULL
    <3>1. node[n].span[l] = skip_list.length - r[n]
      BY <1>2, <2>3, <2>5, SkipListAssumption DEF Threaded, Live
    <3>2. Rank(NULL) = skip_list.length
      BY RankIsPlace
    <3>3. QED BY <2>4, <2>5, <3>1, <3>2
  <2>6. CASE node[n].forward[l] # NULL
    <3>1. PICK m \in Live(node) : node[n].forward[l] = m /\ node[n].span[l] = r[m] - r[n]
      BY <1>2, <2>3, <2>6 DEF Threaded
    <3>2. Rank(m) = r[m]
      BY RankIsPlace DEF Points
    <3>3. QED BY <2>4, <3>1, <3>2
  <2>7. QED BY <2>5, <2>6
<1>3. QED BY <1>2 DEF SpansMeasureRanks

(* The highest level that links nodes is that of the list.                 *)
LEMMA HighestLevel ==
  ASSUME NEW r, Fit(node, skip_list, r)
  PROVE  skip_list.level = Max({1} \cup {l + 1 : l \in {k \in Level : Linked(node, k) # <<>>}})
<1>1. HeapType(node, skip_list) /\ skip_list \in SkipLists
  BY DEF Fit
<1>2. PICK top \in Nat, max \in Nat :
        top = skip_list.level /\ max = SKIP_LIST_MAX_LEVEL /\ top \in 1..max
  BY <1>1, SkipListAssumption DEF SkipLists
<1>3. Level = 0..(max - 1)
  BY <1>2 DEF Level
<1>4. ASSUME NEW k \in Level
      PROVE  Linked(node, k) # <<>> <=> \E n \in Live(node) : Tall(node, n, k)
  <2>1. PICK q : q = Linked(node, k) /\ q \in Seq(Node) /\ ToSet(q) = NodesOn(node, k)
    BY LinkedInOrder DEF InOrder
  <2>2. q # <<>> <=> ToSet(q) # {}
    <3>1. PICK m \in Nat : m = Len(q) /\ DOMAIN q = 1..m
      BY <2>1
    <3>2. q # <<>> <=> m # 0
      BY <2>1, <3>1
    <3>3. m # 0 => 1 \in 1..m
      BY <3>1
    <3>4. ToSet(q) # {} <=> m # 0
      BY <3>1, <3>3 DEF ToSet
    <3>5. QED BY <3>2, <3>4
  <2>3. QED BY <2>1, <2>2, NodesAreTall
<1>5. PICK T : T = {1} \cup {l + 1 : l \in {k \in Level : Linked(node, k) # <<>>}}
  OBVIOUS
<1>6. ASSUME NEW x \in T PROVE x \in 0..top
  <2>1. CASE x = 1
    BY <1>2, <2>1
  <2>2. CASE x # 1
    <3>1. PICK l \in Level : x = l + 1 /\ Linked(node, l) # <<>>
      BY <1>5, <2>2
    <3>2. PICK n \in Live(node) : Tall(node, n, l)
      BY <1>4, <3>1
    <3>3. l < top
      BY <1>1, <1>2, <3>2, NodeLevels
    <3>4. QED BY <1>2, <1>3, <3>1, <3>3
  <2>3. QED BY <2>1, <2>2
<1>7. top \in T
  <2>1. CASE top = 1
    BY <1>5, <2>1
  <2>2. CASE top # 1
    <3>1. PICK n \in Live(node) : Tall(node, n, top - 1)
      BY <1>2, <2>2 DEF Fit, Topped
    <3>2. top - 1 \in Level /\ (top - 1) + 1 = top
      BY <1>2, <1>3
    <3>3. Linked(node, top - 1) # <<>>
      BY <1>4, <3>1, <3>2
    <3>4. top - 1 \in {k \in Level : Linked(node, k) # <<>>}
      BY <3>2, <3>3
    <3>5. QED BY <1>5, <3>2, <3>4
  <2>3. QED BY <2>1, <2>2
<1>8. T \in SUBSET (0..top) /\ T # {}
  BY <1>6, <1>7
<1>9. PICK x : x = Max(T) /\ x \in T /\ \A y \in T : y <= x
  BY <1>2, <1>8, MaxIsGreatest
<1>10. x \in 0..top /\ top <= x
  BY <1>6, <1>7, <1>9
<1>11. QED BY <1>2, <1>5, <1>9, <1>10

LEMMA FitAgrees ==
  ASSUME NEW r, Fit(node, skip_list, r)
  PROVE  LevelsAgree
<1>1. PICK all : all = Linked(node, 0)
  OBVIOUS
<1>2. PICK m \in Nat : m = skip_list.length
  BY LinkedRanks
<1>3. /\ all \in Seq(Node) /\ ToSet(all) = Live(node) /\ Len(all) = m
      /\ \A i \in 1..m : all[i] \in Live(node) /\ r[all[i]] = i
  BY <1>1, <1>2, LinkedRanks
<1>4. DOMAIN all = 1..m
  BY <1>3
<1>5. IsInjective(all)
  BY <1>3, <1>4 DEF IsInjective
<1>6. ToSet(all) = {n \in Node : node[n] # NULL}
  BY <1>3 DEF Live
<1>7. ASSUME NEW l \in Level
      PROVE  /\ ToSet(Linked(node, l)) = NodesOn(node, l)
             /\ \A i, j \in DOMAIN Linked(node, l) :
                  i < j => Rank(Linked(node, l)[i]) < Rank(Linked(node, l)[j])
  <2>1. PICK q : q = Linked(node, l) /\ InOrder(q, NodesOn(node, l), r)
    BY LinkedInOrder
  <2>2. \A i \in DOMAIN q : q[i] \in Points(node)
    <3>1. \A i \in DOMAIN q : q[i] \in NodesOn(node, l)
      BY <2>1 DEF InOrder, ToSet
    <3>2. QED BY <3>1, NodesAreTall DEF Points
  <2>3. \A i \in DOMAIN q : Rank(q[i]) = r[q[i]]
    BY <2>2, RankIsPlace
  <2>4. QED BY <2>1, <2>3 DEF InOrder
<1>8. ASSUME NEW i \in 1..m
      PROVE  node[all[i]].backward = IF i = 1 THEN NULL ELSE all[i - 1]
  <2>1. all[i] \in Live(node) /\ r[all[i]] = i
    BY <1>3
  <2>2. CASE i = 1
    BY <2>1, <2>2 DEF Fit, Backed
  <2>3. CASE i # 1
    <3>1. i - 1 \in 1..m /\ i = (i - 1) + 1
      BY <1>2, <2>3
    <3>2. all[i - 1] \in Live(node) /\ r[all[i - 1]] = i - 1
      BY <1>3, <3>1
    <3>3. r[all[i]] = r[all[i - 1]] + 1
      BY <2>1, <3>1, <3>2
    <3>4. node[all[i]].backward = all[i - 1]
      BY <2>1, <3>2, <3>3 DEF Fit, Backed
    <3>5. QED BY <2>3, <3>4
  <2>4. QED BY <2>2, <2>3
<1>9. skip_list.tail = IF all = <<>> THEN NULL ELSE Last(all)
  <2>1. CASE m = 0
    <3>1. all = <<>>
      BY <1>3, <2>1
    <3>2. skip_list.tail = NULL
      BY <1>2, <2>1 DEF Fit, Ended
    <3>3. QED BY <3>1, <3>2
  <2>2. CASE m # 0
    <3>1. m \in 1..m /\ all # <<>> /\ Last(all) = all[m]
      BY <1>3, <2>2 DEF Last
    <3>2. all[m] \in Live(node) /\ r[all[m]] = m
      BY <1>3, <3>1
    <3>3. skip_list.tail = all[m]
      BY <1>2, <3>2 DEF Fit, Ended
    <3>4. QED BY <3>1, <3>3
  <2>3. QED BY <2>1, <2>2
<1>10. skip_list # NULL
  BY ListIsNotNull
<1>11. skip_list.level = Max({1} \cup {l + 1 : l \in {k \in Level : Linked(node, k) # <<>>}})
  BY HighestLevel
<1>12. QED
  BY <1>1, <1>2, <1>3, <1>4, <1>5, <1>6, <1>7, <1>8, <1>9, <1>10, <1>11 DEF LevelsAgree

-----------------------------------------------------------------------------
(* The references to objects.                                              *)

(* The nodes that hold an object.                                          *)
Places(N, o) == {n \in Node : N[n] # NULL /\ N[n].object = o}

Counted(k) == IF k = 0 THEN Freed ELSE k

(* c counts what callers, by h, and the nodes of heap N hold.              *)
Counts(N, h, c) == \A o \in Object : c[o] = Counted(h[o] + Cardinality(Places(N, o)))

CountTypes(h, c) == c \in [Object -> Nat \cup {Freed}] /\ h \in [Object -> 0..MaxHeld]

LEMMA CountsAreReferences ==
  Counts(node, held, reference_count) <=> ReferencesAreCounted
BY DEF Counts, Counted, Places, ReferencesAreCounted

LEMMA NodesAreFinite ==
  ASSUME NEW S \in SUBSET Node
  PROVE  /\ IsFiniteSet(S) /\ Cardinality(S) \in Nat
         /\ Cardinality(S) = 0 <=> S = {}
         /\ \A x \in Node \ S : Cardinality(S \cup {x}) = Cardinality(S) + 1
<1>1. IsFiniteSet(S)
  BY SkipListAssumption, FS_Subset
<1>2. Cardinality(S) \in Nat
  BY <1>1, FS_CardinalityType
<1>3. Cardinality(S) = 0 <=> S = {}
  BY <1>1, FS_EmptySet
<1>4. ASSUME NEW x \in Node \ S PROVE Cardinality(S \cup {x}) = Cardinality(S) + 1
  <2>1. x \notin S
    OBVIOUS
  <2>2. QED BY <1>1, <2>1, FS_AddElement
<1>5. QED BY <1>1, <1>2, <1>3, <1>4

(* What is freed is held by none.                                          *)
LEMMA CountedIsFreed ==
  ASSUME NEW k \in Nat
  PROVE  /\ Counted(k) = Freed <=> k = 0
         /\ Counted(k) \in Nat \cup {Freed}
         /\ k # 0 => Counted(k) = k
BY ObjectsAssumption DEF Counted

LEMMA OwnersAreNat ==
  ASSUME NEW N, NEW h, NEW c, CountTypes(h, c), NEW o \in Object
  PROVE  /\ Cardinality(Places(N, o)) \in Nat
         /\ h[o] \in Nat /\ h[o] + Cardinality(Places(N, o)) \in Nat
<1>1. h[o] \in Nat
  BY ObjectsAssumption DEF CountTypes
<1>2. Cardinality(Places(N, o)) \in Nat
  <2>1. Places(N, o) \in SUBSET Node
    BY DEF Places
  <2>2. QED BY <2>1, NodesAreFinite
<1>3. QED BY <1>1, <1>2

(* One reference more, one less.                                           *)
LEMMA NewObjectCounts ==
  ASSUME CountTypes(held, reference_count), Counts(node, held, reference_count),
         NEW o \in Object, NewObject(o)
  PROVE  CountTypes(held', reference_count') /\ Counts(node, held', reference_count')
<1>1. /\ reference_count[o] = Freed
      /\ reference_count' = [reference_count EXCEPT ![o] = 1]
      /\ held' = [held EXCEPT ![o] = 1]
  BY DEF NewObject
<1>2. CountTypes(held', reference_count')
  BY <1>1, ObjectsAssumption DEF CountTypes
<1>3. held[o] + Cardinality(Places(node, o)) = 0
  BY <1>1, OwnersAreNat, CountedIsFreed DEF Counts
<1>4. ASSUME NEW p \in Object
      PROVE  reference_count'[p] = Counted(held'[p] + Cardinality(Places(node, p)))
  <2>1. CASE p = o
    <3>1. Cardinality(Places(node, o)) = 0
      <4>1. held[o] \in Nat /\ Cardinality(Places(node, o)) \in Nat
        BY OwnersAreNat
      <4>2. QED BY <1>3, <4>1
    <3>2. reference_count'[o] = 1 /\ held'[o] = 1
      BY <1>1 DEF CountTypes
    <3>3. QED BY <2>1, <3>1, <3>2 DEF Counted
  <2>2. CASE p # o
    <3>1. reference_count'[p] = reference_count[p] /\ held'[p] = held[p]
      BY <1>1, <2>2 DEF CountTypes
    <3>2. QED BY <3>1 DEF Counts
  <2>3. QED BY <2>1, <2>2
<1>5. QED BY <1>2, <1>4 DEF Counts

LEMMA RetainCounts ==
  ASSUME CountTypes(held, reference_count), Counts(node, held, reference_count),
         NEW o \in Object, Retain(o)
  PROVE  CountTypes(held', reference_count') /\ Counts(node, held', reference_count')
<1>1. /\ held[o] \in 1..(MaxHeld - 1)
      /\ reference_count' = [reference_count EXCEPT ![o] = @ + 1]
      /\ held' = [held EXCEPT ![o] = @ + 1]
  BY DEF Retain
<1>2. PICK h \in Nat, k \in Nat :
        /\ h = held[o] /\ k = Cardinality(Places(node, o)) /\ h # 0 /\ h + 1 \in 0..MaxHeld
  <2>1. held[o] \in Nat /\ Cardinality(Places(node, o)) \in Nat
    BY OwnersAreNat
  <2>2. held[o] # 0 /\ held[o] + 1 \in 0..MaxHeld
    BY <1>1, ObjectsAssumption
  <2>3. QED BY <2>1, <2>2
<1>3. reference_count[o] = h + k
  BY <1>2, CountedIsFreed DEF Counts
<1>4. reference_count'[o] = h + k + 1 /\ held'[o] = h + 1
  BY <1>1, <1>2, <1>3 DEF CountTypes
<1>5. CountTypes(held', reference_count')
  <2>1. reference_count' \in [Object -> Nat \cup {Freed}]
    BY <1>1, <1>3 DEF CountTypes
  <2>2. held' \in [Object -> 0..MaxHeld]
    BY <1>1, <1>2 DEF CountTypes
  <2>3. QED BY <2>1, <2>2 DEF CountTypes
<1>6. ASSUME NEW p \in Object
      PROVE  reference_count'[p] = Counted(held'[p] + Cardinality(Places(node, p)))
  <2>1. CASE p = o
    <3>1. held'[o] + Cardinality(Places(node, o)) = h + k + 1
      BY <1>2, <1>4
    <3>2. QED BY <1>4, <2>1, <3>1 DEF Counted
  <2>2. CASE p # o
    <3>1. reference_count'[p] = reference_count[p] /\ held'[p] = held[p]
      BY <1>1, <2>2 DEF CountTypes
    <3>2. QED BY <3>1 DEF Counts
  <2>3. QED BY <2>1, <2>2
<1>7. QED BY <1>5, <1>6 DEF Counts

(* DecreaseReferenceCount() of an object with k references and one more.   *)
LEMMA DecreaseCounts ==
  ASSUME NEW c, NEW o \in Object, c \in [Object -> Nat \cup {Freed}],
         NEW k \in Nat, c[o] = k + 1
  PROVE  /\ DecreaseReferenceCount(c, o) \in [Object -> Nat \cup {Freed}]
         /\ DecreaseReferenceCount(c, o)[o] = Counted(k)
         /\ \A p \in Object : p # o => DecreaseReferenceCount(c, o)[p] = c[p]
<1>1. (IF c[o] <= 0 THEN c[o] ELSE IF c[o] = 1 THEN Freed ELSE c[o] - 1) = Counted(k)
  <2>1. ~(k + 1 <= 0)
    OBVIOUS
  <2>2. CASE k = 0
    BY <2>1, <2>2 DEF Counted
  <2>3. CASE k # 0
    <3>1. k + 1 # 1 /\ (k + 1) - 1 = k
      BY <2>3
    <3>2. QED BY <2>1, <2>3, <3>1 DEF Counted
  <2>4. QED BY <2>2, <2>3
<1>2. PICK d : d = DecreaseReferenceCount(c, o)
  OBVIOUS
<1>3. d = [c EXCEPT ![o] = Counted(k)]
  BY <1>1, <1>2 DEF DecreaseReferenceCount
<1>4. Counted(k) \in Nat \cup {Freed}
  BY CountedIsFreed
<1>5. QED BY <1>2, <1>3, <1>4

LEMMA ReleaseCounts ==
  ASSUME CountTypes(held, reference_count), Counts(node, held, reference_count),
         NEW o \in Object, Release(o)
  PROVE  CountTypes(held', reference_count') /\ Counts(node, held', reference_count')
<1>1. /\ held[o] > 0
      /\ reference_count' = DecreaseReferenceCount(reference_count, o)
      /\ held' = [held EXCEPT ![o] = @ - 1]
  BY DEF Release
<1>2. PICK h \in Nat, k \in Nat :
        held[o] = h + 1 /\ k = Cardinality(Places(node, o)) /\ h \in 0..MaxHeld
  <2>1. held[o] \in 0..MaxHeld /\ held[o] \in Nat /\ Cardinality(Places(node, o)) \in Nat
    BY OwnersAreNat DEF CountTypes
  <2>2. held[o] - 1 \in Nat /\ held[o] = (held[o] - 1) + 1 /\ held[o] - 1 \in 0..MaxHeld
    BY <1>1, <2>1, ObjectsAssumption
  <2>3. QED BY <2>1, <2>2
<1>3. reference_count[o] = (h + k) + 1
  <2>1. held[o] + Cardinality(Places(node, o)) = (h + k) + 1
    BY <1>2
  <2>2. (h + k) + 1 \in Nat /\ (h + k) + 1 # 0
    BY <1>2
  <2>3. QED BY <2>1, <2>2, CountedIsFreed DEF Counts
<1>4. /\ reference_count' \in [Object -> Nat \cup {Freed}]
      /\ reference_count'[o] = Counted(h + k)
      /\ \A p \in Object : p # o => reference_count'[p] = reference_count[p]
  <2>1. h + k \in Nat
    BY <1>2
  <2>2. QED BY <1>1, <1>3, <2>1, DecreaseCounts DEF CountTypes
<1>5. /\ held' \in [Object -> 0..MaxHeld] /\ held'[o] = h
      /\ \A p \in Object : p # o => held'[p] = held[p]
  BY <1>1, <1>2 DEF CountTypes
<1>6. ASSUME NEW p \in Object
      PROVE  reference_count'[p] = Counted(held'[p] + Cardinality(Places(node, p)))
  <2>1. CASE p = o
    BY <1>2, <1>4, <1>5, <2>1
  <2>2. CASE p # o
    BY <1>4, <1>5, <2>2 DEF Counts
  <2>3. QED BY <2>1, <2>2
<1>7. QED BY <1>4, <1>5, <1>6 DEF Counts, CountTypes

(* The caller's reference becomes that of the new node.                    *)
LEMMA InsertCounts ==
  ASSUME CountTypes(held, reference_count), Counts(node, held, reference_count),
         NEW path, NEW object \in Object, NEW score, NEW new \in Node, NEW level,
         Adds(node', path, object, score, new, level), held[object] > 0,
         held' = [held EXCEPT ![object] = @ - 1], reference_count' = reference_count
  PROVE  CountTypes(held', reference_count') /\ Counts(node', held', reference_count')
<1>1. PICK h \in Nat, k \in Nat :
        held[object] = h + 1 /\ k = Cardinality(Places(node, object)) /\ h \in 0..MaxHeld
  <2>1. held[object] \in 0..MaxHeld /\ held[object] \in Nat
        /\ Cardinality(Places(node, object)) \in Nat
    BY OwnersAreNat DEF CountTypes
  <2>2. /\ held[object] - 1 \in Nat /\ held[object] = (held[object] - 1) + 1
        /\ held[object] - 1 \in 0..MaxHeld
    BY <2>1, ObjectsAssumption
  <2>3. QED BY <2>1, <2>2
<1>2. /\ held' \in [Object -> 0..MaxHeld] /\ held'[object] = h
      /\ \A p \in Object : p # object => held'[p] = held[p]
  BY <1>1 DEF CountTypes
<1>3. /\ new \notin Live(node) /\ Live(node') = Live(node) \cup {new}
      /\ node'[new].object = object
      /\ \A n \in Live(node) : node'[n].object = node[n].object
  BY DEF Adds, MakesNode, KeepsNode, Points
<1>4. ASSUME NEW p
      PROVE  Places(node', p) = IF p = object THEN Places(node, p) \cup {new} ELSE Places(node, p)
  <2>1. \A n : n \in Places(node', p) <=> n \in Live(node') /\ node'[n].object = p
    BY DEF Places, Live
  <2>2. \A n : n \in Places(node, p) <=> n \in Live(node) /\ node[n].object = p
    BY DEF Places, Live
  <2>3. CASE p = object
    BY <1>3, <2>1, <2>2, <2>3
  <2>4. CASE p # object
    BY <1>3, <2>1, <2>2, <2>4
  <2>5. QED BY <2>3, <2>4
<1>5. Cardinality(Places(node', object)) = k + 1
  <2>1. Places(node, object) \in SUBSET Node /\ new \in Node \ Places(node, object)
    BY <1>3 DEF Places, Live
  <2>2. Cardinality(Places(node, object) \cup {new}) = k + 1
    BY <1>1, <2>1, NodesAreFinite
  <2>3. QED BY <1>4, <2>2
<1>6. ASSUME NEW p \in Object
      PROVE  reference_count'[p] = Counted(held'[p] + Cardinality(Places(node', p)))
  <2>1. CASE p = object
    <3>1. held'[p] + Cardinality(Places(node', p)) = held[p] + Cardinality(Places(node, p))
      BY <1>1, <1>2, <1>5, <2>1
    <3>2. QED BY <3>1 DEF Counts
  <2>2. CASE p # object
    <3>1. held'[p] = held[p] /\ Places(node', p) = Places(node, p)
      BY <1>2, <1>4, <2>2
    <3>2. QED BY <3>1 DEF Counts
  <2>3. QED BY <2>1, <2>2
<1>7. QED BY <1>2, <1>6 DEF Counts, CountTypes

(* The nodes behind place i that hold o.                                   *)
PlacesAfter(r, o, i) == {n \in Live(node) : node[n].object = o /\ i < r[n]}

(* Free() gives the reference of each node back.                           *)
LEMMA FreeCounts ==
  ASSUME CountTypes(held, reference_count), Counts(node, held, reference_count),
         NEW r, Fit(node, skip_list, r), Free
  PROVE  reference_count' = [o \in Object |-> Counted(held[o])]
<1>1. PICK q : q = Linked(node, 0)
  OBVIOUS
<1>2. PICK m \in Nat : m = skip_list.length
  BY LinkedRanks
<1>3. /\ q \in Seq(Node) /\ Len(q) = m
      /\ \A i \in 1..m : q[i] \in Live(node) /\ r[q[i]] = i
      /\ \A n \in Live(node) : r[n] \in 1..m /\ q[r[n]] = n
  BY <1>1, <1>2, LinkedRanks
<1>4. \A n \in Live(node) : node[n].object \in Object /\ r[n] \in Nat
  <2>1. \A n \in Live(node) : r[n] \in Nat
    BY <1>2, <1>3
  <2>2. QED BY <2>1 DEF Fit, HeapType
<1> DEFINE k(o, i) == Cardinality(PlacesAfter(r, o, i))
           left(i) == [o \in Object |-> Counted(held[o] + k(o, i))]
<1>5. ASSUME NEW o \in Object, NEW i
      PROVE  held[o] \in Nat /\ k(o, i) \in Nat /\ held[o] + k(o, i) \in Nat
  <2>1. held[o] \in Nat
    BY OwnersAreNat
  <2>2. PlacesAfter(r, o, i) \in SUBSET Node
    BY DEF PlacesAfter, Live
  <2>3. k(o, i) \in Nat
    BY <2>2, NodesAreFinite
  <2>4. QED BY <2>1, <2>3
<1>6. left(0) = reference_count
  <2>1. ASSUME NEW o \in Object PROVE reference_count[o] = Counted(held[o] + k(o, 0))
    <3>1. PlacesAfter(r, o, 0) = Places(node, o)
      <4>1. \A n \in Live(node) : 0 < r[n]
        BY <1>2, <1>3
      <4>2. QED BY <4>1 DEF PlacesAfter, Places, Live
    <3>2. QED BY <3>1 DEF Counts
  <2> HIDE DEF k
  <2>2. QED BY <2>1 DEF CountTypes
<1>7. ASSUME NEW i \in 1..m
      PROVE  left(i) = DecreaseReferenceCount(left(i - 1), node[q[i]].object)
  <2>1. PICK x : x = q[i] /\ x \in Live(node) /\ r[x] = i
    BY <1>3
  <2>2. PICK o : o = node[x].object /\ o \in Object
    BY <1>4, <2>1
  <2>3. ASSUME NEW n \in Live(node) PROVE i - 1 < r[n] <=> i < r[n] \/ n = x
    <3>1. r[n] = i <=> n = x
      BY <1>3, <2>1
    <3>2. r[n] \in Nat
      BY <1>4
    <3>3. QED BY <1>2, <3>1, <3>2
  <2>4. PlacesAfter(r, o, i - 1) = PlacesAfter(r, o, i) \cup {x}
    BY <2>1, <2>2, <2>3 DEF PlacesAfter
  <2>5. k(o, i - 1) = k(o, i) + 1
    <3>1. PlacesAfter(r, o, i) \in SUBSET Node /\ x \in Node \ PlacesAfter(r, o, i)
      <4>1. ~(i < r[x])
        BY <1>2, <2>1
      <4>2. QED BY <2>1, <4>1 DEF PlacesAfter, Live
    <3>2. QED BY <2>4, <3>1, NodesAreFinite
  <2>6. ASSUME NEW p \in Object, p # o PROVE PlacesAfter(r, p, i - 1) = PlacesAfter(r, p, i)
    BY <2>2, <2>3, <2>6 DEF PlacesAfter
  <2>7. PICK c : c = left(i - 1)
    OBVIOUS
  <2>8. c \in [Object -> Nat \cup {Freed}]
    <3>1. \A p \in Object : Counted(held[p] + k(p, i - 1)) \in Nat \cup {Freed}
      BY <1>5, CountedIsFreed
    <3> HIDE DEF k
    <3>2. QED BY <2>7, <3>1
  <2>9. PICK j \in Nat : j = held[o] + k(o, i) /\ c[o] = j + 1
    <3>1. held[o] \in Nat /\ k(o, i) \in Nat
      BY <1>5, <2>2
    <3>2. c[o] = Counted(held[o] + k(o, i - 1))
      BY <2>2, <2>7
    <3> HIDE DEF k
    <3>3. held[o] + k(o, i - 1) = (held[o] + k(o, i)) + 1
      BY <2>5, <3>1
    <3>4. (held[o] + k(o, i)) + 1 \in Nat /\ (held[o] + k(o, i)) + 1 # 0
      BY <3>1
    <3>5. QED BY <3>1, <3>2, <3>3, <3>4, CountedIsFreed
  <2>10. PICK d : d = DecreaseReferenceCount(c, o)
    OBVIOUS
  <2>11. /\ d \in [Object -> Nat \cup {Freed}] /\ d[o] = Counted(j)
         /\ \A p \in Object : p # o => d[p] = c[p]
    BY <2>2, <2>8, <2>9, <2>10, DecreaseCounts
  <2>12. ASSUME NEW p \in Object PROVE d[p] = Counted(held[p] + k(p, i))
    <3>1. CASE p = o
      BY <2>9, <2>11, <3>1
    <3>2. CASE p # o
      BY <2>6, <2>7, <2>11, <3>2
    <3>3. QED BY <3>1, <3>2
  <2> HIDE DEF k
  <2>13. d = left(i)
    BY <2>11, <2>12
  <2>14. QED BY <2>1, <2>2, <2>7, <2>10, <2>13
<1> HIDE DEF left
<1> DEFINE counts[i \in 0..Len(q)] ==
             IF i = 0 THEN reference_count
             ELSE DecreaseReferenceCount(counts[i - 1], node[q[i]].object)
<1>8. PICK h : h = [i \in 0..Len(q) |-> left(i)]
  OBVIOUS
<1>9. h = [i \in 0..Len(q) |-> IF i = 0 THEN reference_count
                               ELSE DecreaseReferenceCount(h[i - 1], node[q[i]].object)]
  <2>1. ASSUME NEW i \in 0..Len(q)
        PROVE  h[i] = IF i = 0 THEN reference_count
                      ELSE DecreaseReferenceCount(h[i - 1], node[q[i]].object)
    <3>1. CASE i = 0
      BY <1>6, <1>8, <3>1
    <3>2. CASE i # 0
      <4>1. i \in 1..m /\ i - 1 \in 0..Len(q)
        BY <1>2, <1>3, <3>2
      <4>2. h[i] = left(i) /\ h[i - 1] = left(i - 1)
        BY <1>8, <4>1
      <4>3. QED BY <1>7, <3>2, <4>1, <4>2
    <3>3. QED BY <3>1, <3>2
  <2>2. QED BY <1>8, <2>1
<1>10. counts = [i \in 0..Len(q) |-> IF i = 0 THEN reference_count
                               ELSE DecreaseReferenceCount(counts[i - 1], node[q[i]].object)]
  BY <1>9, Zenon
<1>11. reference_count' = counts[Len(q)]
  BY <1>1 DEF Free
<1> HIDE DEF counts
<1> DEFINE S == {i \in Nat : i <= m => counts[i] = left(i)}
<1>12. 0 \in S
  <2>1. 0 \in 0..Len(q)
    BY <1>2, <1>3
  <2>2. counts[0] = reference_count
    BY <1>10, <2>1
  <2>3. QED BY <1>6, <2>2
<1>13. ASSUME NEW i \in S PROVE i + 1 \in S
  <2>1. ASSUME i + 1 <= m PROVE counts[i + 1] = left(i + 1)
    <3>1. i \in Nat /\ i + 1 \in 1..m /\ i + 1 \in 0..Len(q) /\ i + 1 # 0 /\ (i + 1) - 1 = i /\ i <= m
      BY <1>2, <1>3, <2>1
    <3>2. counts[i] = left(i)
      BY <3>1
    <3>3. counts[i + 1] = DecreaseReferenceCount(counts[i], node[q[i + 1]].object)
      BY <1>10, <3>1
    <3>4. left(i + 1) = DecreaseReferenceCount(left(i), node[q[i + 1]].object)
      BY <1>7, <3>1
    <3>5. QED BY <3>2, <3>3, <3>4
  <2>2. QED BY <2>1
<1>14. S = Nat
  <2>1. S \in SUBSET Nat
    OBVIOUS
  <2> HIDE DEF S
  <2>2. QED BY <1>12, <1>13, <2>1, NaturalInduction
<1>15. counts[m] = left(m)
  <2>1. m \in S /\ m <= m
    <3> HIDE DEF S
    <3> QED BY <1>2, <1>14
  <2>2. QED BY <2>1
<1>16. ASSUME NEW o \in Object PROVE Counted(held[o] + k(o, m)) = Counted(held[o])
  <2>1. PlacesAfter(r, o, m) = {}
    <3>1. \A n \in Live(node) : ~(m < r[n])
      BY <1>2, <1>3
    <3>2. QED BY <3>1 DEF PlacesAfter
  <2>2. k(o, m) = 0
    BY <2>1, FS_EmptySet
  <2>3. held[o] \in Nat
    BY <1>5
  <2>4. held[o] + k(o, m) = held[o]
    BY <2>2, <2>3
  <2>5. QED BY <2>4
<1>17. left(m) = [o \in Object |-> Counted(held[o])]
  <2> HIDE DEF k
  <2> QED BY <1>16 DEF left
<1>18. QED BY <1>2, <1>3, <1>11, <1>15, <1>17

-----------------------------------------------------------------------------
(* The invariant: the list in the heap has an order, and what callers and  *)
(* nodes hold is counted.                                                  *)
NoList == skip_list = NULL /\ \A n \in DOMAIN node : node[n] = NULL

HasOrder == \E r : Fit(node, skip_list, r)

Inv ==
  /\ DOMAIN node = Node \cup {HeadNode}
  /\ CountTypes(held, reference_count) /\ Counts(node, held, reference_count)
  /\ NoList \/ HasOrder

LEMMA InitInv == Init => Inv
<1> SUFFICES ASSUME Init PROVE Inv
  OBVIOUS
<1>1. /\ node = [n \in Node \cup {HeadNode} |-> NULL] /\ skip_list = NULL
      /\ reference_count = [o \in Object |-> Freed] /\ held = [o \in Object |-> 0]
  BY DEF Init, InitObjects
<1>2. CountTypes(held, reference_count)
  BY <1>1, ObjectsAssumption DEF CountTypes
<1>3. ASSUME NEW o \in Object
      PROVE  reference_count[o] = Counted(held[o] + Cardinality(Places(node, o)))
  <2>1. Places(node, o) = {}
    BY <1>1 DEF Places
  <2>2. Cardinality(Places(node, o)) = 0
    BY <2>1, FS_EmptySet
  <2>3. QED BY <1>1, <2>2 DEF Counted
<1>4. QED BY <1>1, <1>2, <1>3 DEF Inv, Counts, NoList

(* The list that SkipListCreate() makes.                                   *)
LEMMA CreateFits ==
  ASSUME Inv, Create
  PROVE  \E r : Fit(node', skip_list', r)
<1>1. /\ skip_list = NULL /\ skip_list' = EmptyList
      /\ node' = [node EXCEPT ![HeadNode] = NewNode(NULL, 0, SKIP_LIST_MAX_LEVEL)]
  BY DEF Create
<1>2. DOMAIN node = Node \cup {HeadNode} /\ \A n \in Node : node[n] = NULL
  BY <1>1, ListIsNotNull DEF Inv, NoList, HasOrder
<1>3. PICK head : head = NewNode(NULL, 0, SKIP_LIST_MAX_LEVEL)
  OBVIOUS
<1>4. node'[HeadNode] = head /\ Live(node') = {} /\ Points(node') = {HeadNode}
  <2>1. node'[HeadNode] = head
    BY <1>1, <1>2, <1>3
  <2>2. \A n \in Node : node'[n] = NULL
    BY <1>1, <1>2, SkipListAssumption
  <2>3. QED BY <2>1, <2>2 DEF Live, Points
<1>5. /\ head \in SkipListNode(SKIP_LIST_MAX_LEVEL)
      /\ DOMAIN head.forward = Level
      /\ \A l \in Level : head.forward[l] = NULL /\ head.span[l] = 0
  BY <1>3 DEF NewNode, SkipListNode, Level
<1>6. PICK L : L = skip_list'
  OBVIOUS
<1>7. /\ L \in SkipLists /\ L.length = 0 /\ L.level = 1 /\ L.tail = NULL
  BY <1>1, <1>6, SkipListAssumption DEF EmptyList, SkipLists
<1>8. PICK r : r = [n \in Node \cup {HeadNode} |-> 0]
  OBVIOUS
<1>9. HeapType(node', L)
  BY <1>4, <1>5 DEF HeapType
<1>10. Ranking(node', L, r)
  BY <1>4, <1>7, <1>8 DEF Ranking
<1>11. AllThreaded(node', L, r)
  <2>1. ASSUME NEW l \in Level PROVE Threaded(node', L, r, HeadNode, l)
    BY <1>4, <1>5, <1>7, <1>8 DEF Threaded
  <2>2. QED BY <1>4, <2>1 DEF AllThreaded
<1>12. Backed(node', r) /\ Ended(node', L, r) /\ Sorted(node', r) /\ Topped(node', L)
  BY <1>4, <1>7 DEF Backed, Ended, Sorted, Topped
<1>13. QED BY <1>6, <1>7, <1>9, <1>10, <1>11, <1>12 DEF Fit

LEMMA CreateInv ==
  ASSUME Inv, Create
  PROVE  Inv'
<1>1. /\ skip_list = NULL /\ UNCHANGED <<reference_count, held>>
      /\ node' = [node EXCEPT ![HeadNode] = NewNode(NULL, 0, SKIP_LIST_MAX_LEVEL)]
  BY DEF Create, objectVars
<1>2. DOMAIN node' = Node \cup {HeadNode}
  BY <1>1 DEF Inv
<1>3. HasOrder'
  BY CreateFits DEF HasOrder
<1>4. \A n \in Node : node'[n] = node[n]
  BY <1>1, SkipListAssumption DEF Inv
<1>5. \A o : Places(node', o) = Places(node, o)
  BY <1>4 DEF Places
<1>6. QED BY <1>1, <1>2, <1>3, <1>5 DEF Inv, Counts, CountTypes

LEMMA InsertInv ==
  ASSUME Inv, NEW o \in Object, NEW score \in Score, NEW new \in Node,
         NEW level \in 1..SKIP_LIST_MAX_LEVEL, Insert(o, score, new, level)
  PROVE  Inv'
<1>1. /\ skip_list # NULL /\ held[o] > 0
      /\ held' = [held EXCEPT ![o] = @ - 1] /\ reference_count' = reference_count
      /\ DOMAIN node' = DOMAIN node
  BY DEF Insert
<1>2. PICK r : Fit(node, skip_list, r)
  BY <1>1 DEF Inv, NoList, HasOrder
<1>3. PICK path, P, s :
        /\ Inserting(r, s, path, P, node', skip_list', o, score, new, level)
        /\ Fit(node', skip_list', s)
  BY <1>2, InsertInserts DEF Inv
<1>4. Adds(node', path, o, score, new, level)
  BY <1>3 DEF Inserting
<1>5. CountTypes(held', reference_count') /\ Counts(node', held', reference_count')
  BY <1>1, <1>4, InsertCounts DEF Inv
<1>6. QED BY <1>1, <1>3, <1>5 DEF Inv, HasOrder

(* SkipListFree() leaves nothing.                                          *)
LEMMA FreeInv ==
  ASSUME Inv, Free
  PROVE  Inv'
<1>1. /\ skip_list # NULL /\ skip_list' = NULL /\ held' = held
      /\ DOMAIN node' = DOMAIN node
      /\ node' = [n \in DOMAIN node |->
                    IF n = HeadNode \/ n \in ToSet(Linked(node, 0)) THEN NULL ELSE node[n]]
  BY DEF Free
<1>2. PICK r : Fit(node, skip_list, r)
  BY <1>1 DEF Inv, NoList, HasOrder
<1>3. ToSet(Linked(node, 0)) = Live(node)
  BY <1>2, LinkedRanks
<1>4. \A n \in DOMAIN node : node'[n] = NULL
  <2>1. ASSUME NEW n \in DOMAIN node, n # HeadNode, n \notin Live(node) PROVE node[n] = NULL
    BY <2>1 DEF Inv, Live
  <2>2. QED BY <1>1, <1>3, <2>1
<1>5. ASSUME NEW o \in Object PROVE Cardinality(Places(node', o)) = 0
  <2>1. Places(node', o) = {}
    BY <1>4 DEF Places, Inv
  <2>2. QED BY <2>1, FS_EmptySet
<1>6. reference_count' = [o \in Object |-> Counted(held[o])]
  BY <1>2, FreeCounts DEF Inv
<1>7. ASSUME NEW o \in Object
      PROVE  /\ held[o] \in Nat /\ Counted(held[o]) \in Nat \cup {Freed}
             /\ reference_count'[o] = Counted(held'[o] + Cardinality(Places(node', o)))
  <2>1. held[o] \in Nat
    BY OwnersAreNat DEF Inv
  <2>2. held'[o] + Cardinality(Places(node', o)) = held[o]
    BY <1>1, <1>5, <2>1
  <2>3. Counted(held[o]) \in Nat \cup {Freed}
    BY <2>1, CountedIsFreed
  <2>4. QED BY <1>6, <2>1, <2>2, <2>3
<1>8. reference_count' \in [Object -> Nat \cup {Freed}]
  BY <1>6, <1>7
<1>9. QED BY <1>1, <1>4, <1>7, <1>8 DEF Inv, NoList, Counts, CountTypes

LEMMA NextInv ==
  ASSUME Inv, [Next]_vars
  PROVE  Inv'
<1>1. CASE Create
  BY <1>1, CreateInv
<1>2. ASSUME NEW o \in Object, NEW score \in Score, NEW new \in Node,
             NEW level \in 1..SKIP_LIST_MAX_LEVEL, Insert(o, score, new, level)
      PROVE  Inv'
  BY <1>2, InsertInv
<1>3. CASE Free
  BY <1>3, FreeInv
<1>4. ASSUME NEW o \in Object, NewObject(o) \/ Retain(o) \/ Release(o),
             UNCHANGED <<skip_list, node>>
      PROVE  Inv'
  <2>1. CountTypes(held', reference_count') /\ Counts(node, held', reference_count')
    BY <1>4, NewObjectCounts, RetainCounts, ReleaseCounts DEF Inv
  <2>2. node' = node /\ skip_list' = skip_list
    BY <1>4
  <2>3. QED BY <2>1, <2>2 DEF Inv, NoList, HasOrder
<1>5. CASE UNCHANGED vars
  BY <1>5 DEF vars, Inv, NoList, HasOrder
<1>6. QED BY <1>1, <1>2, <1>3, <1>4, <1>5 DEF Next

(* In every state that the code can reach, the list in the heap has one    *)
(* order that all its levels, spans and ends agree on, and each object     *)
(* counts its owners: the inductive invariant of the theorems that follow. *)
THEOREM Invariance == Spec => []Inv
<1>1. Init => Inv
  BY InitInv
<1>2. Inv /\ [Next]_vars => Inv'
  BY NextInv
<1>3. QED BY <1>1, <1>2, PTL DEF Spec

LEMMA InvHasTypes == Inv => TypeOK
<1> SUFFICES ASSUME Inv PROVE TypeOK
  OBVIOUS
<1>1. /\ DOMAIN node = Node \cup {HeadNode}
      /\ reference_count \in [Object -> Nat \cup {Freed}] /\ held \in [Object -> 0..MaxHeld]
  BY DEF Inv, CountTypes
<1>2. CASE NoList
  BY <1>1, <1>2 DEF NoList, TypeOK
<1>3. CASE HasOrder
  <2>1. PICK r : Fit(node, skip_list, r)
    BY <1>3 DEF HasOrder
  <2>2. skip_list \in SkipLists /\ HeapType(node, skip_list)
    BY <2>1 DEF Fit
  <2>3. PICK top \in Nat, max \in Nat :
          top = skip_list.level /\ max = SKIP_LIST_MAX_LEVEL /\ top \in 1..max
    BY <2>2, SkipListAssumption DEF SkipLists
  <2>4. ASSUME NEW n \in DOMAIN node, node[n] # NULL
        PROVE  \E level \in 1..SKIP_LIST_MAX_LEVEL : node[n] \in SkipListNode(level)
    <3>1. CASE n = HeadNode
      <4>1. max \in 1..max
        BY <2>3
      <4>2. QED BY <2>2, <2>3, <3>1, <4>1 DEF HeapType
    <3>2. CASE n # HeadNode
      <4>1. n \in Live(node)
        BY <1>1, <2>4, <3>2 DEF Live
      <4>2. PICK level \in 1..top : node[n] \in SkipListNode(level)
        BY <2>2, <2>3, <4>1 DEF HeapType
      <4>3. level \in 1..max
        BY <2>3
      <4>4. QED BY <2>3, <4>2, <4>3
    <3>3. QED BY <3>1, <3>2
  <2>5. skip_list \in [tail : Node \cup {NULL}, length : Nat, level : 1..SKIP_LIST_MAX_LEVEL]
    BY <2>2 DEF SkipLists
  <2>6. QED BY <1>1, <2>4, <2>5 DEF TypeOK
<1>4. QED BY <1>2, <1>3 DEF Inv

(* Every variable has its type, in every state that the code can reach.    *)
THEOREM TypeCorrectness == Spec => []TypeOK
<1>1. Inv => TypeOK
  BY InvHasTypes
<1>2. QED BY <1>1, Invariance, PTL

(* "The number of links between this node and the forward_ node": on every *)
(* level of the list SkipListInsert() keeps the spans that it cuts, those   *)
(* that it fills and those that it only passes over equal to distances.    *)
THEOREM SpansAreDistances == Spec => []SpansMeasureRanks
<1>1. Inv => SpansMeasureRanks
  <2> SUFFICES ASSUME Inv PROVE SpansMeasureRanks
    OBVIOUS
  <2>1. CASE NoList
    BY <2>1 DEF NoList, SpansMeasureRanks
  <2>2. CASE HasOrder
    BY <2>2, FitMeasures DEF Inv, HasOrder
  <2>3. QED BY <2>1, <2>2 DEF Inv
<1>2. QED BY <1>1, Invariance, PTL

(* Whatever levels the nodes are given, each level links those that have   *)
(* it in the order of level 0, and backward_, tail_, length_ and level_    *)
(* agree with the links.                                                   *)
THEOREM LevelsOfOneOrder == Spec => []LevelsAgree
<1>1. Inv => LevelsAgree
  <2> SUFFICES ASSUME Inv PROVE LevelsAgree
    OBVIOUS
  <2>1. CASE NoList
    BY <2>1 DEF NoList, LevelsAgree
  <2>2. CASE HasOrder
    BY <2>2, FitAgrees DEF HasOrder
  <2>3. QED BY <2>1, <2>2 DEF Inv
<1>2. QED BY <1>1, Invariance, PTL

(* SkipListInsert() takes the caller's reference, SkipListFree() gives     *)
(* back that of every node: a count is always that of the owners.          *)
THEOREM CountsAreOfOwners == Spec => []ReferencesAreCounted
<1>1. Inv => ReferencesAreCounted
  BY CountsAreReferences DEF Inv
<1>2. QED BY <1>1, Invariance, PTL

-----------------------------------------------------------------------------
(* The list as a sequence of items.                                        *)

Item == [object : Object, score : Score]

ItemOf(N, n) == [object |-> N[n].object, score |-> N[n].score]

LEMMA ItemsByRank ==
  ASSUME NEW N, NEW L, NEW r, Fit(N, L, r)
  PROVE  /\ ItemsIn(N) \in Seq(Item) /\ ItemsIn(N) # NULL
         /\ Len(ItemsIn(N)) = L.length /\ L.length \in Nat
         /\ \A n \in Live(N) : r[n] \in 1..L.length /\ ItemsIn(N)[r[n]] = ItemOf(N, n)
         /\ \A i \in 1..L.length : \E n \in Live(N) : r[n] = i /\ ItemsIn(N)[i] = ItemOf(N, n)
<1>1. PICK q : q = Linked(N, 0)
  OBVIOUS
<1>2. PICK m \in Nat : m = L.length
  BY LinkedRanks
<1>3. /\ q \in Seq(Node) /\ Len(q) = m /\ DOMAIN q = 1..m
      /\ \A i \in 1..m : q[i] \in Live(N) /\ r[q[i]] = i
      /\ \A n \in Live(N) : r[n] \in 1..m /\ q[r[n]] = n
  BY <1>1, <1>2, LinkedRanks
<1>4. PICK p : p = ItemsIn(N)
  OBVIOUS
<1>5. p = [i \in 1..m |-> ItemOf(N, q[i])]
  BY <1>1, <1>3, <1>4 DEF ItemsIn, ItemOf
<1>6. \A n \in Live(N) : ItemOf(N, n) \in Item
  BY DEF Fit, HeapType, Item, ItemOf
<1>7. p \in Seq(Item) /\ Len(p) = m
  <2>1. \A i \in 1..m : ItemOf(N, q[i]) \in Item
    BY <1>3, <1>6
  <2>2. p \in [1..m -> Item]
    BY <1>5, <2>1
  <2>3. QED BY <1>2, <2>2
<1>8. p # NULL
  BY <1>7, NullAssumption DEF Item
<1>9. \A n \in Live(N) : r[n] \in 1..m /\ p[r[n]] = ItemOf(N, n)
  BY <1>3, <1>5
<1>10. ASSUME NEW i \in 1..m PROVE \E n \in Live(N) : r[n] = i /\ p[i] = ItemOf(N, n)
  BY <1>3, <1>5
<1>11. QED BY <1>2, <1>4, <1>7, <1>8, <1>9, <1>10

(* An insertion puts the new item behind place P.                          *)
LEMMA InsertedItems ==
  ASSUME NEW r, NEW s, NEW path, NEW P, NEW M, NEW K, NEW object, NEW score, NEW new,
         NEW level, Inserting(r, s, path, P, M, K, object, score, new, level), Fit(M, K, s),
         NEW item, item = [object |-> object, score |-> score]
  PROVE  /\ P + 1 \in 1..(Len(ItemsIn(node)) + 1)
         /\ ItemsIn(M) = InsertAt(ItemsIn(node), P + 1, item)
<1>1. /\ Fit(node, skip_list, r) /\ Adds(M, path, object, score, new, level)
      /\ Shifts(node, skip_list, r, s, new, P) /\ P \in Nat /\ P \in 0..skip_list.length
      /\ K.length = skip_list.length + 1
      /\ object \in Object /\ score \in Score
  BY DEF Inserting
<1>2. PICK m \in Nat, p \in Seq(Item) :
        /\ m = skip_list.length /\ p = ItemsIn(node) /\ Len(p) = m
        /\ \A n \in Live(node) : r[n] \in 1..m /\ p[r[n]] = ItemOf(node, n)
  BY <1>1, ItemsByRank
<1>3. PICK q \in Seq(Item) :
        /\ q = ItemsIn(M) /\ Len(q) = m + 1
        /\ \A i \in 1..(m + 1) : \E n \in Live(M) : s[n] = i /\ q[i] = ItemOf(M, n)
  BY <1>1, <1>2, ItemsByRank
<1>4. item \in Item /\ P + 1 \in 1..(Len(p) + 1)
  BY <1>1, <1>2 DEF Item
<1>5. PICK t \in Seq(Item) :
        /\ t = InsertAt(p, P + 1, item) /\ Len(t) = m + 1
        /\ \A j \in 1..(m + 1) :
             t[j] = IF j < P + 1 THEN p[j] ELSE IF j = P + 1 THEN item ELSE p[j - 1]
  <2>1. PICK i \in 1..(Len(p) + 1) : i = P + 1
    BY <1>4
  <2>2. /\ InsertAt(p, i, item) \in Seq(Item)
        /\ Len(InsertAt(p, i, item)) = Len(p) + 1
        /\ \A j \in 1..(Len(p) + 1) :
             InsertAt(p, i, item)[j] = IF j < i THEN p[j] ELSE IF j = i THEN item ELSE p[j - 1]
    BY <1>4, InsertAtPosition
  <2>3. QED BY <1>2, <2>1, <2>2
<1>6. /\ ItemOf(M, new) = item
      /\ \A n \in Live(node) : ItemOf(M, n) = ItemOf(node, n)
      /\ Live(M) = Live(node) \cup {new}
  BY <1>1 DEF Adds, MakesNode, KeepsNode, Points, ItemOf
<1>7. ASSUME NEW i \in 1..(m + 1) PROVE q[i] = t[i]
  <2>1. PICK n \in Live(M) : s[n] = i /\ q[i] = ItemOf(M, n)
    BY <1>3
  <2>2. CASE n = new
    <3>1. i = P + 1
      BY <1>1, <2>1, <2>2 DEF Shifts
    <3>2. QED BY <1>5, <1>6, <2>1, <2>2, <3>1
  <2>3. CASE n # new
    <3>1. n \in Live(node) /\ q[i] = ItemOf(node, n)
      BY <1>6, <2>1, <2>3
    <3>2. PICK a \in 1..m : a = r[n] /\ p[a] = q[i]
      BY <1>2, <3>1
    <3>3. i = IF a > P THEN a + 1 ELSE a
      BY <1>1, <2>1, <3>1, <3>2 DEF Shifts, Points
    <3>4. t[i] = p[a]
      <4>1. CASE a > P
        <5>1. i = a + 1 /\ ~(i < P + 1) /\ i # P + 1 /\ i - 1 = a
          BY <1>1, <3>3, <4>1
        <5>2. QED BY <1>5, <5>1
      <4>2. CASE ~(a > P)
        <5>1. i = a /\ i < P + 1
          BY <1>1, <3>3, <4>2
        <5>2. QED BY <1>5, <5>1
      <4>3. QED BY <4>1, <4>2
    <3>5. QED BY <3>2, <3>4
  <2>4. QED BY <2>2, <2>3
<1>8. q = t
  <2>1. DOMAIN q = 1..(m + 1) /\ DOMAIN t = 1..(m + 1)
    BY <1>3, <1>5
  <2>2. q = [i \in DOMAIN q |-> q[i]] /\ t = [i \in DOMAIN t |-> t[i]]
    BY <1>3, <1>5
  <2>3. QED BY <1>7, <2>1, <2>2
<1>9. QED BY <1>2, <1>3, <1>4, <1>5, <1>8

(* What is listed, and who owns an object.                                 *)
LEMMA ListedObjects ==
  ASSUME NEW N, NEW L, NEW r, Fit(N, L, r)
  PROVE  \A o : o \in Items!Listed(ItemsIn(N)) <=> \E n \in Live(N) : N[n].object = o
<1>1. PICK m \in Nat, q \in Seq(Item) :
        /\ q = ItemsIn(N) /\ q # NULL /\ DOMAIN q = 1..m
        /\ \A n \in Live(N) : r[n] \in 1..m /\ q[r[n]] = ItemOf(N, n)
        /\ \A i \in 1..m : \E n \in Live(N) : r[n] = i /\ q[i] = ItemOf(N, n)
  BY ItemsByRank
<1>2. Items!Listed(q) = {q[i].object : i \in DOMAIN q}
  BY <1>1 DEF Items!Listed
<1>3. \A n : ItemOf(N, n).object = N[n].object
  BY DEF ItemOf
<1>4. ASSUME NEW n \in Live(N) PROVE N[n].object \in Items!Listed(q)
  BY <1>1, <1>2, <1>3
<1>5. ASSUME NEW o \in Items!Listed(q) PROVE \E n \in Live(N) : N[n].object = o
  <2>1. PICK i \in 1..m : o = q[i].object
    BY <1>1, <1>2
  <2>2. PICK n \in Live(N) : q[i] = ItemOf(N, n)
    BY <1>1
  <2>3. QED BY <1>3, <2>1, <2>2
<1>6. QED BY <1>1, <1>4, <1>5

LEMMA AliveIsOwned ==
  ASSUME NEW N, NEW h, NEW c, CountTypes(h, c), Counts(N, h, c), NEW o \in Object
  PROVE  c[o] # Freed <=> h[o] > 0 \/ \E n \in Live(N) : N[n].object = o
<1>1. PICK a \in Nat, k \in Nat : a = h[o] /\ k = Cardinality(Places(N, o))
  <2>1. h[o] \in Nat /\ Cardinality(Places(N, o)) \in Nat
    BY OwnersAreNat
  <2>2. QED BY <2>1
<1>2. c[o] # Freed <=> a + k # 0
  BY <1>1, CountedIsFreed DEF Counts
<1>3. k = 0 <=> Places(N, o) = {}
  <2>1. Places(N, o) \in SUBSET Node
    BY DEF Places
  <2>2. QED BY <1>1, <2>1, NodesAreFinite
<1>4. Places(N, o) # {} <=> \E n \in Live(N) : N[n].object = o
  BY DEF Places, Live
<1>5. QED BY <1>1, <1>2, <1>3, <1>4

-----------------------------------------------------------------------------
(* The refinement of SortedItems, step by step.                            *)

LEMMA InsertsItem ==
  ASSUME Inv, NEW o \in Object, NEW score \in Score, NEW new \in Node,
         NEW level \in 1..SKIP_LIST_MAX_LEVEL, Insert(o, score, new, level)
  PROVE  Items!Insert(o, score)
<1>1. /\ skip_list # NULL /\ held[o] > 0
      /\ held' = [held EXCEPT ![o] = @ - 1] /\ reference_count' = reference_count
  BY DEF Insert
<1>2. PICK r : Fit(node, skip_list, r)
  BY <1>1 DEF Inv, NoList, HasOrder
<1>3. PICK path, P, s :
        /\ Inserting(r, s, path, P, node', skip_list', o, score, new, level)
        /\ skip_list' \in SkipLists /\ Fit(node', skip_list', s)
  BY <1>2, InsertInserts DEF Inv
<1>4. PICK m \in Nat, p \in Seq(Item) :
        /\ m = skip_list.length /\ p = ItemsIn(node) /\ p # NULL /\ Len(p) = m
        /\ \A i \in 1..m : \E n \in Live(node) : r[n] = i /\ p[i] = ItemOf(node, n)
  BY <1>2, ItemsByRank
<1>5. PICK item : item = [object |-> o, score |-> score]
  OBVIOUS
<1>6. PICK place \in 1..(Len(p) + 1) :
        place = P + 1 /\ ItemsIn(node') = InsertAt(p, place, item)
  BY <1>3, <1>4, <1>5, InsertedItems
<1>7. P \in Nat /\ P = path[0].rank /\ Split(r, path, o, score)
  BY <1>3 DEF Inserting
<1>8. ASSUME NEW i \in 1..m PROVE i <= P <=> Items!Less(p[i], item)
  <2>1. PICK n \in Live(node) : r[n] = i /\ p[i] = ItemOf(node, n)
    BY <1>4
  <2>2. i <= P <=> IsBefore(n, o, score)
    BY <1>7, <2>1 DEF Split
  <2>3. IsBefore(n, o, score) <=> Items!Less(p[i], item)
    BY <1>5, <2>1 DEF IsBefore, Items!Less, ItemOf
  <2>4. QED BY <2>2, <2>3
<1>9. ASSUME NEW i \in 1..(place - 1) PROVE Items!Less(p[i], item)
  <2>1. i \in 1..m /\ i <= P
    BY <1>4, <1>6, <1>7
  <2>2. QED BY <1>8, <2>1
<1>10. ASSUME NEW i \in place..Len(p) PROVE ~Items!Less(p[i], item)
  <2>1. i \in 1..m /\ ~(i <= P)
    BY <1>4, <1>6, <1>7
  <2>2. QED BY <1>8, <2>1
<1>11. ItemList = p
  BY <1>1, <1>4 DEF ItemList
<1>12. ItemList' = ItemsIn(node')
  BY <1>3, NullAssumption DEF ItemList, SkipLists
<1>13. Items!InsertAt(p, place, item) = InsertAt(p, place, item)
  BY DEF Items!InsertAt, InsertAt
<1>14. UNCHANGED Alive
  BY <1>1 DEF Alive
<1>15. ItemList' = Items!InsertAt(ItemList, place, item) /\ place \in 1..(Len(ItemList) + 1)
  BY <1>6, <1>11, <1>12, <1>13
<1>16. QED
  BY <1>1, <1>4, <1>5, <1>9, <1>10, <1>11, <1>14, <1>15 DEF Items!Insert

(* Who has no owner left is freed.                                         *)
LEMMA OwnedAreKept ==
  ASSUME Inv, CountTypes(held', reference_count'), Counts(node', held', reference_count'),
         \A o \in Object : held'[o] <= held[o],
         \A n \in Live(node') : n \in Live(node) /\ node'[n].object = node[n].object,
         \A o : o \in Items!Listed(ItemList') <=> \E n \in Live(node') : node'[n].object = o
  PROVE  Items!KeepOwned
<1>1. \A o \in Object :
        reference_count[o] # Freed <=> held[o] > 0 \/ \E n \in Live(node) : node[n].object = o
  BY AliveIsOwned DEF Inv
<1>2. \A o \in Object :
        reference_count'[o] # Freed <=>
          held'[o] > 0 \/ \E n \in Live(node') : node'[n].object = o
  BY AliveIsOwned
<1>3. \A o \in Object : held'[o] > 0 => held[o] > 0
  <2>1. \A o \in Object : held[o] \in Int /\ held'[o] \in Int
    BY ObjectsAssumption DEF Inv, CountTypes
  <2>2. QED BY <2>1
<1>4. \A o \in Object :
        reference_count'[o] # Freed <=>
          reference_count[o] # Freed /\ (held'[o] > 0 \/ o \in Items!Listed(ItemList'))
  BY <1>1, <1>2, <1>3
<1>5. QED BY <1>4 DEF Items!KeepOwned, Alive

LEMMA FreesItems ==
  ASSUME Inv, Inv', Free
  PROVE  Items!Free
<1>1. skip_list # NULL /\ skip_list' = NULL /\ held' = held
  BY DEF Free
<1>2. PICK r : Fit(node, skip_list, r)
  BY <1>1 DEF Inv, NoList, HasOrder
<1>3. ItemList # NULL /\ ItemList' = NULL
  BY <1>1, <1>2, ItemsByRank DEF ItemList
<1>4. Live(node') = {}
  <2>1. ToSet(Linked(node, 0)) = Live(node)
    BY <1>2, LinkedRanks
  <2>2. node' = [n \in DOMAIN node |->
                   IF n = HeadNode \/ n \in ToSet(Linked(node, 0)) THEN NULL ELSE node[n]]
    BY DEF Free
  <2>3. \A n \in Node : node'[n] = NULL
    BY <2>1, <2>2 DEF Inv, Live
  <2>4. QED BY <2>3 DEF Live
<1>5. Items!Listed(ItemList') = {}
  BY <1>3 DEF Items!Listed
<1>6. \A o \in Object : held'[o] <= held[o]
  BY <1>1, OwnersAreNat DEF Inv
<1>7. Items!KeepOwned
  <2>1. CountTypes(held', reference_count') /\ Counts(node', held', reference_count')
    BY DEF Inv
  <2>2. QED BY <1>4, <1>5, <1>6, <2>1, OwnedAreKept
<1>8. QED BY <1>1, <1>3, <1>7 DEF Items!Free

LEMMA ReleasesItem ==
  ASSUME Inv, Inv', NEW o \in Object, Release(o), UNCHANGED <<skip_list, node>>
  PROVE  Items!Release(o)
<1>1. /\ held[o] > 0 /\ held' = [held EXCEPT ![o] = @ - 1]
      /\ skip_list' = skip_list /\ node' = node
  BY DEF Release
<1>2. ItemList' = ItemList
  BY <1>1 DEF ItemList
<1>3. \A p : p \in Items!Listed(ItemList) <=> \E n \in Live(node) : node[n].object = p
  <2>1. CASE NoList
    <3>1. Live(node) = {} /\ ItemList = NULL
      BY <2>1 DEF Inv, NoList, Live, ItemList
    <3>2. QED BY <3>1 DEF Items!Listed
  <2>2. CASE HasOrder
    <3>1. PICK r : Fit(node, skip_list, r)
      BY <2>2 DEF HasOrder
    <3>2. ItemList = ItemsIn(node)
      BY <3>1, ListIsNotNull DEF ItemList
    <3>3. QED BY <3>1, <3>2, ListedObjects
  <2>3. QED BY <2>1, <2>2 DEF Inv
<1>4. \A p \in Object : held'[p] <= held[p]
  <2>1. \A p \in Object : held[p] \in Int
    BY ObjectsAssumption DEF Inv, CountTypes
  <2>2. \A p \in Object : held'[p] = IF p = o THEN held[p] - 1 ELSE held[p]
    BY <1>1 DEF Inv, CountTypes
  <2>3. QED BY <2>1, <2>2
<1>5. Items!KeepOwned
  <2>1. CountTypes(held', reference_count') /\ Counts(node', held', reference_count')
    BY DEF Inv
  <2>2. QED BY <1>1, <1>2, <1>3, <1>4, <2>1, OwnedAreKept
<1>6. QED BY <1>1, <1>2, <1>5 DEF Items!Release

LEMMA MakesObject ==
  ASSUME Inv, NEW o \in Object, NewObject(o), UNCHANGED <<skip_list, node>>
  PROVE  Items!Make(o)
<1>1. /\ reference_count[o] = Freed
      /\ reference_count' = [reference_count EXCEPT ![o] = 1]
      /\ held' = [held EXCEPT ![o] = 1]
  BY DEF NewObject
<1>2. \A p \in Object : reference_count'[p] # Freed <=> reference_count[p] # Freed \/ p = o
  <2>1. \A p \in Object : reference_count'[p] = IF p = o THEN 1 ELSE reference_count[p]
    BY <1>1 DEF Inv, CountTypes
  <2>2. QED BY <2>1, ObjectsAssumption
<1>3. o \notin Alive /\ Alive' = Alive \cup {o}
  BY <1>1, <1>2 DEF Alive
<1>4. ItemList' = ItemList
  BY DEF ItemList
<1>5. QED BY <1>1, <1>3, <1>4 DEF Items!Make

LEMMA RetainsObject ==
  ASSUME Inv, NEW o \in Object, Retain(o), UNCHANGED <<skip_list, node>>
  PROVE  Items!Retain(o)
<1>1. /\ held[o] \in 1..(MaxHeld - 1)
      /\ reference_count' = [reference_count EXCEPT ![o] = @ + 1]
      /\ held' = [held EXCEPT ![o] = @ + 1]
  BY DEF Retain
<1>2. \A p \in Object : reference_count'[p] # Freed <=> reference_count[p] # Freed
  <2>1. held[o] > 0
    BY <1>1, ObjectsAssumption
  <2>2. reference_count[o] # Freed
    BY <2>1, AliveIsOwned DEF Inv
  <2>3. reference_count[o] \in Nat /\ reference_count[o] + 1 # Freed
    BY <2>2, ObjectsAssumption DEF Inv, CountTypes
  <2>4. \A p \in Object :
          reference_count'[p] = IF p = o THEN reference_count[o] + 1 ELSE reference_count[p]
    BY <1>1 DEF Inv, CountTypes
  <2>5. QED BY <2>2, <2>3, <2>4
<1>3. Alive' = Alive
  BY <1>2 DEF Alive
<1>4. ItemList' = ItemList
  BY DEF ItemList
<1>5. QED BY <1>1, <1>3, <1>4 DEF Items!Retain

LEMMA CreatesItems ==
  ASSUME Inv, Create
  PROVE  Items!Create
<1>1. skip_list = NULL /\ skip_list' = EmptyList /\ UNCHANGED <<reference_count, held>>
  BY DEF Create, objectVars
<1>2. PICK r : Fit(node', skip_list', r)
  BY CreateFits
<1>3. skip_list'.length = 0
  BY <1>1 DEF EmptyList
<1>4. ItemsIn(node') = <<>>
  <2>1. ItemsIn(node') \in Seq(Item) /\ Len(ItemsIn(node')) = 0
    BY <1>2, <1>3, ItemsByRank
  <2>2. QED BY <2>1
<1>5. ItemList = NULL /\ ItemList' = <<>>
  <2>1. skip_list' # NULL
    BY <1>2, NullAssumption DEF Fit, SkipLists
  <2>2. QED BY <1>1, <1>4, <2>1 DEF ItemList
<1>6. UNCHANGED Alive
  BY <1>1 DEF Alive
<1>7. QED BY <1>1, <1>5, <1>6 DEF Items!Create

LEMMA InitItems == Init => Items!Init
<1> SUFFICES ASSUME Init PROVE Items!Init
  OBVIOUS
<1>1. /\ skip_list = NULL
      /\ reference_count = [o \in Object |-> Freed] /\ held = [o \in Object |-> 0]
  BY DEF Init, InitObjects
<1>2. ItemList = NULL /\ Alive = {}
  BY <1>1 DEF ItemList, Alive
<1>3. QED BY <1>1, <1>2 DEF Items!Init

LEMMA NextItems == Inv /\ [Next]_vars => [Items!Next]_(Items!vars)
<1> SUFFICES ASSUME Inv, [Next]_vars PROVE [Items!Next]_(Items!vars)
  OBVIOUS
<1>0. Inv'
  BY NextInv
<1>1. CASE Create
  BY <1>1, CreatesItems DEF Items!Next
<1>2. ASSUME NEW o \in Object, NEW score \in Score, NEW new \in Node,
             NEW level \in 1..SKIP_LIST_MAX_LEVEL, Insert(o, score, new, level)
      PROVE  Items!Next
  BY <1>2, InsertsItem DEF Items!Next
<1>3. CASE Free
  BY <1>0, <1>3, FreesItems DEF Items!Next
<1>4. ASSUME NEW o \in Object, NewObject(o), UNCHANGED <<skip_list, node>>
      PROVE  Items!Next
  BY <1>4, MakesObject DEF Items!Next
<1>5. ASSUME NEW o \in Object, Retain(o), UNCHANGED <<skip_list, node>>
      PROVE  Items!Next
  BY <1>5, RetainsObject DEF Items!Next
<1>6. ASSUME NEW o \in Object, Release(o), UNCHANGED <<skip_list, node>>
      PROVE  Items!Next
  BY <1>0, <1>6, ReleasesItem DEF Items!Next
<1>7. CASE UNCHANGED vars
  BY <1>7 DEF vars, Items!vars, ItemList, Alive
<1>8. QED BY <1>1, <1>2, <1>3, <1>4, <1>5, <1>6, <1>7 DEF Next

(* Links, spans and levels implement a sequence of objects in the order of *)
(* their scores and names: SkipListInsert() puts the item where the whole  *)
(* sequence says, whichever levels the search went down; and an object is  *)
(* freed with its last owner, caller or node.                              *)
THEOREM LevelsImplementOrder == Spec => ImplementsSortedItems
<1>1. Init => Items!Init
  BY InitItems
<1>2. Inv /\ [Next]_vars => [Items!Next]_(Items!vars)
  BY NextItems
<1>3. QED BY <1>1, <1>2, Invariance, PTL DEF Spec, ImplementsSortedItems, Items!Spec

=============================================================================
