----------------------- MODULE DoubleLinkedListProofs -----------------------
(***************************************************************************)
(* Proofs about the doubly linked lists, for any sets of lists, nodes and  *)
(* values.                                                                 *)
(*                                                                         *)
(* The properties speak of walks along the links; the argument speaks of   *)
(* paths, one sequence of nodes for each list.  Fit() says that links,     *)
(* ends, lengths and the nodes in the heap are those of given paths, and   *)
(* WalkIsPath and WalkIsReverse that the walks are then the paths and      *)
(* their reverses.  Each call is shown to insert, remove, rotate, free or  *)
(* copy on one path; what it does to the iterator and to the counts of     *)
(* values follows from that.  Inv says it all of the walks themselves.     *)
(***************************************************************************)
EXTENDS DoubleLinkedList, NaturalLemmas, SequenceTheorems

(* Every link of heap N in a direction goes to a node or nowhere.          *)
Heap(N, direction) == \A m \in Node : Link(N, m, direction) \in Node \cup {NULL}

(* The walk meets its recursive equation.                                  *)
LEMMA WalkRecursion ==
  ASSUME NEW N, NEW direction, Heap(N, direction), NEW n \in Node \cup {NULL}
  PROVE  \E walk :
           /\ Walk(N, n, direction) = walk[Cardinality(Node) + 1][n]
           /\ \A k \in 0..(Cardinality(Node) + 1), m \in Node \cup {NULL} :
                walk[k][m] = IF m = NULL \/ k = 0 THEN <<>>
                             ELSE <<m>> \o walk[k - 1][Link(N, m, direction)]
<1> DEFINE A == Node \cup {NULL}
           D == [A -> Seq(Node)]
           nothing == [m \in A |-> <<>>]
           longer == [k \in Nat |-> [x \in D |-> [m \in A |->
             IF m = NULL THEN <<>> ELSE <<m>> \o x[Link(N, m, direction)]]]]
<1>1. nothing \in D /\ longer \in [Nat -> [D -> D]]
  <2>1. nothing \in D
    OBVIOUS
  <2>2. ASSUME NEW x \in D
        PROVE  [m \in A |-> IF m = NULL THEN <<>> ELSE <<m>> \o x[Link(N, m, direction)]] \in D
    <3>1. ASSUME NEW m \in A, m # NULL PROVE <<m>> \o x[Link(N, m, direction)] \in Seq(Node)
      <4>1. Link(N, m, direction) \in A
        BY <3>1 DEF Heap
      <4>2. x[Link(N, m, direction)] \in Seq(Node)
        BY <4>1
      <4>3. <<m>> \in Seq(Node)
        BY <3>1
      <4>4. QED BY <4>2, <4>3, ConcatProperties
    <3>2. QED BY <3>1
  <2>3. QED BY <2>1, <2>2
<1>2. PICK M \in Nat : M = Cardinality(Node) + 1
  BY NodeAssumption, FS_CardinalityType
<1>3. PICK h \in [0..M -> D] :
        h[0] = nothing /\ \A k \in 1..M : h[k] = longer[k][h[k - 1]]
  <2> HIDE DEF D, nothing, longer
  <2>1. \A m \in Nat : \E h \in [0..m -> D] :
          h[0] = nothing /\ \A k \in 1..m : h[k] = longer[k][h[k - 1]]
    BY <1>1, IterationExists
  <2>2. QED BY <2>1
<1> DEFINE walk[k \in 0..M] ==
             [m \in A |-> IF m = NULL \/ k = 0 THEN <<>>
                          ELSE <<m>> \o walk[k - 1][Link(N, m, direction)]]
<1>4. ASSUME NEW k \in 0..M
      PROVE  h[k] = [m \in A |-> IF m = NULL \/ k = 0 THEN <<>>
                                 ELSE <<m>> \o h[k - 1][Link(N, m, direction)]]
  <2>1. CASE k = 0
    BY <1>3, <2>1
  <2>2. CASE k # 0
    <3>1. k \in 1..M /\ k \in Nat /\ k - 1 \in 0..M
      BY <1>2, <2>2
    <3>2. h[k] = longer[k][h[k - 1]] /\ h[k - 1] \in D
      BY <1>3, <3>1
    <3>3. QED BY <2>2, <3>1, <3>2
  <2>3. QED BY <2>1, <2>2
<1>5. h = [k \in 0..M |-> [m \in A |-> IF m = NULL \/ k = 0 THEN <<>>
                                 ELSE <<m>> \o h[k - 1][Link(N, m, direction)]]]
  <2> HIDE DEF A
  <2> QED BY <1>4
<1>6. walk = [k \in 0..M |-> [m \in A |-> IF m = NULL \/ k = 0 THEN <<>>
                                 ELSE <<m>> \o walk[k - 1][Link(N, m, direction)]]]
  <2> HIDE DEF A
  <2> QED BY <1>5, Zenon
<1>7. Walk(N, n, direction) = walk[M][n]
  BY <1>2 DEF Walk
<1> HIDE DEF walk
<1>8. ASSUME NEW k \in 0..M, NEW m \in A
      PROVE  walk[k][m] = IF m = NULL \/ k = 0 THEN <<>>
                          ELSE <<m>> \o walk[k - 1][Link(N, m, direction)]
  <2>1. walk[k] = [i \in A |-> IF i = NULL \/ k = 0 THEN <<>>
                               ELSE <<i>> \o walk[k - 1][Link(N, i, direction)]]
    <3> HIDE DEF A
    <3> QED BY <1>6
  <2> HIDE DEF A
  <2>2. QED BY <2>1
<1>9. QED BY <1>2, <1>7, <1>8

(* The nodes of p, from start on, are linked in a direction.               *)
Follows(N, p, start, direction) ==
  /\ start = IF p = <<>> THEN NULL ELSE p[1]
  /\ \A i \in 1..Len(p) :
       Link(N, p[i], direction) = IF i = Len(p) THEN NULL ELSE p[i + 1]

(* A path is not longer than there are nodes, so that Walk() is long       *)
(* enough.                                                                 *)
LEMMA PathLength ==
  ASSUME NEW p \in Seq(Node), IsInjective(p)
  PROVE  Len(p) <= Cardinality(Node)
<1>1. p \in Injection(1..Len(p), Node)
  BY DEF Injection, IsInjective
<1>2. Cardinality(1..Len(p)) <= Cardinality(Node)
  BY <1>1, NodeAssumption, FS_Injection
<1>3. Cardinality(1..Len(p)) = Len(p)
  <2>1. PICK n \in Nat : n = Len(p)
    OBVIOUS
  <2>2. Cardinality(1..n) = IF 1 > n THEN 0 ELSE n - 1 + 1
    BY FS_Interval
  <2>3. QED BY <2>1, <2>2
<1>4. QED BY <1>2, <1>3

(* A walk meets the nodes of a path in their order.                        *)
LEMMA WalkFollows ==
  ASSUME NEW N, NEW direction, Heap(N, direction), NEW start,
         NEW p \in Seq(Node), IsInjective(p), Follows(N, p, start, direction)
  PROVE  Walk(N, start, direction) = p
<1> DEFINE L == Len(p)
           At(i) == IF i > L THEN NULL ELSE p[i]
<1>1. PICK M \in Nat : M = Cardinality(Node) + 1 /\ L < M
  BY PathLength, NodeAssumption, FS_CardinalityType
<1>2. start = At(1) /\ start \in Node \cup {NULL}
  BY DEF Follows
<1>3. PICK walk :
        /\ Walk(N, start, direction) = walk[M][start]
        /\ \A k \in 0..M, m \in Node \cup {NULL} :
             walk[k][m] = IF m = NULL \/ k = 0 THEN <<>>
                          ELSE <<m>> \o walk[k - 1][Link(N, m, direction)]
  BY <1>1, <1>2, WalkRecursion
<1> DEFINE Meets(j) == j <= L => \A k \in j..M : walk[k][At(L - j + 1)] = SubSeq(p, L - j + 1, L)
           S == {j \in Nat : Meets(j)}
<1>4. 0 \in S
  <2>1. ASSUME NEW k \in 0..M PROVE walk[k][At(L + 1)] = SubSeq(p, L + 1, L)
    <3>1. At(L + 1) = NULL
      OBVIOUS
    <3>2. walk[k][NULL] = <<>>
      BY <1>3
    <3>3. SubSeq(p, L + 1, L) = <<>>
      BY SubSeqEmpty
    <3>4. QED BY <3>1, <3>2, <3>3
  <2>2. L - 0 + 1 = L + 1
    OBVIOUS
  <2>3. QED BY <2>1, <2>2
<1>5. ASSUME NEW j \in S PROVE j + 1 \in S
  <2>0. j \in Nat /\ L \in Nat /\ Meets(j)
    OBVIOUS
  <2> HIDE DEF S
  <2> SUFFICES Meets(j + 1)
    BY <2>0 DEF S
  <2> SUFFICES ASSUME j + 1 <= L, NEW k \in (j + 1)..M
               PROVE  walk[k][At(L - (j + 1) + 1)] = SubSeq(p, L - (j + 1) + 1, L)
    OBVIOUS
  <2>1. PICK i \in 1..L : i = L - j
    <3> HIDE DEF L, At
    <3> QED BY <2>0
  <2>2. L - (j + 1) + 1 = i /\ L - j + 1 = i + 1 /\ At(i) = p[i] /\ p[i] \in Node
    BY <2>0, <2>1
  <2>3. k - 1 \in j..M /\ k \in 0..M /\ k # 0
    <3>1. j \in Nat
      BY <2>0
    <3>2. k \in Int /\ j + 1 <= k /\ k <= M
      BY <2>0
    <3>3. QED BY <3>1, <3>2
  <2>4. walk[k][p[i]] = <<p[i]>> \o walk[k - 1][Link(N, p[i], direction)]
    BY <1>3, <2>2, <2>3, NullAssumption
  <2>5. Link(N, p[i], direction) = At(i + 1)
    BY <2>1 DEF Follows
  <2>6. walk[k - 1][At(i + 1)] = SubSeq(p, i + 1, L)
    BY <2>0, <2>1, <2>2, <2>3
  <2>7. SubSeq(p, i, L) = <<p[i]>> \o SubSeq(p, i + 1, L)
    <3>1. i \in 1..Len(p) /\ Len(p) \in i..Len(p)
      BY <2>0
    <3>2. QED BY <3>1, SubSeqRecursiveFirst
  <2>8. QED BY <2>2, <2>4, <2>5, <2>6, <2>7
<1>6. S = Nat
  <2> HIDE DEF Meets
  <2>1. S \in SUBSET Nat
    OBVIOUS
  <2> HIDE DEF S
  <2>2. QED BY <1>4, <1>5, <2>1, NaturalInduction
<1>7. walk[M][At(1)] = SubSeq(p, 1, L)
  <2>1. L \in S /\ L \in Nat
    <3> HIDE DEF S
    <3> QED BY <1>6
  <2>2. M \in L..M /\ L - L + 1 = 1
    BY <1>1
  <2>3. QED BY <2>1, <2>2
<1>8. QED BY <1>2, <1>3, <1>7, SubSeqFull

-----------------------------------------------------------------------------
(* Sequences.                                                              *)

(* The elements of a sequence without that at place i.                     *)
LEMMA RemoveAtPosition ==
  ASSUME NEW S, NEW p \in Seq(S), NEW i \in 1..Len(p)
  PROVE  /\ RemoveAt(p, i) \in Seq(S)
         /\ Len(RemoveAt(p, i)) = Len(p) - 1
         /\ \A j \in 1..(Len(p) - 1) : RemoveAt(p, i)[j] = IF j < i THEN p[j] ELSE p[j + 1]
<1>1. PICK a \in Seq(S), c \in Seq(S) :
        a = SubSeq(p, 1, i - 1) /\ c = SubSeq(p, i + 1, Len(p))
  <2>1. SubSeq(p, 1, i - 1) \in Seq(S) /\ SubSeq(p, i + 1, Len(p)) \in Seq(S)
    OBVIOUS
  <2>2. QED BY <2>1
<1>2. Len(a) = i - 1 /\ \A j \in 1..(i - 1) : a[j] = p[j]
  BY <1>1
<1>3. Len(c) = Len(p) - i /\ \A j \in 1..(Len(p) - i) : c[j] = p[j + i]
  BY <1>1
<1>4. RemoveAt(p, i) = a \o c
  BY <1>1 DEF RemoveAt
<1>5. PICK k \in Nat : k = Len(p)
  OBVIOUS
<1>6. a \o c \in Seq(S) /\ Len(a \o c) = k - 1
  <2>1. a \o c \in Seq(S) /\ Len(a \o c) = Len(a) + Len(c)
    BY ConcatProperties
  <2>2. QED BY <1>2, <1>3, <1>5, <2>1
<1>7. ASSUME NEW j \in 1..(k - 1)
      PROVE  (a \o c)[j] = IF j < i THEN p[j] ELSE p[j + 1]
  <2>1. (a \o c)[j] = IF j <= i - 1 THEN a[j] ELSE c[j - (i - 1)]
    BY <1>2, <1>3, <1>5, ConcatProperties
  <2>2. CASE j < i
    BY <1>2, <1>5, <2>1, <2>2
  <2>3. CASE j >= i
    <3>1. j - (i - 1) \in 1..(k - i) /\ (j - (i - 1)) + i = j + 1
      BY <1>5, <2>3
    <3>2. c[j - (i - 1)] = p[j + 1]
      BY <1>3, <1>5, <3>1
    <3>3. ~(j <= i - 1) /\ ~(j < i)
      BY <2>3
    <3>4. QED BY <2>1, <3>2, <3>3
  <2>4. j < i \/ j >= i
    OBVIOUS
  <2>5. QED BY <2>2, <2>3, <2>4
<1>8. QED BY <1>4, <1>5, <1>6, <1>7

(* The elements of a sequence whose last becomes the first.                *)
LEMMA RotatedPosition ==
  ASSUME NEW S, NEW p \in Seq(S), p # <<>>
  PROVE  /\ <<Last(p)>> \o Front(p) \in Seq(S)
         /\ Len(<<Last(p)>> \o Front(p)) = Len(p)
         /\ \A j \in 1..Len(p) :
              (<<Last(p)>> \o Front(p))[j] = IF j = 1 THEN p[Len(p)] ELSE p[j - 1]
<1>1. PICK k \in Nat \ {0} : k = Len(p)
  OBVIOUS
<1>2. PICK a \in Seq(S), c \in Seq(S) : a = <<p[k]>> /\ c = SubSeq(p, 1, k - 1)
  <2>1. <<p[k]>> \in Seq(S) /\ SubSeq(p, 1, k - 1) \in Seq(S)
    BY <1>1
  <2>2. QED BY <2>1
<1>3. Len(a) = 1 /\ a[1] = p[k]
  BY <1>2
<1>4. Len(c) = k - 1 /\ \A j \in 1..(k - 1) : c[j] = p[j]
  BY <1>1, <1>2
<1>5. <<Last(p)>> \o Front(p) = a \o c
  BY <1>1, <1>2 DEF Last, Front
<1>6. a \o c \in Seq(S) /\ Len(a \o c) = k
  <2>1. a \o c \in Seq(S) /\ Len(a \o c) = Len(a) + Len(c)
    BY ConcatProperties
  <2>2. QED BY <1>3, <1>4, <2>1
<1>7. ASSUME NEW j \in 1..k
      PROVE  (a \o c)[j] = IF j = 1 THEN p[k] ELSE p[j - 1]
  <2>1. (a \o c)[j] = IF j <= 1 THEN a[j] ELSE c[j - 1]
    <3>1. j \in 1..(Len(a) + Len(c))
      BY <1>3, <1>4
    <3>2. (a \o c)[j] = IF j <= Len(a) THEN a[j] ELSE c[j - Len(a)]
      BY <3>1, ConcatProperties
    <3>3. QED BY <1>3, <3>2
  <2>2. CASE j = 1
    BY <1>3, <2>1, <2>2
  <2>3. CASE j # 1
    <3>1. j - 1 \in 1..(k - 1) /\ ~(j <= 1)
      BY <2>3
    <3>2. QED BY <1>4, <2>1, <2>3, <3>1
  <2>4. QED BY <2>2, <2>3
<1>8. QED BY <1>1, <1>5, <1>6, <1>7

-----------------------------------------------------------------------------
(* Heaps and the assignments to them.                                      *)

(* The types of pointers, heaps and list records.                          *)
Pointer == Node \cup {NULL}

Heaps == [Node -> [previous : Node \cup {NULL}, next : Node \cup {NULL},
                   value : Value \cup {NULL}]]

Lists == [head : Node \cup {NULL}, tail : Node \cup {NULL},
          length : Nat, status : {"absent", "live", "dangling"}]

(* A typed heap has typed links in both directions.                        *)
LEMMA HeapOfHeaps ==
  ASSUME NEW N \in Heaps, NEW direction
  PROVE  Heap(N, direction)
BY DEF Heaps, Heap, Link

(* An assignment to next_ changes that field of that node only.            *)
LEMMA SetNextFields ==
  ASSUME NEW N \in Heaps, NEW n \in Pointer, NEW m \in Pointer
  PROVE  /\ SetNext(N, n, m) \in Heaps
         /\ \A k \in Node :
              /\ SetNext(N, n, m)[k].previous = N[k].previous
              /\ SetNext(N, n, m)[k].next = IF k = n THEN m ELSE N[k].next
              /\ SetNext(N, n, m)[k].value = N[k].value
              /\ k # n => SetNext(N, n, m)[k] = N[k]
BY NullAssumption DEF Pointer, Heaps, SetNext

(* An assignment to previous_ changes that field of that node only.        *)
LEMMA SetPreviousFields ==
  ASSUME NEW N \in Heaps, NEW n \in Pointer, NEW m \in Pointer
  PROVE  /\ SetPrevious(N, n, m) \in Heaps
         /\ \A k \in Node :
              /\ SetPrevious(N, n, m)[k].previous = IF k = n THEN m ELSE N[k].previous
              /\ SetPrevious(N, n, m)[k].next = N[k].next
              /\ SetPrevious(N, n, m)[k].value = N[k].value
              /\ k # n => SetPrevious(N, n, m)[k] = N[k]
BY NullAssumption DEF Pointer, Heaps, SetPrevious

(* A new node disturbs no other.                                           *)
LEMMA NewNodeFields ==
  ASSUME NEW N \in Heaps, NEW n \in Node, NEW before \in Pointer,
         NEW behind \in Pointer, NEW v \in Value
  PROVE  /\ NewNode(N, n, before, behind, v) \in Heaps
         /\ NewNode(N, n, before, behind, v)[n] =
              [previous |-> before, next |-> behind, value |-> v]
         /\ \A k \in Node \ {n} : NewNode(N, n, before, behind, v)[k] = N[k]
BY DEF Pointer, Heaps, NewNode

-----------------------------------------------------------------------------
(* The paths that the lists are.                                           *)

(* The neighbours of place i of path p.                                    *)
Before(p, i) == IF i = 1 THEN NULL ELSE p[i - 1]
Behind(p, i) == IF i = Len(p) THEN NULL ELSE p[i + 1]

(* p is the list with record L in heap N.                                  *)
IsPath(N, L, p) ==
  /\ p \in Seq(Node) /\ IsInjective(p)
  /\ L.length = Len(p)
  /\ L.head = IF p = <<>> THEN NULL ELSE p[1]
  /\ L.tail = IF p = <<>> THEN NULL ELSE p[Len(p)]
  /\ \A i \in 1..Len(p) :
       /\ N[p[i]].previous = Before(p, i)
       /\ N[p[i]].next = Behind(p, i)
       /\ N[p[i]].value \in Value

(* The paths P are the lists with records S, and all that is in heap N.    *)
Fit(N, S, P) ==
  /\ P \in [List -> Seq(Node)]
  /\ \A l \in List : IsPath(N, S[l], P[l])
  /\ \A l \in List : S[l].status # "live" => P[l] = <<>>
  /\ \A l, k \in List : l # k => Range(P[l]) \cap Range(P[k]) = {}
  /\ \A n \in Node : N[n] # NoNode => \E l \in List : n \in Range(P[l])

(* The nodes of a path are those at its places.                            *)
LEMMA RangePositions ==
  ASSUME NEW S, NEW p \in Seq(S)
  PROVE  /\ \A n : n \in Range(p) <=> \E i \in 1..Len(p) : p[i] = n
         /\ Range(p) \subseteq S
BY DEF Range

(* No node is at two places of an injective path.                          *)
LEMMA InjectivePositions ==
  ASSUME NEW S, NEW p \in Seq(S)
  PROVE  IsInjective(p) <=> \A i, j \in 1..Len(p) : p[i] = p[j] => i = j
BY DEF IsInjective

(* The walk from the head is the path.                                     *)
LEMMA WalkIsPath ==
  ASSUME NEW N \in Heaps, NEW L, NEW p, IsPath(N, L, p)
  PROVE  Walk(N, L.head, FROM_HEAD_TO_TAIL) = p
<1>1. Follows(N, p, L.head, FROM_HEAD_TO_TAIL)
  BY DEF IsPath, Follows, Link, Behind
<1>2. QED BY <1>1, HeapOfHeaps, WalkFollows DEF IsPath

(* The walk from the tail is the path backwards.                           *)
LEMMA WalkIsReverse ==
  ASSUME NEW N \in Heaps, NEW L, NEW p, IsPath(N, L, p)
  PROVE  Walk(N, L.tail, FROM_TAIL_TO_HEAD) = Reverse(p)
<1>1. p \in Seq(Node) /\ IsInjective(p)
  BY DEF IsPath
<1>2. /\ Reverse(p) \in Seq(Node) /\ Len(Reverse(p)) = Len(p)
      /\ \A i \in 1..Len(p) : Reverse(p)[i] = p[Len(p) - i + 1]
  BY <1>1 DEF Reverse
<1>3. PICK q \in Seq(Node) : q = Reverse(p)
  BY <1>2
<1>4. Len(q) = Len(p) /\ \A i \in 1..Len(p) : q[i] = p[Len(p) - i + 1]
  BY <1>2, <1>3
<1>5. IsInjective(q)
  <2>1. ASSUME NEW i \in 1..Len(q), NEW j \in 1..Len(q), q[i] = q[j] PROVE i = j
    <3>1. PICK a \in 1..Len(p), b \in 1..Len(p) :
            a = Len(p) - i + 1 /\ b = Len(p) - j + 1
      <4>1. Len(p) - i + 1 \in 1..Len(p) /\ Len(p) - j + 1 \in 1..Len(p)
        BY <1>4
      <4>2. QED BY <4>1
    <3>2. p[a] = p[b]
      BY <1>4, <2>1, <3>1
    <3>3. a = b
      BY <1>1, <3>2, InjectivePositions
    <3>4. QED BY <1>1, <3>1, <3>3
  <2>2. QED BY <2>1, InjectivePositions
<1>6. Follows(N, q, L.tail, FROM_TAIL_TO_HEAD)
  <2>1. L.tail = IF q = <<>> THEN NULL ELSE q[1]
    <3>1. CASE p = <<>>
      BY <1>4, <3>1 DEF IsPath
    <3>2. CASE p # <<>>
      BY <1>1, <1>4, <3>2 DEF IsPath
    <3>3. QED BY <3>1, <3>2
  <2>2. ASSUME NEW i \in 1..Len(q)
        PROVE  N[q[i]].previous = IF i = Len(q) THEN NULL ELSE q[i + 1]
    <3>1. PICK j \in 1..Len(p) : j = Len(p) - i + 1
      BY <1>4
    <3>2. q[i] = p[j] /\ N[p[j]].previous = IF j = 1 THEN NULL ELSE p[j - 1]
      BY <1>4, <3>1 DEF IsPath, Before
    <3>3. j = 1 <=> i = Len(q)
      BY <1>4, <3>1
    <3>4. ASSUME i # Len(q) PROVE q[i + 1] = p[j - 1]
      BY <1>4, <3>1, <3>4
    <3>5. QED BY <3>2, <3>3, <3>4
  <2>3. QED BY <2>1, <2>2 DEF Follows, Link, FROM_TAIL_TO_HEAD, FROM_HEAD_TO_TAIL
<1>7. QED BY <1>3, <1>5, <1>6, HeapOfHeaps, WalkFollows

(* One path is replaced, and with it the nodes of the heap.                *)
LEMMA PathReplaced ==
  ASSUME NEW N, NEW M, NEW S, NEW P, Fit(N, S, P), NEW l \in List, NEW L, NEW q,
         DOMAIN S = List,
         IsPath(M, L, q), L.status # "live" => q = <<>>,
         \A n \in Range(q) \ Range(P[l]) : N[n] = NoNode,
         \A n \in Node \ (Range(P[l]) \cup Range(q)) : M[n] = N[n],
         \A n \in Range(P[l]) \ Range(q) : M[n] = NoNode
  PROVE  Fit(M, [S EXCEPT ![l] = L], [P EXCEPT ![l] = q])
<1> DEFINE Q == [P EXCEPT ![l] = q]
           T == [S EXCEPT ![l] = L]
<1>1. P \in [List -> Seq(Node)] /\ q \in Seq(Node)
  BY DEF Fit, IsPath
<1>2. Q \in [List -> Seq(Node)] /\ Q[l] = q /\ \A k \in List \ {l} : Q[k] = P[k]
  BY <1>1
<1>3. T[l] = L /\ \A k \in List \ {l} : T[k] = S[k]
  OBVIOUS
<1> HIDE DEF Q, T
<1>4. ASSUME NEW k \in List, k # l PROVE Range(P[k]) \cap Range(q) = {}
  <2>1. ASSUME NEW n \in Range(P[k]), n \in Range(q) PROVE FALSE
    <3>1. n \notin Range(P[l])
      BY <1>4 DEF Fit
    <3>2. PICK i \in 1..Len(P[k]) : P[k][i] = n
      BY <1>1, RangePositions
    <3>3. N[n].value \in Value
      BY <3>2 DEF Fit, IsPath
    <3>4. N[n] = NoNode
      BY <2>1, <3>1
    <3>5. QED BY <3>3, <3>4, NullAssumption DEF NoNode
  <2>2. QED BY <2>1
<1>5. ASSUME NEW k \in List, k # l, NEW i \in 1..Len(P[k]) PROVE M[P[k][i]] = N[P[k][i]]
  <2>1. P[k][i] \in Range(P[k]) /\ P[k][i] \in Node
    BY <1>1, RangePositions
  <2>2. P[k][i] \notin Range(P[l]) /\ P[k][i] \notin Range(q)
    BY <1>4, <1>5, <2>1 DEF Fit
  <2>3. QED BY <2>1, <2>2
<1>6. ASSUME NEW k \in List PROVE IsPath(M, T[k], Q[k])
  <2>1. CASE k = l
    BY <1>2, <1>3, <2>1
  <2>2. CASE k # l
    <3>1. IsPath(N, S[k], P[k])
      BY DEF Fit
    <3>2. QED BY <1>2, <1>3, <1>5, <2>2, <3>1 DEF IsPath
  <2>3. QED BY <2>1, <2>2
<1>7. \A k \in List : T[k].status # "live" => Q[k] = <<>>
  BY <1>2, <1>3 DEF Fit
<1>8. \A k, j \in List : k # j => Range(Q[k]) \cap Range(Q[j]) = {}
  <2>1. ASSUME NEW k \in List, NEW j \in List, k # j
        PROVE  Range(Q[k]) \cap Range(Q[j]) = {}
    <3>1. CASE k = l
      BY <1>2, <1>4, <2>1, <3>1
    <3>2. CASE j = l
      BY <1>2, <1>4, <2>1, <3>2
    <3>3. CASE k # l /\ j # l
      BY <1>2, <2>1, <3>3 DEF Fit
    <3>4. QED BY <3>1, <3>2, <3>3
  <2>2. QED BY <2>1
<1>9. ASSUME NEW n \in Node, M[n] # NoNode PROVE \E k \in List : n \in Range(Q[k])
  <2>1. CASE n \in Range(q)
    BY <1>2, <2>1
  <2>2. CASE n \notin Range(q)
    <3>1. n \notin Range(P[l]) /\ M[n] = N[n]
      BY <1>9, <2>2
    <3>2. PICK k \in List : n \in Range(P[k])
      BY <1>9, <3>1 DEF Fit
    <3>3. QED BY <1>2, <3>1, <3>2
  <2>3. QED BY <2>1, <2>2
<1>10. Fit(M, T, Q)
  BY <1>2, <1>6, <1>7, <1>8, <1>9 DEF Fit
<1>11. QED BY <1>10 DEF T, Q

(* Node n is new at place i of path p: what the heap M has of it, and what *)
(* it has of the other nodes of heap N.                                    *)
InsertedHeap(N, M, p, i, n, v) ==
  /\ M[n] = [previous |-> IF i = 1 THEN NULL ELSE p[i - 1],
             next |-> IF i = Len(p) + 1 THEN NULL ELSE p[i], value |-> v]
  /\ \A j \in 1..Len(p) :
       /\ M[p[j]].previous = IF j = i THEN n ELSE N[p[j]].previous
       /\ M[p[j]].next = IF j = i - 1 THEN n ELSE N[p[j]].next
       /\ M[p[j]].value = N[p[j]].value
  /\ \A m \in Node \ (Range(p) \cup {n}) : M[m] = N[m]

(* The list record before (L) and after (K) the insertion at place i.      *)
InsertedEnds(L, K, p, i, n) ==
  /\ K.length = L.length + 1
  /\ K.head = IF i = 1 THEN n ELSE L.head
  /\ K.tail = IF i = Len(p) + 1 THEN n ELSE L.tail

(* An insertion leaves a path, with one node more.                         *)
LEMMA InsertedPath ==
  ASSUME NEW N, NEW M, NEW L, NEW K, NEW p, IsPath(N, L, p),
         NEW i \in 1..(Len(p) + 1), NEW n \in Node, n \notin Range(p), NEW v \in Value,
         InsertedHeap(N, M, p, i, n, v), InsertedEnds(L, K, p, i, n)
  PROVE  IsPath(M, K, InsertAt(p, i, n)) /\ Range(InsertAt(p, i, n)) = Range(p) \cup {n}
<1>1. p \in Seq(Node) /\ IsInjective(p)
  BY DEF IsPath
<1>2. PICK k \in Nat : k = Len(p)
  BY <1>1
<1>3. PICK q \in Seq(Node) : q = InsertAt(p, i, n)
  BY <1>1, InsertAtPosition
<1>4. /\ Len(q) = k + 1
      /\ \A j \in 1..(k + 1) :
           q[j] = IF j < i THEN p[j] ELSE IF j = i THEN n ELSE p[j - 1]
  <2>1. /\ Len(InsertAt(p, i, n)) = Len(p) + 1
        /\ \A j \in 1..(Len(p) + 1) :
             InsertAt(p, i, n)[j] = IF j < i THEN p[j] ELSE IF j = i THEN n ELSE p[j - 1]
    BY <1>1, InsertAtPosition
  <2>2. QED BY <1>2, <1>3, <2>1
<1>5. \A a, b \in 1..k : p[a] = p[b] => a = b
  BY <1>1, <1>2, InjectivePositions
<1>6. \A a \in 1..k : p[a] # n /\ p[a] \in Node
  BY <1>1, <1>2, RangePositions
<1>7. IsInjective(q)
  <2>1. ASSUME NEW a \in 1..(k + 1), NEW b \in 1..(k + 1), q[a] = q[b] PROVE a = b
    <3>1. (a < i => a \in 1..k) /\ (a > i => a - 1 \in 1..k)
      BY <1>2
    <3>2. (b < i => b \in 1..k) /\ (b > i => b - 1 \in 1..k)
      BY <1>2
    <3>3. a = i <=> b = i
      BY <1>4, <1>6, <2>1, <3>1, <3>2
    <3>4. CASE a < i /\ b < i
      BY <1>4, <1>5, <2>1, <3>1, <3>2, <3>4
    <3>5. CASE a > i /\ b > i
      <4>1. p[a - 1] = p[b - 1]
        BY <1>4, <2>1, <3>5
      <4>2. a - 1 = b - 1
        BY <1>5, <3>1, <3>2, <3>5, <4>1
      <4>3. QED BY <4>2
    <3>6. CASE a < i /\ b > i
      <4>1. p[a] = p[b - 1]
        BY <1>4, <2>1, <3>6
      <4>2. a = b - 1
        BY <1>5, <3>1, <3>2, <3>6, <4>1
      <4>3. QED BY <3>6, <4>2
    <3>7. CASE a > i /\ b < i
      <4>1. p[a - 1] = p[b]
        BY <1>4, <2>1, <3>7
      <4>2. a - 1 = b
        BY <1>5, <3>1, <3>2, <3>7, <4>1
      <4>3. QED BY <3>7, <4>2
    <3>8. QED BY <3>3, <3>4, <3>5, <3>6, <3>7
  <2>2. QED BY <1>4, <2>1, InjectivePositions
<1>8. ASSUME NEW a \in 1..(k + 1)
      PROVE  /\ M[q[a]].previous = Before(q, a)
             /\ M[q[a]].next = Behind(q, a)
             /\ M[q[a]].value \in Value
  <2>1. CASE a < i
    <3>1. a \in 1..k /\ a + 1 \in 1..(k + 1) /\ a # k + 1 /\ q[a] = p[a]
      BY <1>2, <1>4, <2>1
    <3>2. N[p[a]].previous = Before(p, a) /\ N[p[a]].next = Behind(p, a) /\ N[p[a]].value \in Value
      BY <1>2, <3>1 DEF IsPath
    <3>3. M[p[a]].previous = Before(q, a)
      <4>1. M[p[a]].previous = Before(p, a)
        BY <1>2, <2>1, <3>1, <3>2 DEF InsertedHeap
      <4>2. a # 1 => a - 1 \in 1..(k + 1) /\ a - 1 < i
        BY <2>1
      <4>3. QED BY <1>4, <4>1, <4>2 DEF Before
    <3>4. M[p[a]].next = Behind(q, a)
      <4>1. CASE a = i - 1
        <5>1. M[p[a]].next = n
          BY <1>2, <3>1, <4>1 DEF InsertedHeap
        <5>2. q[a + 1] = n
          BY <1>4, <3>1, <4>1
        <5>3. QED BY <1>4, <3>1, <5>1, <5>2 DEF Behind
      <4>2. CASE a # i - 1
        <5>1. M[p[a]].next = Behind(p, a)
          BY <1>2, <3>1, <3>2, <4>2 DEF InsertedHeap
        <5>2. a + 1 < i /\ a # k
          BY <1>2, <2>1, <4>2
        <5>3. q[a + 1] = p[a + 1]
          BY <1>4, <3>1, <5>2
        <5>4. QED BY <1>2, <1>4, <3>1, <5>1, <5>2, <5>3 DEF Behind
      <4>3. QED BY <4>1, <4>2
    <3>5. M[p[a]].value \in Value
      BY <1>2, <3>1, <3>2 DEF InsertedHeap
    <3>6. QED BY <3>1, <3>3, <3>4, <3>5
  <2>2. CASE a = i
    <3>1. q[a] = n
      BY <1>4, <2>2
    <3>2. a # 1 => a - 1 \in 1..(k + 1) /\ q[a - 1] = p[a - 1]
      <4>1. a # 1 => a - 1 \in 1..(k + 1) /\ a - 1 < i
        BY <2>2
      <4>2. QED BY <1>4, <4>1
    <3>3. a # k + 1 => a + 1 \in 1..(k + 1) /\ q[a + 1] = p[a]
      <4>1. a # k + 1 => a + 1 \in 1..(k + 1) /\ a + 1 > i /\ (a + 1) - 1 = a
        BY <2>2
      <4>2. QED BY <1>4, <4>1
    <3>4. QED BY <1>2, <1>4, <2>2, <3>1, <3>2, <3>3 DEF InsertedHeap, Before, Behind
  <2>3. CASE a > i
    <3>1. PICK j \in 1..k : j = a - 1
      <4>1. a - 1 \in 1..k
        BY <2>3
      <4>2. QED BY <4>1
    <3>2. q[a] = p[j] /\ j >= i /\ a = j + 1
      BY <1>4, <2>3, <3>1
    <3>3. N[p[j]].previous = Before(p, j) /\ N[p[j]].next = Behind(p, j) /\ N[p[j]].value \in Value
      BY <1>2, <3>1 DEF IsPath
    <3>4. M[p[j]].next = Behind(q, a)
      <4>1. M[p[j]].next = Behind(p, j)
        BY <1>2, <3>2, <3>3 DEF InsertedHeap
      <4>2. a # k + 1 => a + 1 \in 1..(k + 1) /\ a + 1 > i /\ (a + 1) - 1 = j + 1 /\ j # k
        BY <3>2
      <4>3. a # k + 1 => q[a + 1] = p[j + 1]
        BY <1>4, <4>2
      <4>4. a = k + 1 <=> j = k
        BY <3>2
      <4>5. QED BY <1>2, <1>4, <4>1, <4>3, <4>4 DEF Behind
    <3>5. M[p[j]].previous = Before(q, a)
      <4>1. a # 1 /\ a - 1 = j /\ j \in 1..(k + 1)
        BY <2>3, <3>2
      <4>2. CASE j = i
        <5>1. M[p[j]].previous = n
          BY <1>2, <4>2 DEF InsertedHeap
        <5>2. q[j] = n
          BY <1>4, <4>1, <4>2
        <5>3. QED BY <4>1, <5>1, <5>2 DEF Before
      <4>3. CASE j # i
        <5>1. M[p[j]].previous = Before(p, j)
          BY <1>2, <3>3, <4>3 DEF InsertedHeap
        <5>2. j > i /\ j # 1
          BY <3>2, <4>3
        <5>3. q[j] = p[j - 1]
          BY <1>4, <4>1, <5>2
        <5>4. QED BY <4>1, <5>1, <5>2, <5>3 DEF Before
      <4>4. QED BY <4>2, <4>3
    <3>6. M[p[j]].value \in Value
      BY <1>2, <3>3 DEF InsertedHeap
    <3>7. QED BY <3>2, <3>4, <3>5, <3>6
  <2>4. QED BY <2>1, <2>2, <2>3
<1>9. K.head = IF q = <<>> THEN NULL ELSE q[1]
  <2>1. q # <<>>
    BY <1>4
  <2>2. CASE i = 1
    BY <1>4, <2>1, <2>2 DEF InsertedEnds
  <2>3. CASE i # 1
    <3>1. 1 < i /\ p # <<>>
      BY <1>2, <2>3
    <3>2. QED BY <1>4, <2>1, <2>3, <3>1 DEF IsPath, InsertedEnds
  <2>4. QED BY <2>2, <2>3
<1>10. K.tail = IF q = <<>> THEN NULL ELSE q[Len(q)]
  <2>1. q # <<>> /\ k + 1 \in 1..(k + 1)
    BY <1>4
  <2>2. CASE i = k + 1
    BY <1>2, <1>4, <2>1, <2>2 DEF InsertedEnds
  <2>3. CASE i # k + 1
    <3>1. k + 1 > i /\ p # <<>> /\ (k + 1) - 1 = k
      BY <1>2, <2>3
    <3>2. q[k + 1] = p[k]
      BY <1>4, <2>1, <3>1
    <3>3. QED BY <1>2, <1>4, <2>1, <2>3, <3>1, <3>2 DEF IsPath, InsertedEnds
  <2>4. QED BY <2>2, <2>3
<1>11. IsPath(M, K, q)
  <2>1. K.length = Len(q)
    BY <1>2, <1>4 DEF IsPath, InsertedEnds
  <2>2. QED BY <1>4, <1>7, <1>8, <1>9, <1>10, <2>1 DEF IsPath, InsertedEnds
<1>12. Range(q) = Range(p) \cup {n}
  <2>1. ASSUME NEW m \in Range(q) PROVE m \in Range(p) \cup {n}
    <3>1. PICK a \in 1..(k + 1) : q[a] = m
      BY <1>4, RangePositions
    <3>2. a < i \/ a = i \/ (a > i /\ a - 1 \in 1..k)
      OBVIOUS
    <3>3. a < i => a \in 1..k
      BY <1>2
    <3>4. QED BY <1>1, <1>2, <1>4, <3>1, <3>2, <3>3, RangePositions
  <2>2. n \in Range(q)
    BY <1>2, <1>4, RangePositions
  <2>3. ASSUME NEW m \in Range(p) PROVE m \in Range(q)
    <3>1. PICK a \in 1..k : p[a] = m
      BY <1>1, <1>2, RangePositions
    <3>2. CASE a < i
      BY <1>4, <3>1, <3>2, RangePositions
    <3>3. CASE a >= i
      <4>1. a + 1 \in 1..(k + 1) /\ a + 1 > i /\ (a + 1) - 1 = a
        BY <3>3
      <4>2. q[a + 1] = m
        BY <1>4, <3>1, <4>1
      <4>3. QED BY <1>4, <4>1, <4>2, RangePositions
    <3>4. QED BY <3>2, <3>3
  <2>4. QED BY <2>1, <2>2, <2>3
<1>13. QED BY <1>3, <1>11, <1>12

(* The node at place i of path p is freed and its neighbours are linked.   *)
RemovedHeap(N, M, p, i) ==
  /\ M[p[i]] = NoNode
  /\ \A j \in 1..Len(p) \ {i} :
       /\ M[p[j]].previous = IF j = i + 1 THEN Before(p, i) ELSE N[p[j]].previous
       /\ M[p[j]].next = IF j = i - 1 THEN Behind(p, i) ELSE N[p[j]].next
       /\ M[p[j]].value = N[p[j]].value
  /\ \A m \in Node \ Range(p) : M[m] = N[m]

(* The list record before (L) and after (K) the node at place i is         *)
(* removed.                                                                *)
RemovedEnds(L, K, p, i) ==
  /\ K.length = L.length - 1
  /\ K.head = IF i = 1 THEN Behind(p, i) ELSE L.head
  /\ K.tail = IF i = Len(p) THEN Before(p, i) ELSE L.tail

(* A removal leaves a path, with one node less.                            *)
LEMMA RemovedPath ==
  ASSUME NEW N, NEW M, NEW L, NEW K, NEW p, IsPath(N, L, p),
         NEW i \in 1..Len(p), RemovedHeap(N, M, p, i), RemovedEnds(L, K, p, i)
  PROVE  IsPath(M, K, RemoveAt(p, i)) /\ Range(RemoveAt(p, i)) = Range(p) \ {p[i]}
<1>1. p \in Seq(Node) /\ IsInjective(p)
  BY DEF IsPath
<1>2. PICK k \in Nat : k = Len(p)
  BY <1>1
<1>3. PICK q \in Seq(Node) : q = RemoveAt(p, i)
  BY <1>1, RemoveAtPosition
<1>4. /\ Len(q) = k - 1
      /\ \A j \in 1..(k - 1) : q[j] = IF j < i THEN p[j] ELSE p[j + 1]
  <2>1. /\ Len(RemoveAt(p, i)) = Len(p) - 1
        /\ \A j \in 1..(Len(p) - 1) : RemoveAt(p, i)[j] = IF j < i THEN p[j] ELSE p[j + 1]
    BY <1>1, RemoveAtPosition
  <2>2. QED BY <1>2, <1>3, <2>1
<1>5. \A a, b \in 1..k : p[a] = p[b] => a = b
  BY <1>1, <1>2, InjectivePositions
<1>6. IsInjective(q)
  <2>1. ASSUME NEW a \in 1..(k - 1), NEW b \in 1..(k - 1), q[a] = q[b] PROVE a = b
    <3>1. a \in 1..k /\ a + 1 \in 1..k /\ b \in 1..k /\ b + 1 \in 1..k
      BY <1>2
    <3>2. CASE a < i /\ b < i
      BY <1>4, <1>5, <2>1, <3>1, <3>2
    <3>3. CASE a >= i /\ b >= i
      <4>1. p[a + 1] = p[b + 1]
        BY <1>4, <2>1, <3>3
      <4>2. a + 1 = b + 1
        BY <1>5, <3>1, <4>1
      <4>3. QED BY <4>2
    <3>4. CASE a < i /\ b >= i
      <4>1. p[a] = p[b + 1]
        BY <1>4, <2>1, <3>4
      <4>2. a = b + 1
        BY <1>5, <3>1, <4>1
      <4>3. QED BY <3>4, <4>2
    <3>5. CASE a >= i /\ b < i
      <4>1. p[a + 1] = p[b]
        BY <1>4, <2>1, <3>5
      <4>2. a + 1 = b
        BY <1>5, <3>1, <4>1
      <4>3. QED BY <3>5, <4>2
    <3>6. QED BY <3>2, <3>3, <3>4, <3>5
  <2>2. QED BY <1>4, <2>1, InjectivePositions
<1>7. ASSUME NEW a \in 1..(k - 1)
      PROVE  /\ M[q[a]].previous = Before(q, a)
             /\ M[q[a]].next = Behind(q, a)
             /\ M[q[a]].value \in Value
  <2>1. CASE a < i
    <3>1. a \in 1..k /\ a # i /\ a # k /\ q[a] = p[a]
      BY <1>2, <1>4, <2>1
    <3>2. N[p[a]].previous = Before(p, a) /\ N[p[a]].next = Behind(p, a) /\ N[p[a]].value \in Value
      BY <1>2, <3>1 DEF IsPath
    <3>3. M[p[a]].previous = Before(q, a)
      <4>1. M[p[a]].previous = Before(p, a)
        BY <1>2, <2>1, <3>1, <3>2 DEF RemovedHeap
      <4>2. a # 1 => a - 1 \in 1..(k - 1) /\ a - 1 < i
        BY <2>1
      <4>3. QED BY <1>4, <4>1, <4>2 DEF Before
    <3>4. M[p[a]].next = Behind(q, a)
      <4>1. CASE a = i - 1
        <5>1. M[p[a]].next = Behind(p, i)
          BY <1>2, <3>1, <4>1 DEF RemovedHeap
        <5>2. a = k - 1 <=> i = k
          BY <4>1
        <5>3. a # k - 1 => a + 1 \in 1..(k - 1) /\ ~(a + 1 < i) /\ (a + 1) + 1 = i + 1
          BY <4>1
        <5>4. a # k - 1 => q[a + 1] = p[i + 1]
          BY <1>4, <5>3
        <5>5. QED BY <1>2, <1>4, <5>1, <5>2, <5>4 DEF Behind
      <4>2. CASE a # i - 1
        <5>1. M[p[a]].next = Behind(p, a)
          BY <1>2, <3>1, <3>2, <4>2 DEF RemovedHeap
        <5>2. a + 1 < i /\ a # k - 1 /\ a + 1 \in 1..(k - 1)
          BY <1>2, <2>1, <4>2
        <5>3. q[a + 1] = p[a + 1]
          BY <1>4, <5>2
        <5>4. QED BY <1>2, <1>4, <3>1, <5>1, <5>2, <5>3 DEF Behind
      <4>3. QED BY <4>1, <4>2
    <3>5. M[p[a]].value \in Value
      BY <1>2, <3>1, <3>2 DEF RemovedHeap
    <3>6. QED BY <3>1, <3>3, <3>4, <3>5
  <2>2. CASE a >= i
    <3>1. PICK j \in 1..k : j = a + 1
      <4>1. a + 1 \in 1..k
        BY <2>2
      <4>2. QED BY <4>1
    <3>2. q[a] = p[j] /\ j > i /\ j # i /\ j # 1 /\ a = j - 1
      BY <1>4, <2>2, <3>1
    <3>3. N[p[j]].previous = Before(p, j) /\ N[p[j]].next = Behind(p, j) /\ N[p[j]].value \in Value
      BY <1>2, <3>1 DEF IsPath
    <3>4. M[p[j]].next = Behind(q, a)
      <4>1. M[p[j]].next = Behind(p, j)
        BY <1>2, <3>2, <3>3 DEF RemovedHeap
      <4>2. a # k - 1 => a + 1 \in 1..(k - 1) /\ ~(a + 1 < i) /\ (a + 1) + 1 = j + 1
        BY <3>2
      <4>3. a # k - 1 => q[a + 1] = p[j + 1]
        BY <1>4, <4>2
      <4>4. a = k - 1 <=> j = k
        BY <3>2
      <4>5. QED BY <1>2, <1>4, <4>1, <4>3, <4>4 DEF Behind
    <3>5. M[p[j]].previous = Before(q, a)
      <4>1. CASE a = i
        <5>1. M[p[j]].previous = Before(p, i)
          BY <1>2, <3>1, <3>2, <4>1 DEF RemovedHeap
        <5>2. a # 1 => a - 1 \in 1..(k - 1) /\ a - 1 < i
          BY <4>1
        <5>3. QED BY <1>4, <4>1, <5>1, <5>2 DEF Before
      <4>2. CASE a # i
        <5>1. M[p[j]].previous = Before(p, j)
          BY <1>2, <3>1, <3>2, <3>3, <4>2 DEF RemovedHeap
        <5>2. a # 1 /\ a - 1 \in 1..(k - 1) /\ ~(a - 1 < i) /\ (a - 1) + 1 = j - 1
          BY <2>2, <3>1, <4>2
        <5>3. q[a - 1] = p[j - 1]
          BY <1>4, <5>2
        <5>4. QED BY <3>2, <5>1, <5>2, <5>3 DEF Before
      <4>3. QED BY <4>1, <4>2
    <3>6. M[p[j]].value \in Value
      BY <1>2, <3>2, <3>3 DEF RemovedHeap
    <3>7. QED BY <3>2, <3>4, <3>5, <3>6
  <2>3. QED BY <2>1, <2>2
<1>8. p # <<>> /\ (q = <<>> <=> k = 1) /\ k >= 1
  BY <1>2, <1>4
<1>9. K.head = IF q = <<>> THEN NULL ELSE q[1]
  <2>1. CASE k = 1
    BY <1>2, <1>8, <2>1 DEF Behind, RemovedEnds
  <2>2. CASE k # 1
    <3>1. 1 \in 1..(k - 1)
      BY <1>8, <2>2
    <3>2. CASE i = 1
      BY <1>2, <1>4, <1>8, <2>2, <3>1, <3>2 DEF Behind, RemovedEnds
    <3>3. CASE i # 1
      <4>1. 1 < i
        BY <3>3
      <4>2. q[1] = p[1]
        BY <1>4, <3>1, <4>1
      <4>3. QED BY <1>8, <2>2, <3>3, <4>2 DEF IsPath, RemovedEnds
    <3>4. QED BY <3>2, <3>3
  <2>3. QED BY <2>1, <2>2
<1>10. K.tail = IF q = <<>> THEN NULL ELSE q[Len(q)]
  <2>1. CASE k = 1
    BY <1>2, <1>8, <2>1 DEF Before, RemovedEnds
  <2>2. CASE k # 1
    <3>1. k - 1 \in 1..(k - 1) /\ (k - 1) + 1 = k
      BY <1>8, <2>2
    <3>2. CASE i = k
      <4>1. k - 1 < i /\ i # 1
        BY <2>2, <3>2
      <4>2. q[k - 1] = p[k - 1]
        BY <1>4, <3>1, <4>1
      <4>3. QED BY <1>2, <1>4, <1>8, <2>2, <3>2, <4>1, <4>2 DEF Before, RemovedEnds
    <3>3. CASE i # k
      <4>1. ~(k - 1 < i)
        BY <1>2, <3>3
      <4>2. q[k - 1] = p[k]
        BY <1>4, <3>1, <4>1
      <4>3. QED BY <1>2, <1>4, <1>8, <2>2, <3>3, <4>2 DEF IsPath, RemovedEnds
    <3>4. QED BY <3>2, <3>3
  <2>3. QED BY <2>1, <2>2
<1>11. IsPath(M, K, q)
  <2>1. K.length = Len(q)
    BY <1>2, <1>4 DEF IsPath, RemovedEnds
  <2>2. QED BY <1>4, <1>6, <1>7, <1>9, <1>10, <2>1 DEF IsPath, RemovedEnds
<1>12. Range(q) = Range(p) \ {p[i]}
  <2>1. ASSUME NEW m \in Range(q) PROVE m \in Range(p) \ {p[i]}
    <3>1. PICK a \in 1..(k - 1) : q[a] = m
      BY <1>4, RangePositions
    <3>2. a \in 1..k /\ a + 1 \in 1..k
      OBVIOUS
    <3>3. CASE a < i
      BY <1>1, <1>2, <1>4, <1>5, <3>1, <3>2, <3>3, RangePositions
    <3>4. CASE a >= i
      <4>1. m = p[a + 1] /\ a + 1 # i
        BY <1>4, <3>1, <3>4
      <4>2. QED BY <1>1, <1>2, <1>5, <3>2, <4>1, RangePositions
    <3>5. QED BY <3>3, <3>4
  <2>2. ASSUME NEW m \in Range(p), m # p[i] PROVE m \in Range(q)
    <3>1. PICK a \in 1..k : p[a] = m
      BY <1>1, <1>2, RangePositions
    <3>2. a # i
      BY <2>2, <3>1
    <3>3. CASE a < i
      <4>1. a \in 1..(k - 1)
        BY <1>2, <3>3
      <4>2. QED BY <1>4, <3>1, <3>3, <4>1, RangePositions
    <3>4. CASE a > i
      <4>1. a - 1 \in 1..(k - 1) /\ ~(a - 1 < i) /\ (a - 1) + 1 = a
        BY <3>4
      <4>2. q[a - 1] = m
        BY <1>4, <3>1, <4>1
      <4>3. QED BY <1>4, <4>1, <4>2, RangePositions
    <3>5. QED BY <3>2, <3>3, <3>4
  <2>3. QED BY <2>1, <2>2
<1>13. QED BY <1>3, <1>11, <1>12

(* The last node of path p becomes its first.                              *)
RotatedHeap(N, M, p) ==
  /\ M[p[Len(p)]].previous = NULL /\ M[p[Len(p)]].next = p[1]
  /\ M[p[1]].previous = p[Len(p)]
  /\ M[p[Len(p) - 1]].next = NULL
  /\ \A j \in 2..(Len(p) - 1) : M[p[j]].previous = N[p[j]].previous
  /\ \A j \in 1..(Len(p) - 2) : M[p[j]].next = N[p[j]].next
  /\ \A j \in 1..Len(p) : M[p[j]].value = N[p[j]].value
  /\ \A m \in Node \ Range(p) : M[m] = N[m]

(* A rotation leaves a path of the same nodes.                             *)
LEMMA RotatedPath ==
  ASSUME NEW N, NEW M, NEW L, NEW K, NEW p, IsPath(N, L, p),
         Len(p) > 1, RotatedHeap(N, M, p),
         K.length = L.length, K.head = p[Len(p)], K.tail = p[Len(p) - 1]
  PROVE  /\ IsPath(M, K, <<Last(p)>> \o Front(p))
         /\ Range(<<Last(p)>> \o Front(p)) = Range(p)
<1>1. p \in Seq(Node) /\ IsInjective(p) /\ p # <<>>
  BY DEF IsPath
<1>2. PICK k \in Nat : k = Len(p) /\ k > 1
  BY <1>1
<1>3. PICK q \in Seq(Node) : q = <<Last(p)>> \o Front(p)
  BY <1>1, RotatedPosition
<1>4. /\ Len(q) = k
      /\ \A j \in 1..k : q[j] = IF j = 1 THEN p[k] ELSE p[j - 1]
  BY <1>1, <1>2, <1>3, RotatedPosition
<1>5. \A a, b \in 1..k : p[a] = p[b] => a = b
  BY <1>1, <1>2, InjectivePositions
<1>6. IsInjective(q)
  <2>1. ASSUME NEW a \in 1..k, NEW b \in 1..k, q[a] = q[b] PROVE a = b
    <3>1. PICK x \in 1..k, y \in 1..k :
            x = (IF a = 1 THEN k ELSE a - 1) /\ y = (IF b = 1 THEN k ELSE b - 1)
      <4>1. (IF a = 1 THEN k ELSE a - 1) \in 1..k /\ (IF b = 1 THEN k ELSE b - 1) \in 1..k
        BY <1>2
      <4>2. QED BY <4>1
    <3>2. p[x] = p[y]
      BY <1>4, <2>1, <3>1
    <3>3. x = y
      BY <1>5, <3>2
    <3>4. QED BY <3>1, <3>3
  <2>2. QED BY <1>4, <2>1, InjectivePositions
<1>7. ASSUME NEW a \in 1..k
      PROVE  /\ M[q[a]].previous = Before(q, a)
             /\ M[q[a]].next = Behind(q, a)
             /\ M[q[a]].value \in Value
  <2>1. CASE a = 1
    <3>1. q[a] = p[k] /\ q[2] = p[1] /\ k \in 1..k /\ a # k
      BY <1>2, <1>4, <2>1
    <3>2. N[p[k]].value \in Value
      BY <1>2, <3>1 DEF IsPath
    <3>3. M[p[k]].previous = NULL /\ M[p[k]].next = p[1] /\ M[p[k]].value = N[p[k]].value
      BY <1>2, <3>1 DEF RotatedHeap
    <3>4. QED BY <1>4, <2>1, <3>1, <3>2, <3>3 DEF Before, Behind
  <2>2. CASE a # 1
    <3>1. PICK j \in 1..k : j = a - 1
      <4>1. a - 1 \in 1..k
        BY <2>2
      <4>2. QED BY <4>1
    <3>2. q[a] = p[j] /\ j # k /\ a = j + 1
      BY <1>4, <2>2, <3>1
    <3>3. N[p[j]].previous = Before(p, j) /\ N[p[j]].next = Behind(p, j) /\ N[p[j]].value \in Value
      BY <1>2 DEF IsPath
    <3>4. M[p[j]].value \in Value
      BY <1>2, <3>3 DEF RotatedHeap
    <3>5. M[p[j]].previous = Before(q, a)
      <4>1. CASE j = 1
        <5>1. M[p[j]].previous = p[k]
          BY <1>2, <4>1 DEF RotatedHeap
        <5>2. q[1] = p[k] /\ a # 1 /\ a - 1 = 1
          BY <1>2, <1>4, <3>2, <4>1
        <5>3. QED BY <5>1, <5>2 DEF Before
      <4>2. CASE j # 1
        <5>1. j \in 2..(k - 1) /\ a - 1 = j
          BY <3>2, <4>2
        <5>2. M[p[j]].previous = p[j - 1]
          BY <1>2, <3>3, <4>2, <5>1 DEF RotatedHeap, Before
        <5>3. q[j] = p[j - 1]
          BY <1>4, <4>2
        <5>4. QED BY <2>2, <5>1, <5>2, <5>3 DEF Before
      <4>3. QED BY <4>1, <4>2
    <3>6. M[p[j]].next = Behind(q, a)
      <4>1. CASE a = k
        <5>1. j = k - 1
          BY <3>1, <4>1
        <5>2. QED BY <1>2, <1>4, <4>1, <5>1 DEF RotatedHeap, Behind
      <4>2. CASE a # k
        <5>1. j \in 1..(k - 2) /\ a + 1 \in 1..k /\ a + 1 # 1 /\ (a + 1) - 1 = j + 1
          BY <3>2, <4>2
        <5>2. M[p[j]].next = p[j + 1]
          BY <1>2, <3>2, <3>3, <5>1 DEF RotatedHeap, Behind
        <5>3. q[a + 1] = p[j + 1]
          BY <1>4, <5>1
        <5>4. QED BY <1>4, <4>2, <5>2, <5>3 DEF Behind
      <4>3. QED BY <4>1, <4>2
    <3>7. QED BY <3>2, <3>4, <3>5, <3>6
  <2>3. QED BY <2>1, <2>2
<1>8. K.head = q[1] /\ K.tail = q[Len(q)] /\ q # <<>>
  <2>1. q[1] = p[k] /\ q[k] = p[k - 1]
    BY <1>2, <1>4
  <2>2. QED BY <1>2, <1>4, <2>1
<1>9. IsPath(M, K, q)
  <2>1. K.length = Len(q)
    BY <1>2, <1>4 DEF IsPath
  <2>2. QED BY <1>4, <1>6, <1>7, <1>8, <2>1 DEF IsPath
<1>10. Range(q) = Range(p)
  <2>1. ASSUME NEW m \in Range(q) PROVE m \in Range(p)
    <3>1. PICK a \in 1..k : q[a] = m
      BY <1>4, RangePositions
    <3>2. (IF a = 1 THEN k ELSE a - 1) \in 1..k
      BY <1>2
    <3>3. QED BY <1>1, <1>2, <1>4, <3>1, <3>2, RangePositions
  <2>2. ASSUME NEW m \in Range(p) PROVE m \in Range(q)
    <3>1. PICK a \in 1..k : p[a] = m
      BY <1>1, <1>2, RangePositions
    <3>2. CASE a = k
      BY <1>2, <1>4, <3>1, <3>2, RangePositions
    <3>3. CASE a # k
      <4>1. a + 1 \in 1..k /\ a + 1 # 1 /\ (a + 1) - 1 = a
        BY <3>3
      <4>2. q[a + 1] = m
        BY <1>4, <3>1, <4>1
      <4>3. QED BY <1>4, <4>1, <4>2, RangePositions
    <3>4. QED BY <3>2, <3>3
  <2>3. QED BY <2>1, <2>2
<1>11. QED BY <1>3, <1>9, <1>10

(* An assignment to head_, tail_ and length_ keeps the status.             *)
LEMMA EndsFields ==
  ASSUME NEW L \in Lists, NEW head \in Pointer, NEW tail \in Pointer,
         NEW length \in Nat
  PROVE  /\ Ends(L, head, tail, length) \in Lists
         /\ Ends(L, head, tail, length).status = L.status
         /\ Ends(L, head, tail, length).length = length
         /\ Ends(L, head, tail, length).head = head
         /\ Ends(L, head, tail, length).tail = tail
BY DEF Pointer, Ends, Lists

(* A node that is not in the heap is in no list.                           *)
LEMMA FreshIsOutside ==
  ASSUME NEW N, NEW S, NEW P, Fit(N, S, P), NEW n \in Node, N[n] = NoNode, NEW l \in List
  PROVE  n \notin Range(P[l])
<1>1. P[l] \in Seq(Node) /\ IsPath(N, S[l], P[l])
  BY DEF Fit
<1>2. ASSUME n \in Range(P[l]) PROVE FALSE
  <2>1. PICK i \in 1..Len(P[l]) : P[l][i] = n
    BY <1>1, <1>2, RangePositions
  <2>2. N[n].value \in Value
    BY <1>1, <2>1 DEF IsPath
  <2>3. QED BY <2>2, NullAssumption DEF NoNode
<1>3. QED BY <1>2

(* The paths after an insertion.                                           *)
LEMMA InsertedFit ==
  ASSUME NEW N, NEW M, NEW S, NEW P, Fit(N, S, P), DOMAIN S = List,
         NEW l \in List, NEW i \in 1..(Len(P[l]) + 1), NEW n \in Node, NEW v \in Value,
         N[n] = NoNode, InsertedHeap(N, M, P[l], i, n, v),
         NEW K, K.status = "live", InsertedEnds(S[l], K, P[l], i, n)
  PROVE  Fit(M, [S EXCEPT ![l] = K], [P EXCEPT ![l] = InsertAt(P[l], i, n)])
<1>1. P[l] \in Seq(Node) /\ IsPath(N, S[l], P[l])
  BY DEF Fit
<1>2. n \notin Range(P[l])
  BY FreshIsOutside
<1>3. PICK p, q : p = P[l] /\ q = InsertAt(P[l], i, n)
  OBVIOUS
<1>4. IsPath(M, K, q) /\ Range(q) = Range(p) \cup {n}
  <2>0. PICK L : L = S[l]
    OBVIOUS
  <2>1. /\ IsPath(N, L, p) /\ n \notin Range(p) /\ i \in 1..(Len(p) + 1)
        /\ InsertedHeap(N, M, p, i, n, v)
        /\ InsertedEnds(L, K, p, i, n)
    BY <1>1, <1>2, <1>3, <2>0
  <2>2. IsPath(M, K, InsertAt(p, i, n)) /\ Range(InsertAt(p, i, n)) = Range(p) \cup {n}
    BY <2>1, InsertedPath
  <2>3. q = InsertAt(p, i, n)
    BY <1>3
  <2>4. QED BY <2>2, <2>3
<1>5. \A m \in Node \ (Range(p) \cup Range(q)) : M[m] = N[m]
  BY <1>3, <1>4 DEF InsertedHeap
<1>6. \A m \in Range(q) \ Range(p) : N[m] = NoNode
  BY <1>4
<1>7. Range(p) \ Range(q) = {}
  BY <1>4
<1>8. QED BY <1>3, <1>4, <1>5, <1>6, <1>7, PathReplaced

(* The head of a list and the tail of a list in terms of its path.         *)
LEMMA PathEnds ==
  ASSUME NEW N, NEW L, NEW p, IsPath(N, L, p)
  PROVE  /\ Len(p) \in Nat
         /\ L.length = 0 <=> p = <<>>
         /\ L.length # 0 => /\ 1 \in 1..Len(p) /\ Len(p) \in 1..Len(p)
                            /\ L.head = p[1] /\ L.tail = p[Len(p)]
                            /\ p[1] \in Node /\ p[Len(p)] \in Node
         /\ L.head \in Node \cup {NULL} /\ L.tail \in Node \cup {NULL}
         /\ p = <<>> => Len(p) = 0 /\ Range(p) = {}
<1>1. p \in Seq(Node) /\ L.length = Len(p)
  BY DEF IsPath
<1>2. Len(p) = 0 <=> p = <<>>
  BY <1>1
<1>3. Range(<<>>) = {}
  BY DEF Range
<1>4. QED BY <1>1, <1>2, <1>3 DEF IsPath

(* Different places of a path have different nodes.                        *)
LEMMA PathPlaces ==
  ASSUME NEW N, NEW L, NEW p, IsPath(N, L, p)
  PROVE  \A i, j \in 1..Len(p) : p[i] \in Range(p) /\ p[i] \in Node /\ (p[i] = p[j] => i = j)
BY RangePositions, InjectivePositions DEF IsPath

(* What ListAddTailNode() links is an insertion behind the last node.      *)
LEMMA TailHeapInserts ==
  ASSUME NEW N \in Heaps, NEW L, NEW p, IsPath(N, L, p),
         NEW n \in Node, n \notin Range(p), NEW v \in Value
  PROVE  /\ TailHeap(N, L, n, v) \in Heaps
         /\ InsertedHeap(N, TailHeap(N, L, n, v), p, Len(p) + 1, n, v)
<1>1. PICK k \in Nat : k = Len(p)
  BY PathEnds
<1>2. CASE L.length = 0
  <2>1. k = 0 /\ p = <<>> /\ Range(p) = {}
    BY <1>1, <1>2, PathEnds
  <2>2. TailHeap(N, L, n, v) = NewNode(N, n, NULL, NULL, v)
    BY <1>2 DEF TailHeap
  <2>3. QED BY <1>1, <2>1, <2>2, NewNodeFields DEF InsertedHeap, Pointer
<1>3. CASE L.length # 0
  <2>1. k # 0 /\ L.tail = p[k] /\ p[k] \in Node /\ k \in 1..k
    BY <1>1, <1>3, PathEnds
  <2>2. PICK A : A = NewNode(N, n, L.tail, NULL, v)
    OBVIOUS
  <2>3. PICK M : M = SetNext(A, L.tail, n)
    OBVIOUS
  <2>4. TailHeap(N, L, n, v) = M
    BY <1>3, <2>2, <2>3 DEF TailHeap
  <2>5. /\ A \in Heaps /\ A[n] = [previous |-> p[k], next |-> NULL, value |-> v]
        /\ \A m \in Node \ {n} : A[m] = N[m]
    BY <2>1, <2>2, NewNodeFields DEF Pointer
  <2>6. /\ M \in Heaps
        /\ \A m \in Node : /\ M[m].previous = A[m].previous
                           /\ M[m].next = IF m = p[k] THEN n ELSE A[m].next
                           /\ M[m].value = A[m].value
                           /\ m # p[k] => M[m] = A[m]
    <3>1. p[k] \in Pointer /\ n \in Pointer /\ M = SetNext(A, p[k], n)
      BY <2>1, <2>3 DEF Pointer
    <3>2. QED BY <2>5, <3>1, SetNextFields
  <2>7. M[n] = [previous |-> p[k], next |-> NULL, value |-> v]
    BY <1>1, <2>1, <2>5, <2>6, PathPlaces
  <2>8. ASSUME NEW j \in 1..k
        PROVE  /\ M[p[j]].previous = N[p[j]].previous
               /\ M[p[j]].next = IF j = k THEN n ELSE N[p[j]].next
               /\ M[p[j]].value = N[p[j]].value
    <3>1. p[j] \in Node /\ p[j] # n /\ (p[j] = p[k] <=> j = k)
      BY <1>1, <2>1, PathPlaces
    <3>2. QED BY <2>5, <2>6, <3>1
  <2>9. \A m \in Node \ (Range(p) \cup {n}) : M[m] = N[m]
    <3>1. p[k] \in Range(p)
      BY <1>1, <2>1, PathPlaces
    <3>2. QED BY <2>5, <2>6, <3>1
  <2>10. InsertedHeap(N, M, p, k + 1, n, v)
    BY <1>1, <2>1, <2>7, <2>8, <2>9 DEF InsertedHeap
  <2>11. QED BY <1>1, <2>4, <2>6, <2>10
<1>4. QED BY <1>2, <1>3

(* And so it counts and ends the list.                                     *)
LEMMA TailEndsInserts ==
  ASSUME NEW N, NEW L \in Lists, NEW p, IsPath(N, L, p), NEW n \in Node
  PROVE  /\ TailEnds(L, n) \in Lists /\ TailEnds(L, n).status = L.status
         /\ TailEnds(L, n).length = L.length + 1
         /\ TailEnds(L, n).head = IF Len(p) + 1 = 1 THEN n ELSE L.head
         /\ TailEnds(L, n).tail = n
<1>1. Len(p) \in Nat /\ L.length = Len(p)
  BY PathEnds DEF IsPath
<1>2. PICK head \in Pointer, length \in Nat :
        head = (IF L.length = 0 THEN n ELSE L.head) /\ length = L.length + 1
  BY DEF Lists, Pointer
<1>3. TailEnds(L, n) = Ends(L, head, n, length)
  BY <1>2 DEF TailEnds
<1>4. Len(p) + 1 = 1 <=> L.length = 0
  BY <1>1
<1>5. n \in Pointer
  BY DEF Pointer
<1>6. QED BY <1>2, <1>3, <1>4, <1>5, EndsFields

(* A step that puts n, with value v, at place i of list l.                 *)
Inserts(P, l, i, n, v) ==
  /\ i \in 1..(Len(P[l]) + 1) /\ node[n] = NoNode
  /\ node' \in Heaps /\ list' \in [List -> Lists]
  /\ \E M, K : /\ node' = M /\ list' = [list EXCEPT ![l] = K]
               /\ InsertedHeap(node, M, P[l], i, n, v)
               /\ K.status = "live" /\ InsertedEnds(list[l], K, P[l], i, n)

(* The heap and the list records are those of the paths P.                 *)
Wired(P) == node \in Heaps /\ list \in [List -> Lists] /\ Fit(node, list, P)

(* ListAddTailNode() inserts behind the last node.                         *)
LEMMA AddTailNodeInserts ==
  ASSUME NEW P, Wired(P), NEW l \in List, NEW n \in Node, NEW v \in Value,
         AddTailNode(l, n, v)
  PROVE  Inserts(P, l, Len(P[l]) + 1, n, v)
<1>1. IsPath(node, list[l], P[l]) /\ node[n] = NoNode /\ n \notin Range(P[l])
  BY FreshIsOutside DEF Wired, Fit, AddTailNode, Fresh, IsNode
<1>2. Len(P[l]) + 1 \in 1..(Len(P[l]) + 1)
  BY <1>1, PathEnds
<1>3. node' \in Heaps /\ InsertedHeap(node, node', P[l], Len(P[l]) + 1, n, v)
  BY <1>1, TailHeapInserts DEF Wired, AddTailNode
<1>4. PICK K : K = TailEnds(list[l], n)
  OBVIOUS
<1>5. /\ K \in Lists /\ K.status = "live" /\ K.length = list[l].length + 1
      /\ K.head = IF Len(P[l]) + 1 = 1 THEN n ELSE list[l].head
      /\ K.tail = n
  BY <1>1, <1>4, TailEndsInserts DEF Wired, AddTailNode, IsLive
<1>6. list' = [list EXCEPT ![l] = K]
  BY <1>4 DEF AddTailNode
<1>7. list' \in [List -> Lists]
  BY <1>5, <1>6 DEF Wired
<1>8. QED BY <1>1, <1>2, <1>3, <1>5, <1>6, <1>7 DEF Inserts, InsertedEnds

(* ListAddHeadNode() inserts before the first node.                        *)
LEMMA AddHeadNodeInserts ==
  ASSUME NEW P, Wired(P), NEW l \in List, NEW n \in Node, NEW v \in Value,
         AddHeadNode(l, n, v)
  PROVE  Inserts(P, l, 1, n, v)
<1>1. PICK L, p : L = list[l] /\ p = P[l]
  OBVIOUS
<1>2. /\ IsPath(node, L, p) /\ node[n] = NoNode /\ n \notin Range(p)
      /\ node \in Heaps /\ L \in Lists /\ L.status = "live"
  BY <1>1, FreshIsOutside DEF Wired, Fit, AddHeadNode, Fresh, IsNode, IsLive
<1>3. PICK k \in Nat : k = Len(p)
  BY <1>2, PathEnds
<1>4. PICK K \in Lists :
        /\ list' = [list EXCEPT ![l] = K] /\ K.status = "live" /\ K.length = L.length + 1
        /\ K.head = n /\ K.tail = IF 1 = k + 1 THEN n ELSE L.tail
  <2>1. L.length = k
    BY <1>2, <1>3 DEF IsPath
  <2>2. CASE k = 0
    <3>1. list' = [list EXCEPT ![l] = Ends(L, n, n, 1)]
      BY <1>1, <2>1, <2>2 DEF AddHeadNode
    <3>2. /\ Ends(L, n, n, 1) \in Lists /\ Ends(L, n, n, 1).status = "live"
          /\ Ends(L, n, n, 1).length = 1
          /\ Ends(L, n, n, 1).head = n /\ Ends(L, n, n, 1).tail = n
      BY <1>2 DEF Ends, Lists
    <3>3. PICK E : E = Ends(L, n, n, 1)
      OBVIOUS
    <3>4. 1 = k + 1 /\ 1 = L.length + 1
      BY <2>1, <2>2
    <3>5. list' = [list EXCEPT ![l] = E]
      BY <3>1, <3>3
    <3>6. QED BY <3>2, <3>3, <3>4, <3>5
  <2>3. CASE k # 0
    <3>1. list' = [list EXCEPT ![l] = Ends(L, n, L.tail, L.length + 1)]
      BY <1>1, <2>1, <2>3 DEF AddHeadNode
    <3>2. PICK E : E = Ends(L, n, L.tail, L.length + 1)
      OBVIOUS
    <3>3. /\ E \in Lists /\ E.status = "live" /\ E.length = L.length + 1
          /\ E.head = n /\ E.tail = L.tail
      <4>1. L.tail \in Pointer /\ n \in Pointer /\ L.length + 1 \in Nat
        BY <1>2 DEF Lists, Pointer
      <4>2. QED BY <1>2, <3>2, <4>1, EndsFields
    <3>4. ~(1 = k + 1)
      BY <2>3
    <3>5. list' = [list EXCEPT ![l] = E]
      BY <3>1, <3>2
    <3>6. QED BY <3>3, <3>4, <3>5
  <2>4. QED BY <2>2, <2>3
<1>5. node' \in Heaps /\ InsertedHeap(node, node', p, 1, n, v)
  <2>1. CASE L.length = 0
    <3>1. k = 0 /\ p = <<>> /\ Range(p) = {}
      BY <1>2, <1>3, <2>1, PathEnds
    <3>2. node' = NewNode(node, n, NULL, NULL, v)
      BY <1>1, <2>1 DEF AddHeadNode
    <3>3. QED BY <1>2, <1>3, <3>1, <3>2, NewNodeFields DEF InsertedHeap, Pointer
  <2>2. CASE L.length # 0
    <3>1. k # 0 /\ L.head = p[1] /\ p[1] \in Node /\ 1 \in 1..k
      BY <1>2, <1>3, <2>2, PathEnds
    <3>2. PICK A : A = NewNode(node, n, NULL, L.head, v)
      OBVIOUS
    <3>3. node' = SetPrevious(A, L.head, n)
      BY <1>1, <2>2, <3>2 DEF AddHeadNode
    <3>4. /\ A \in Heaps /\ A[n] = [previous |-> NULL, next |-> p[1], value |-> v]
          /\ \A m \in Node \ {n} : A[m] = node[m]
      BY <1>2, <3>1, <3>2, NewNodeFields DEF Pointer
    <3>5. /\ node' \in Heaps
          /\ \A m \in Node : /\ node'[m].previous = IF m = p[1] THEN n ELSE A[m].previous
                             /\ node'[m].next = A[m].next
                             /\ node'[m].value = A[m].value
                             /\ m # p[1] => node'[m] = A[m]
      <4>1. p[1] \in Pointer /\ n \in Pointer /\ node' = SetPrevious(A, p[1], n)
        BY <3>1, <3>3 DEF Pointer
      <4>2. QED BY <3>4, <4>1, SetPreviousFields
    <3>6. p[1] # n
      BY <1>2, <1>3, <3>1, PathPlaces
    <3>7. ASSUME NEW j \in 1..k
          PROVE  /\ node'[p[j]].previous = IF j = 1 THEN n ELSE node[p[j]].previous
                 /\ node'[p[j]].next = node[p[j]].next
                 /\ node'[p[j]].value = node[p[j]].value
      <4>1. p[j] \in Node /\ p[j] # n /\ (p[j] = p[1] <=> j = 1)
        BY <1>2, <1>3, <3>1, PathPlaces
      <4>2. QED BY <3>4, <3>5, <4>1
    <3>8. \A m \in Node \ (Range(p) \cup {n}) : node'[m] = node[m]
      <4>1. p[1] \in Range(p)
        BY <1>2, <1>3, <3>1, PathPlaces
      <4>2. QED BY <3>4, <3>5, <4>1
    <3>9. QED BY <1>3, <3>1, <3>4, <3>5, <3>6, <3>7, <3>8 DEF InsertedHeap
  <2>3. QED BY <2>1, <2>2
<1>6. list' \in [List -> Lists]
  BY <1>4 DEF Wired
<1>7. 1 \in 1..(Len(p) + 1)
  BY <1>3
<1>8. QED BY <1>1, <1>2, <1>3, <1>4, <1>5, <1>6, <1>7 DEF Inserts, InsertedEnds

(* ListInsertNode() with after = 0 inserts at the place of the old node.   *)
LEMMA InsertBeforeInserts ==
  ASSUME NEW P, Wired(P), NEW l \in List, NEW i \in 1..Len(P[l]),
         NEW n \in Node, NEW v \in Value, InsertNode(l, P[l][i], n, v, FALSE)
  PROVE  Inserts(P, l, i, n, v)
<1>1. PICK L, p, old : L = list[l] /\ p = P[l] /\ old = P[l][i]
  OBVIOUS
<1>2. /\ IsPath(node, L, p) /\ node[n] = NoNode /\ n \notin Range(p)
      /\ node \in Heaps /\ L \in Lists /\ L.status = "live"
  <2>1. IsLive(l) /\ Fresh(n)
    BY DEF InsertNode
  <2>2. QED BY <1>1, <2>1, FreshIsOutside DEF Wired, Fit, Fresh, IsNode, IsLive
<1>3. PICK k \in Nat : k = Len(p) /\ i \in 1..k
  BY <1>1, <1>2, PathEnds
<1>4. /\ old = p[i] /\ old \in Node /\ old # n /\ old \in Range(p)
      /\ node[old].previous = Before(p, i) /\ node[old].next = Behind(p, i)
  <2>1. old = p[i] /\ node[p[i]].previous = Before(p, i) /\ node[p[i]].next = Behind(p, i)
    BY <1>1, <1>2, <1>3 DEF IsPath
  <2>2. QED BY <1>2, <1>3, <2>1, PathPlaces
<1>5. L.head = p[1] /\ L.tail = p[k] /\ 1 \in 1..k /\ k \in 1..k /\ L.length = k
  BY <1>2, <1>3, PathEnds DEF IsPath
<1>6. L.head = old <=> i = 1
  BY <1>2, <1>3, <1>4, <1>5, PathPlaces
<1>7. PICK K \in Lists :
        list' = [list EXCEPT ![l] = K] /\ K.status = "live" /\ InsertedEnds(L, K, p, i, n)
  <2>1. PICK head \in Pointer, length \in Nat :
          head = (IF L.head = old THEN n ELSE L.head) /\ length = L.length + 1
    BY <1>2 DEF Lists, Pointer
  <2>2. L.tail \in Pointer
    BY <1>2 DEF Lists, Pointer
  <2>3. PICK K : K = Ends(L, head, L.tail, length)
    OBVIOUS
  <2>4. /\ K \in Lists /\ K.status = "live" /\ K.length = length
        /\ K.head = head /\ K.tail = L.tail
    <3>1. L \in Lists /\ L.status = "live"
      BY <1>2
    <3>2. PICK tail \in Pointer : tail = L.tail
      BY <2>2
    <3>3. K = Ends(L, head, tail, length)
      BY <2>3, <3>2
    <3>4. /\ K \in Lists /\ K.status = "live" /\ K.length = length
          /\ K.head = head /\ K.tail = tail
      BY <3>1, <3>3 DEF Ends, Lists, Pointer
    <3>5. QED BY <3>2, <3>4
  <2>5. list' = [list EXCEPT ![l] = K]
    BY <1>1, <2>1, <2>3 DEF InsertNode
  <2>6. i # k + 1
    BY <1>3
  <2>7. QED BY <1>3, <1>6, <2>1, <2>4, <2>5, <2>6 DEF InsertedEnds
<1>8. PICK A : A = NewNode(node, n, Before(p, i), old, v)
  OBVIOUS
<1>9. PICK B : B = SetPrevious(A, old, n)
  OBVIOUS
<1>10. node' = IF i = 1 THEN B ELSE SetNext(B, p[i - 1], n)
  BY <1>1, <1>4, <1>6, <1>8, <1>9 DEF InsertNode, InsertedBefore, Before
<1>23. i # 1 => i - 1 \in 1..k
  BY <1>3
<1>11. Before(p, i) \in Pointer /\ old \in Pointer /\ n \in Pointer
  BY <1>2, <1>3, <1>4, <1>23, PathPlaces DEF Before, Pointer
<1>12. /\ A \in Heaps
       /\ A[n] = [previous |-> Before(p, i), next |-> old, value |-> v]
       /\ \A m \in Node \ {n} : A[m] = node[m]
  BY <1>2, <1>8, <1>11, NewNodeFields
<1>13. /\ B \in Heaps
       /\ \A m \in Node : /\ B[m].previous = IF m = old THEN n ELSE A[m].previous
                          /\ B[m].next = A[m].next
                          /\ B[m].value = A[m].value
                          /\ m # old => B[m] = A[m]
  <2>1. A \in Heaps /\ old \in Pointer /\ n \in Pointer
    BY <1>11, <1>12
  <2>2. QED BY <1>9, <2>1, SetPreviousFields
<1>14. /\ node' \in Heaps
       /\ \A m \in Node : /\ node'[m].previous = B[m].previous
                          /\ node'[m].next = IF i # 1 /\ m = p[i - 1] THEN n ELSE B[m].next
                          /\ node'[m].value = B[m].value
                          /\ (i # 1 => m # p[i - 1]) => node'[m] = B[m]
  <2>1. CASE i = 1
    BY <1>10, <1>13, <2>1
  <2>2. CASE i # 1
    <3>1. PICK x \in Node : x = p[i - 1]
      BY <1>2, <1>3, <1>23, <2>2, PathPlaces
    <3>2. x \in Pointer /\ node' = SetNext(B, x, n)
      BY <1>10, <2>2, <3>1 DEF Pointer
    <3>3. /\ node' \in Heaps
          /\ \A m \in Node : /\ node'[m].previous = B[m].previous
                             /\ node'[m].next = IF m = x THEN n ELSE B[m].next
                             /\ node'[m].value = B[m].value
                             /\ m # x => node'[m] = B[m]
      <4>1. B \in Heaps /\ n \in Pointer
        BY <1>11, <1>13
      <4>2. QED BY <3>2, <4>1, SetNextFields
    <3>4. QED BY <2>2, <3>1, <3>3
  <2>3. QED BY <2>1, <2>2
<1>15. i # 1 => p[i - 1] \in Range(p) /\ p[i - 1] # n
  BY <1>2, <1>3, <1>23, PathPlaces
<1>16. node'[n] = [previous |-> Before(p, i), next |-> old, value |-> v]
  BY <1>4, <1>12, <1>13, <1>14, <1>15
<1>17. ASSUME NEW j \in 1..k
       PROVE  /\ node'[p[j]].previous = IF j = i THEN n ELSE node[p[j]].previous
              /\ node'[p[j]].next = IF j = i - 1 THEN n ELSE node[p[j]].next
              /\ node'[p[j]].value = node[p[j]].value
  <2>1. p[j] \in Node /\ p[j] # n /\ (p[j] = old <=> j = i)
    BY <1>2, <1>3, <1>4, PathPlaces
  <2>2. (i # 1 /\ p[j] = p[i - 1]) <=> j = i - 1
    BY <1>2, <1>3, <1>23, PathPlaces
  <2>3. A[p[j]] = node[p[j]]
    BY <1>12, <2>1
  <2>4. QED BY <1>13, <1>14, <2>1, <2>2, <2>3
<1>18. \A m \in Node \ (Range(p) \cup {n}) : node'[m] = node[m]
  BY <1>4, <1>12, <1>13, <1>14, <1>15
<1>19. InsertedHeap(node, node', p, i, n, v)
  <2>1. i # k + 1
    BY <1>3
  <2>2. QED BY <1>3, <1>4, <1>16, <1>17, <1>18, <2>1 DEF InsertedHeap, Before
<1>20. list' \in [List -> Lists]
  BY <1>7 DEF Wired
<1>21. i \in 1..(Len(p) + 1)
  BY <1>3
<1>22. QED BY <1>1, <1>2, <1>7, <1>14, <1>19, <1>20, <1>21 DEF Inserts

(* ListInsertNode() with after = 1 inserts behind the old node.            *)
LEMMA InsertAfterInserts ==
  ASSUME NEW P, Wired(P), NEW l \in List, NEW i \in 1..Len(P[l]),
         NEW n \in Node, NEW v \in Value, InsertNode(l, P[l][i], n, v, TRUE)
  PROVE  Inserts(P, l, i + 1, n, v)
<1>1. PICK L, p, old : L = list[l] /\ p = P[l] /\ old = P[l][i]
  OBVIOUS
<1>2. /\ IsPath(node, L, p) /\ node[n] = NoNode /\ n \notin Range(p)
      /\ node \in Heaps /\ L \in Lists /\ L.status = "live"
  <2>1. IsLive(l) /\ Fresh(n)
    BY DEF InsertNode
  <2>2. QED BY <1>1, <2>1, FreshIsOutside DEF Wired, Fit, Fresh, IsNode, IsLive
<1>3. PICK k \in Nat : k = Len(p) /\ i \in 1..k
  BY <1>1, <1>2, PathEnds
<1>4. /\ old = p[i] /\ old \in Node /\ old # n /\ old \in Range(p)
      /\ node[old].previous = Before(p, i) /\ node[old].next = Behind(p, i)
  <2>1. old = p[i] /\ node[p[i]].previous = Before(p, i) /\ node[p[i]].next = Behind(p, i)
    BY <1>1, <1>2, <1>3 DEF IsPath
  <2>2. QED BY <1>2, <1>3, <2>1, PathPlaces
<1>5. L.head = p[1] /\ L.tail = p[k] /\ 1 \in 1..k /\ k \in 1..k /\ L.length = k
  BY <1>2, <1>3, PathEnds DEF IsPath
<1>6. L.tail = old <=> i = k
  BY <1>2, <1>3, <1>4, <1>5, PathPlaces
<1>7. PICK K \in Lists :
        list' = [list EXCEPT ![l] = K] /\ K.status = "live" /\ InsertedEnds(L, K, p, i + 1, n)
  <2>1. PICK tail \in Pointer, length \in Nat :
          tail = (IF L.tail = old THEN n ELSE L.tail) /\ length = L.length + 1
    BY <1>2 DEF Lists, Pointer
  <2>2. PICK head \in Pointer : head = L.head
    BY <1>2 DEF Lists, Pointer
  <2>3. PICK K : K = Ends(L, head, tail, length)
    OBVIOUS
  <2>4. /\ K \in Lists /\ K.status = "live" /\ K.length = length
        /\ K.head = head /\ K.tail = tail
    <3>1. /\ L \in Lists /\ L.status = "live"
          /\ head \in Pointer /\ tail \in Pointer /\ length \in Nat
      BY <1>2
    <3>2. QED BY <2>3, <3>1 DEF Ends, Lists, Pointer
  <2>5. list' = [list EXCEPT ![l] = K]
    BY <1>1, <2>1, <2>2, <2>3 DEF InsertNode
  <2>6. i + 1 # 1 /\ (i + 1 = k + 1 <=> i = k)
    BY <1>3
  <2>7. QED BY <1>3, <1>6, <2>1, <2>2, <2>4, <2>5, <2>6 DEF InsertedEnds
<1>8. PICK A : A = NewNode(node, n, old, Behind(p, i), v)
  OBVIOUS
<1>9. PICK B : B = SetNext(A, old, n)
  OBVIOUS
<1>10. node' = IF i = k THEN B ELSE SetPrevious(B, p[i + 1], n)
  BY <1>1, <1>3, <1>4, <1>6, <1>8, <1>9 DEF InsertNode, InsertedAfter, Behind
<1>23. i # k => i + 1 \in 1..k
  BY <1>3
<1>11. Behind(p, i) \in Pointer /\ old \in Pointer /\ n \in Pointer
  BY <1>2, <1>3, <1>4, <1>23, PathPlaces DEF Behind, Pointer
<1>12. /\ A \in Heaps
       /\ A[n] = [previous |-> old, next |-> Behind(p, i), value |-> v]
       /\ \A m \in Node \ {n} : A[m] = node[m]
  BY <1>2, <1>8, <1>11, NewNodeFields
<1>13. /\ B \in Heaps
       /\ \A m \in Node : /\ B[m].previous = A[m].previous
                          /\ B[m].next = IF m = old THEN n ELSE A[m].next
                          /\ B[m].value = A[m].value
                          /\ m # old => B[m] = A[m]
  <2>1. A \in Heaps /\ old \in Pointer /\ n \in Pointer
    BY <1>11, <1>12
  <2>2. QED BY <1>9, <2>1, SetNextFields
<1>14. /\ node' \in Heaps
       /\ \A m \in Node : /\ node'[m].previous = IF i # k /\ m = p[i + 1] THEN n ELSE B[m].previous
                          /\ node'[m].next = B[m].next
                          /\ node'[m].value = B[m].value
                          /\ (i # k => m # p[i + 1]) => node'[m] = B[m]
  <2>1. CASE i = k
    BY <1>10, <1>13, <2>1
  <2>2. CASE i # k
    <3>1. PICK x \in Node : x = p[i + 1]
      BY <1>2, <1>3, <1>23, <2>2, PathPlaces
    <3>2. x \in Pointer /\ node' = SetPrevious(B, x, n)
      BY <1>10, <2>2, <3>1 DEF Pointer
    <3>3. /\ node' \in Heaps
          /\ \A m \in Node : /\ node'[m].previous = IF m = x THEN n ELSE B[m].previous
                             /\ node'[m].next = B[m].next
                             /\ node'[m].value = B[m].value
                             /\ m # x => node'[m] = B[m]
      <4>1. B \in Heaps /\ n \in Pointer
        BY <1>11, <1>13
      <4>2. QED BY <3>2, <4>1, SetPreviousFields
    <3>4. QED BY <2>2, <3>1, <3>3
  <2>3. QED BY <2>1, <2>2
<1>15. i # k => p[i + 1] \in Range(p) /\ p[i + 1] # n
  BY <1>2, <1>3, <1>23, PathPlaces
<1>16. node'[n] = [previous |-> old, next |-> Behind(p, i), value |-> v]
  BY <1>4, <1>12, <1>13, <1>14, <1>15
<1>17. ASSUME NEW j \in 1..k
       PROVE  /\ node'[p[j]].previous = IF j = i + 1 THEN n ELSE node[p[j]].previous
              /\ node'[p[j]].next = IF j = i THEN n ELSE node[p[j]].next
              /\ node'[p[j]].value = node[p[j]].value
  <2>1. p[j] \in Node /\ p[j] # n /\ (p[j] = old <=> j = i)
    BY <1>2, <1>3, <1>4, PathPlaces
  <2>2. (i # k /\ p[j] = p[i + 1]) <=> j = i + 1
    BY <1>2, <1>3, <1>23, PathPlaces
  <2>3. A[p[j]] = node[p[j]]
    BY <1>12, <2>1
  <2>4. QED BY <1>13, <1>14, <2>1, <2>2, <2>3
<1>18. \A m \in Node \ (Range(p) \cup {n}) : node'[m] = node[m]
  BY <1>4, <1>12, <1>13, <1>14, <1>15
<1>19. InsertedHeap(node, node', p, i + 1, n, v)
  <2>1. i + 1 # 1 /\ (i + 1) - 1 = i /\ (i + 1 = k + 1 <=> i = k)
    BY <1>3
  <2>2. QED BY <1>3, <1>4, <1>16, <1>17, <1>18, <2>1 DEF InsertedHeap, Behind
<1>20. list' \in [List -> Lists]
  BY <1>7 DEF Wired
<1>21. i + 1 \in 1..(Len(p) + 1)
  BY <1>3
<1>22. QED BY <1>1, <1>2, <1>7, <1>14, <1>19, <1>20, <1>21 DEF Inserts

(* The nodes of a list are those of its path.                              *)
LEMMA NodesOfPath ==
  ASSUME NEW P, Wired(P), NEW l \in List
  PROVE  /\ Walk(node, list[l].head, FROM_HEAD_TO_TAIL) = P[l]
         /\ NodesOf(l) = Range(P[l])
BY WalkIsPath DEF Wired, Fit, NodesOf

(* ListInsertNode() inserts next to the old node.                          *)
LEMMA InsertNodeInserts ==
  ASSUME NEW P, Wired(P), NEW l \in List, NEW old \in Node, NEW n \in Node,
         NEW v \in Value, NEW after \in BOOLEAN, InsertNode(l, old, n, v, after)
  PROVE  \E i \in 1..Len(P[l]) :
           P[l][i] = old /\ Inserts(P, l, IF after THEN i + 1 ELSE i, n, v)
<1>1. PICK i \in 1..Len(P[l]) : P[l][i] = old
  BY NodesOfPath, RangePositions DEF InsertNode, Wired, Fit
<1>2. CASE after = TRUE
  BY <1>1, <1>2, InsertAfterInserts
<1>3. CASE after = FALSE
  BY <1>1, <1>3, InsertBeforeInserts
<1>4. QED BY <1>2, <1>3

(* A step that takes the node at place i out of list l.                    *)
Removes(P, l, i) ==
  /\ node' \in Heaps /\ list' \in [List -> Lists]
  /\ RemovedHeap(node, node', P[l], i)
  /\ \E K : /\ list' = [list EXCEPT ![l] = K] /\ K.status = "live"
            /\ RemovedEnds(list[l], K, P[l], i)

(* ListDeleteNode() removes the node from its place.                       *)
LEMMA DeleteNodeRemoves ==
  ASSUME NEW P, Wired(P), NEW l \in List, NEW n \in Node, DeleteNode(l, n)
  PROVE  \E i \in 1..Len(P[l]) : P[l][i] = n /\ Removes(P, l, i)
<1>1. PICK L, p : L = list[l] /\ p = P[l]
  OBVIOUS
<1>2. IsPath(node, L, p) /\ node \in Heaps /\ L \in Lists /\ L.status = "live"
  <2>1. IsLive(l)
    BY DEF DeleteNode
  <2>2. QED BY <1>1, <2>1 DEF Wired, Fit, IsLive
<1>3. PICK k, i : k \in Nat /\ k = Len(p) /\ i \in 1..k /\ p[i] = n
  <2>1. n \in Range(p)
    BY <1>1, NodesOfPath DEF DeleteNode
  <2>2. QED BY <1>2, <2>1, RangePositions, PathEnds DEF IsPath
<1>4. node[n].previous = Before(p, i) /\ node[n].next = Behind(p, i)
  BY <1>2, <1>3 DEF IsPath
<1>5. (i # 1 => i - 1 \in 1..k) /\ (i # k => i + 1 \in 1..k)
  BY <1>3
<1>6. /\ Before(p, i) \in Pointer /\ Behind(p, i) \in Pointer /\ n \in Pointer
      /\ (Before(p, i) = NULL <=> i = 1) /\ (Behind(p, i) = NULL <=> i = k)
  BY <1>2, <1>3, <1>5, PathPlaces, NullAssumption DEF Before, Behind, Pointer
<1>7. PICK before \in Pointer, behind \in Pointer :
        before = Before(p, i) /\ behind = Behind(p, i)
  BY <1>6
<1>8. PICK A : A = IF before = NULL THEN node ELSE SetNext(node, before, behind)
  OBVIOUS
<1>9. PICK B : B = IF behind = NULL THEN A ELSE SetPrevious(A, behind, before)
  OBVIOUS
<1>10. node' = [B EXCEPT ![n] = NoNode]
  BY <1>4, <1>7, <1>8, <1>9 DEF DeleteNode, Unlinked
<1>11. /\ A \in Heaps
       /\ \A m \in Node : /\ A[m].previous = node[m].previous
                          /\ A[m].next = IF m = before THEN behind ELSE node[m].next
                          /\ A[m].value = node[m].value
                          /\ m # before => A[m] = node[m]
  <2>1. CASE before = NULL
    BY <1>2, <1>8, <2>1, NullAssumption
  <2>2. CASE before # NULL
    <3>1. A = SetNext(node, before, behind) /\ node \in Heaps
      BY <1>2, <1>8, <2>2
    <3>2. QED BY <3>1, SetNextFields
  <2>3. QED BY <2>1, <2>2
<1>12. /\ B \in Heaps
       /\ \A m \in Node : /\ B[m].previous = IF m = behind THEN before ELSE A[m].previous
                          /\ B[m].next = A[m].next
                          /\ B[m].value = A[m].value
                          /\ m # behind => B[m] = A[m]
  <2>1. CASE behind = NULL
    BY <1>9, <1>11, <2>1, NullAssumption
  <2>2. CASE behind # NULL
    <3>1. B = SetPrevious(A, behind, before) /\ A \in Heaps
      BY <1>9, <1>11, <2>2
    <3>2. QED BY <3>1, SetPreviousFields
  <2>3. QED BY <2>1, <2>2
<1>13. node' \in Heaps /\ node'[n] = NoNode /\ \A m \in Node \ {n} : node'[m] = B[m]
  BY <1>10, <1>12 DEF Heaps, NoNode
<1>14. ASSUME NEW j \in 1..k
       PROVE  (p[j] = before <=> j = i - 1) /\ (p[j] = behind <=> j = i + 1)
  <2>1. p[j] # NULL
    BY <1>2, <1>3, PathPlaces, NullAssumption
  <2>2. p[j] = before <=> j = i - 1
    <3>1. CASE i = 1
      BY <1>7, <2>1, <3>1 DEF Before
    <3>2. CASE i # 1
      <4>1. PICK x \in 1..k : x = i - 1
        BY <1>5, <3>2
      <4>2. before = p[x]
        BY <1>7, <3>2, <4>1 DEF Before
      <4>3. QED BY <1>2, <1>3, <4>1, <4>2, PathPlaces
    <3>3. QED BY <3>1, <3>2
  <2>3. p[j] = behind <=> j = i + 1
    <3>1. CASE i = k
      BY <1>3, <1>7, <2>1, <3>1 DEF Behind
    <3>2. CASE i # k
      <4>1. PICK x \in 1..k : x = i + 1
        BY <1>5, <3>2
      <4>2. behind = p[x]
        BY <1>3, <1>7, <3>2, <4>1 DEF Behind
      <4>3. QED BY <1>2, <1>3, <4>1, <4>2, PathPlaces
    <3>3. QED BY <3>1, <3>2
  <2>4. QED BY <2>2, <2>3
<1>15. ASSUME NEW j \in 1..k, j # i
       PROVE  /\ node'[p[j]].previous = IF j = i + 1 THEN Before(p, i) ELSE node[p[j]].previous
              /\ node'[p[j]].next = IF j = i - 1 THEN Behind(p, i) ELSE node[p[j]].next
              /\ node'[p[j]].value = node[p[j]].value
  <2>1. p[j] \in Node /\ p[j] # n
    BY <1>2, <1>3, <1>15, PathPlaces
  <2>2. node'[p[j]] = B[p[j]]
    BY <1>13, <2>1
  <2>3. QED BY <1>7, <1>11, <1>12, <1>14, <2>1, <2>2
<1>16. ASSUME NEW m \in Node \ Range(p) PROVE node'[m] = node[m]
  <2>1. m # n
    BY <1>2, <1>3, PathPlaces
  <2>2. m # before
    BY <1>2, <1>3, <1>5, <1>7, PathPlaces, NullAssumption DEF Before
  <2>3. m # behind
    BY <1>2, <1>3, <1>5, <1>7, PathPlaces, NullAssumption DEF Behind
  <2>4. QED BY <1>11, <1>12, <1>13, <2>1, <2>2, <2>3
<1>17. RemovedHeap(node, node', p, i)
  BY <1>3, <1>13, <1>15, <1>16 DEF RemovedHeap
<1>18. PICK K \in Lists :
         list' = [list EXCEPT ![l] = K] /\ K.status = "live" /\ RemovedEnds(L, K, p, i)
  <2>1. L.length = k /\ k - 1 \in Nat
    BY <1>2, <1>3 DEF IsPath
  <2>2. PICK head \in Pointer, tail \in Pointer, length \in Nat :
          /\ head = (IF i = 1 THEN Behind(p, i) ELSE L.head)
          /\ tail = (IF i = k THEN Before(p, i) ELSE L.tail)
          /\ length = L.length - 1
    BY <1>2, <1>6, <2>1 DEF Lists, Pointer
  <2>3. PICK K : K = Ends(L, head, tail, length)
    OBVIOUS
  <2>4. list' = [list EXCEPT ![l] = K]
    BY <1>1, <1>4, <1>6, <2>2, <2>3 DEF DeleteNode
  <2>5. /\ K \in Lists /\ K.status = "live" /\ K.length = length
        /\ K.head = head /\ K.tail = tail
    BY <1>2, <2>3 DEF Ends, Lists, Pointer
  <2>6. QED BY <1>3, <2>2, <2>4, <2>5 DEF RemovedEnds
<1>19. list' \in [List -> Lists]
  BY <1>18 DEF Wired
<1>20. Removes(P, l, i)
  BY <1>1, <1>13, <1>17, <1>18, <1>19 DEF Removes
<1>21. QED BY <1>1, <1>3, <1>20

(* ListRotate() does something.                                            *)
HasSeveral(l) == list[l].length > 1

(* Its assignments are a rotation of the path.                             *)
LEMMA RotateRotates ==
  ASSUME NEW P, Wired(P), NEW l \in List, Rotate(l), HasSeveral(l)
  PROVE  /\ node' \in Heaps /\ list' \in [List -> Lists]
         /\ \E K : /\ list' = [list EXCEPT ![l] = K] /\ K.status = "live"
                   /\ K.length = list[l].length
                   /\ K.head = P[l][Len(P[l])] /\ K.tail = P[l][Len(P[l]) - 1]
         /\ RotatedHeap(node, node', P[l])
<1>1. PICK L, p : L = list[l] /\ p = P[l]
  OBVIOUS
<1>2. IsPath(node, L, p) /\ node \in Heaps /\ L \in Lists /\ L.status = "live"
  <2>1. IsLive(l)
    BY DEF Rotate
  <2>2. QED BY <1>1, <2>1 DEF Wired, Fit, IsLive
<1>3. PICK k \in Nat : k = Len(p) /\ k = L.length /\ k > 1
  BY <1>1, <1>2 DEF HasSeveral, IsPath
<1>4. 1 \in 1..k /\ k \in 1..k /\ k - 1 \in 1..k /\ k # 1 /\ k # k - 1
  BY <1>3
<1>5. PICK first \in Node, last \in Node, third \in Node :
        first = p[1] /\ last = p[k] /\ third = p[k - 1]
  BY <1>2, <1>3, <1>4, PathPlaces
<1>6. L.head = first /\ L.tail = last /\ node[last].previous = third
  <2>1. L.head = p[1] /\ L.tail = p[k]
    <3>1. p # <<>>
      BY <1>2, <1>3 DEF IsPath
    <3>2. QED BY <1>2, <1>3, <3>1 DEF IsPath
  <2>2. node[p[k]].previous = Before(p, k)
    BY <1>2, <1>3, <1>4 DEF IsPath
  <2>3. QED BY <1>4, <1>5, <2>1, <2>2 DEF Before
<1>7. first \in Pointer /\ last \in Pointer /\ third \in Pointer /\ NULL \in Pointer
  BY DEF Pointer
<1>8. PICK A, B, C : /\ A = SetNext(node, third, NULL)
                     /\ B = SetPrevious(A, first, last)
                     /\ C = SetNext(B, last, first)
  OBVIOUS
<1>9. node' = SetPrevious(C, last, NULL) /\ list' = [list EXCEPT ![l] = Ends(L, last, third, k)]
  BY <1>1, <1>3, <1>6, <1>8 DEF Rotate, Rotated
<1>10. /\ A \in Heaps
       /\ \A m \in Node : /\ A[m].previous = node[m].previous
                          /\ A[m].next = IF m = third THEN NULL ELSE node[m].next
                          /\ A[m].value = node[m].value
                          /\ m # third => A[m] = node[m]
  <2>1. A = SetNext(node, third, NULL) /\ node \in Heaps /\ third \in Pointer /\ NULL \in Pointer
    BY <1>7, <1>2, <1>8
  <2>2. QED BY <2>1, SetNextFields
<1>11. /\ B \in Heaps
       /\ \A m \in Node : /\ B[m].previous = IF m = first THEN last ELSE A[m].previous
                          /\ B[m].next = A[m].next
                          /\ B[m].value = A[m].value
                          /\ m # first => B[m] = A[m]
  <2>1. B = SetPrevious(A, first, last) /\ A \in Heaps /\ first \in Pointer /\ last \in Pointer
    BY <1>7, <1>8, <1>10
  <2>2. QED BY <2>1, SetPreviousFields
<1>12. /\ C \in Heaps
       /\ \A m \in Node : /\ C[m].previous = B[m].previous
                          /\ C[m].next = IF m = last THEN first ELSE B[m].next
                          /\ C[m].value = B[m].value
                          /\ m # last => C[m] = B[m]
  <2>1. C = SetNext(B, last, first) /\ B \in Heaps /\ last \in Pointer /\ first \in Pointer
    BY <1>7, <1>8, <1>11
  <2>2. QED BY <2>1, SetNextFields
<1>13. /\ node' \in Heaps
       /\ \A m \in Node : /\ node'[m].previous = IF m = last THEN NULL ELSE C[m].previous
                          /\ node'[m].next = C[m].next
                          /\ node'[m].value = C[m].value
                          /\ m # last => node'[m] = C[m]
  <2>1. node' = SetPrevious(C, last, NULL) /\ C \in Heaps /\ last \in Pointer /\ NULL \in Pointer
    BY <1>7, <1>9, <1>12
  <2>2. QED BY <2>1, SetPreviousFields
<1>15. ASSUME NEW j \in 1..k
       PROVE  p[j] \in Node /\ (p[j] = first <=> j = 1) /\ (p[j] = last <=> j = k)
              /\ (p[j] = third <=> j = k - 1)
  <2>1. PICK i \in 1..k : i = k - 1
    BY <1>4
  <2>2. third = p[i]
    BY <1>5, <2>1
  <2>3. p[j] = third <=> j = i
    BY <1>2, <1>3, <2>2, PathPlaces
  <2>4. p[j] \in Node /\ (p[j] = first <=> j = 1) /\ (p[j] = last <=> j = k)
    <3>1. first = p[1] /\ last = p[k] /\ 1 \in 1..k /\ k \in 1..k
      BY <1>4, <1>5
    <3>2. QED BY <1>2, <1>3, <3>1, PathPlaces
  <2>5. QED BY <2>1, <2>3, <2>4
<1>14. first # last /\ last # third
  <2>1. (p[k] = first <=> k = 1) /\ (p[k] = third <=> k = k - 1)
    BY <1>4, <1>15
  <2>2. QED BY <1>4, <1>5, <2>1
<1>16. /\ node'[last].previous = NULL /\ node'[last].next = first
       /\ node'[first].previous = last /\ node'[third].next = NULL
  BY <1>10, <1>11, <1>12, <1>13, <1>14
<1>17. ASSUME NEW j \in 1..k
       PROVE  /\ j # 1 /\ j # k => node'[p[j]].previous = node[p[j]].previous
              /\ j # k /\ j # k - 1 => node'[p[j]].next = node[p[j]].next
              /\ node'[p[j]].value = node[p[j]].value
  BY <1>10, <1>11, <1>12, <1>13, <1>15
<1>18. \A m \in Node \ Range(p) : node'[m] = node[m]
  <2>1. first \in Range(p) /\ last \in Range(p) /\ third \in Range(p)
    BY <1>2, <1>3, <1>4, <1>5, PathPlaces
  <2>2. QED BY <1>10, <1>11, <1>12, <1>13, <2>1
<1>19. RotatedHeap(node, node', p)
  BY <1>3, <1>5, <1>16, <1>17, <1>18 DEF RotatedHeap
<1>20. PICK K \in Lists :
         /\ list' = [list EXCEPT ![l] = K] /\ K.status = "live" /\ K.length = L.length
         /\ K.head = last /\ K.tail = third
  <2>1. PICK K : K = Ends(L, last, third, k)
    OBVIOUS
  <2>2. K \in Lists /\ K.status = "live" /\ K.length = k /\ K.head = last /\ K.tail = third
    BY <1>2, <1>7, <2>1 DEF Ends, Lists, Pointer
  <2>3. QED BY <1>3, <1>9, <2>1, <2>2
<1>21. list' \in [List -> Lists]
  BY <1>20 DEF Wired
<1>22. QED BY <1>1, <1>3, <1>5, <1>13, <1>19, <1>20, <1>21

-----------------------------------------------------------------------------
(* The paths after each step.                                              *)

(* A list that has no node, whatever the heap.                             *)
LEMMA EmptyPath ==
  ASSUME NEW N, NEW status \in {"absent", "live", "dangling"}
  PROVE  /\ NoList(status) \in Lists /\ NoList(status).status = status
         /\ IsPath(N, NoList(status), <<>>)
<1>1. NoList(status) \in Lists /\ NoList(status).status = status
  BY DEF NoList, Lists
<1>2. <<>> \in Seq(Node) /\ Len(<<>>) = 0 /\ IsInjective(<<>>)
  BY DEF IsInjective
<1>3. IsPath(N, NoList(status), <<>>)
  BY <1>2 DEF NoList, IsPath
<1>4. QED BY <1>1, <1>3

(* A list with no node gets another record without any.                    *)
LEMMA EmptyFit ==
  ASSUME NEW N, NEW S, NEW P, Fit(N, S, P), DOMAIN S = List, NEW l \in List,
         S[l].status # "live", NEW status \in {"absent", "live", "dangling"}
  PROVE  Fit(N, [S EXCEPT ![l] = NoList(status)], P)
<1>1. P[l] = <<>> /\ P \in [List -> Seq(Node)]
  BY DEF Fit
<1>2. P = [P EXCEPT ![l] = <<>>]
  BY <1>1
<1>3. Range(<<>>) = {}
  BY DEF Range
<1>4. PICK K, e : K = NoList(status) /\ e = <<>>
  OBVIOUS
<1>5. IsPath(N, K, e)
  BY <1>4, EmptyPath
<1>6. Range(e) = {} /\ Range(P[l]) = {}
  BY <1>1, <1>3, <1>4
<1>7. /\ \A n \in Range(e) \ Range(P[l]) : N[n] = NoNode
      /\ \A n \in Node \ (Range(P[l]) \cup Range(e)) : N[n] = N[n]
      /\ \A n \in Range(P[l]) \ Range(e) : N[n] = NoNode
  BY <1>6
<1>8. Fit(N, [S EXCEPT ![l] = K], [P EXCEPT ![l] = e])
  BY <1>4, <1>5, <1>7, PathReplaced
<1>9. QED BY <1>2, <1>4, <1>8

(* The paths after an insertion.                                           *)
LEMMA InsertsFit ==
  ASSUME NEW P, Wired(P), NEW l \in List, NEW i, NEW n \in Node, NEW v \in Value,
         Inserts(P, l, i, n, v)
  PROVE  Fit(node', list', [P EXCEPT ![l] = InsertAt(P[l], i, n)])
<1>1. PICK K : /\ list' = [list EXCEPT ![l] = K]
               /\ InsertedHeap(node, node', P[l], i, n, v)
               /\ K.status = "live" /\ InsertedEnds(list[l], K, P[l], i, n)
  BY DEF Inserts
<1>2. i \in 1..(Len(P[l]) + 1) /\ node[n] = NoNode
  BY DEF Inserts
<1>3. Fit(node, list, P) /\ DOMAIN list = List
  BY DEF Wired
<1>4. Fit(node', [list EXCEPT ![l] = K], [P EXCEPT ![l] = InsertAt(P[l], i, n)])
  BY <1>1, <1>2, <1>3, InsertedFit
<1>5. QED BY <1>1, <1>4

(* The paths after a removal.                                              *)
LEMMA RemovesFit ==
  ASSUME NEW P, Wired(P), NEW l \in List, NEW i \in 1..Len(P[l]), Removes(P, l, i)
  PROVE  Fit(node', list', [P EXCEPT ![l] = RemoveAt(P[l], i)])
<1>1. PICK K : /\ list' = [list EXCEPT ![l] = K] /\ K.status = "live"
               /\ RemovedEnds(list[l], K, P[l], i)
  BY DEF Removes
<1>2. RemovedHeap(node, node', P[l], i)
  BY DEF Removes
<1>3. Fit(node, list, P) /\ DOMAIN list = List /\ IsPath(node, list[l], P[l])
  BY DEF Wired, Fit
<1>4. PICK L, p, q : L = list[l] /\ p = P[l] /\ q = RemoveAt(P[l], i)
  OBVIOUS
<1>5. i \in 1..Len(p) /\ IsPath(node, L, p) /\ RemovedHeap(node, node', p, i) /\ RemovedEnds(L, K, p, i)
  BY <1>1, <1>2, <1>3, <1>4
<1>6. IsPath(node', K, RemoveAt(p, i)) /\ Range(RemoveAt(p, i)) = Range(p) \ {p[i]}
  BY <1>5, RemovedPath, SMTT(30)
<1>7. IsPath(node', K, q) /\ Range(q) = Range(p) \ {p[i]}
  BY <1>4, <1>6
<1>8. p[i] \in Range(p)
  BY <1>5, PathPlaces
<1>9. /\ \A n \in Range(q) \ Range(P[l]) : node[n] = NoNode
      /\ \A n \in Node \ (Range(P[l]) \cup Range(q)) : node'[n] = node[n]
      /\ \A n \in Range(P[l]) \ Range(q) : node'[n] = NoNode
  BY <1>4, <1>5, <1>7, <1>8 DEF RemovedHeap
<1>10. Fit(node', [list EXCEPT ![l] = K], [P EXCEPT ![l] = q])
  BY <1>1, <1>3, <1>7, <1>9, PathReplaced
<1>11. QED BY <1>1, <1>4, <1>10

(* The paths after a rotation.                                             *)
LEMMA RotateFit ==
  ASSUME NEW P, Wired(P), NEW l \in List, Rotate(l), HasSeveral(l)
  PROVE  Fit(node', list', [P EXCEPT ![l] = <<Last(P[l])>> \o Front(P[l])])
<1>1. PICK K : /\ list' = [list EXCEPT ![l] = K] /\ K.status = "live"
               /\ K.length = list[l].length
               /\ K.head = P[l][Len(P[l])] /\ K.tail = P[l][Len(P[l]) - 1]
  BY RotateRotates
<1>2. RotatedHeap(node, node', P[l])
  BY RotateRotates
<1>3. Fit(node, list, P) /\ DOMAIN list = List /\ IsPath(node, list[l], P[l])
  BY DEF Wired, Fit
<1>4. PICK p, q : p = P[l] /\ q = <<Last(p)>> \o Front(p)
  OBVIOUS
<1>5. Len(p) > 1
  BY <1>3, <1>4 DEF IsPath, HasSeveral
<1>6. IsPath(node', K, q) /\ Range(q) = Range(p)
  BY <1>1, <1>2, <1>3, <1>4, <1>5, RotatedPath
<1>7. /\ \A n \in Range(q) \ Range(P[l]) : node[n] = NoNode
      /\ \A n \in Node \ (Range(P[l]) \cup Range(q)) : node'[n] = node[n]
      /\ \A n \in Range(P[l]) \ Range(q) : node'[n] = NoNode
  BY <1>2, <1>4, <1>6 DEF RotatedHeap
<1>8. Fit(node', [list EXCEPT ![l] = K], [P EXCEPT ![l] = q])
  BY <1>1, <1>3, <1>6, <1>7, PathReplaced
<1>9. QED BY <1>1, <1>4, <1>8

(* ListFree() frees the nodes of the path, all of them and no other.       *)
LEMMA FreeFit ==
  ASSUME NEW P, Wired(P), NEW l \in List, Free(l)
  PROVE  /\ node' = [n \in Node |-> IF n \in Range(P[l]) THEN NoNode ELSE node[n]]
         /\ node' \in Heaps /\ list' \in [List -> Lists]
         /\ Fit(node', list', [P EXCEPT ![l] = <<>>])
<1>1. Fit(node, list, P) /\ DOMAIN list = List /\ IsPath(node, list[l], P[l])
  BY DEF Wired, Fit
<1>2. node' = [n \in Node |-> IF n \in Range(P[l]) THEN NoNode ELSE node[n]]
  <2>1. PICK p, L : p = P[l] /\ L = list[l]
    OBVIOUS
  <2>2. p \in Seq(Node) /\ L.length = Len(p) /\ Walk(node, L.head, FROM_HEAD_TO_TAIL) = p
    BY <1>1, <2>1, NodesOfPath DEF IsPath
  <2>3. \A n : (\E i \in 1..L.length : p[i] = n) <=> n \in Range(p)
    BY <2>2, RangePositions
  <2>4. node' = [n \in Node |-> IF \E i \in 1..L.length : p[i] = n THEN NoNode ELSE node[n]]
    BY <2>1, <2>2 DEF Free, FreedNodes
  <2>5. QED BY <2>1, <2>3, <2>4
<1>3. node' \in Heaps
  BY <1>2 DEF Wired, Heaps, NoNode
<1>4. PICK K, e : K = NoList("absent") /\ e = <<>>
  OBVIOUS
<1>5. IsPath(node', K, e) /\ K \in Lists
  BY <1>4, EmptyPath
<1>6. Range(e) = {}
  BY <1>4 DEF Range
<1>7. list' = [list EXCEPT ![l] = K]
  BY <1>4 DEF Free
<1>8. list' \in [List -> Lists]
  BY <1>5, <1>7 DEF Wired
<1>9. /\ \A n \in Range(e) \ Range(P[l]) : node[n] = NoNode
      /\ \A n \in Node \ (Range(P[l]) \cup Range(e)) : node'[n] = node[n]
      /\ \A n \in Range(P[l]) \ Range(e) : node'[n] = NoNode
  <2>1. Range(P[l]) \subseteq Node
    BY <1>1, RangePositions DEF IsPath
  <2>2. QED BY <1>2, <1>6, <2>1
<1>10. Fit(node', [list EXCEPT ![l] = K], [P EXCEPT ![l] = e])
  BY <1>1, <1>4, <1>5, <1>9, PathReplaced
<1>11. QED BY <1>2, <1>3, <1>4, <1>7, <1>8, <1>10

-----------------------------------------------------------------------------
(* Copies.                                                                 *)

(* The heap and the list record while ListDuplicate() adds nodes.          *)
Copies == [heap : Heaps, copy : Lists]

(* One node more at the tail of a copy, whatever its record is.            *)
LEMMA CopyGrows ==
  ASSUME NEW c \in Copies, NEW n \in Node, NEW v \in Value
  PROVE  [heap |-> TailHeap(c.heap, c.copy, n, v), copy |-> TailEnds(c.copy, n)] \in Copies
<1>1. PICK N \in Heaps, L \in Lists : N = c.heap /\ L = c.copy
  BY DEF Copies
<1>2. TailHeap(N, L, n, v) \in Heaps
  <2>1. NULL \in Pointer /\ L.tail \in Pointer /\ n \in Pointer
    BY DEF Pointer, Lists
  <2>2. PICK tail \in Pointer : tail = L.tail
    BY <2>1
  <2>3. CASE L.length = 0
    <3>1. NewNode(N, n, NULL, NULL, v) \in Heaps
      BY <2>1, NewNodeFields
    <3>2. QED BY <2>3, <3>1 DEF TailHeap
  <2>4. CASE L.length # 0
    <3>1. PICK A : A = NewNode(N, n, tail, NULL, v)
      OBVIOUS
    <3>2. A \in Heaps
      BY <2>1, <3>1, NewNodeFields
    <3>3. SetNext(A, tail, n) \in Heaps
      BY <2>1, <3>2, SetNextFields
    <3>4. QED BY <2>2, <2>4, <3>1, <3>3 DEF TailHeap
  <2>5. QED BY <2>3, <2>4
<1>3. TailEnds(L, n) \in Lists
  <2>1. PICK head \in Pointer, length \in Nat :
          head = (IF L.length = 0 THEN n ELSE L.head) /\ length = L.length + 1
    BY DEF Lists, Pointer
  <2>2. TailEnds(L, n) = Ends(L, head, n, length) /\ n \in Pointer
    BY <2>1 DEF TailEnds, Pointer
  <2>3. Ends(L, head, n, length) \in Lists
    BY <2>2, EndsFields
  <2>4. QED BY <2>2, <2>3
<1>4. QED BY <1>1, <1>2, <1>3 DEF Copies

(* The nodes are those of a copy of path p.                                *)
IsCopy(p, nodes) ==
  /\ p \in Seq(Node) /\ nodes \in Seq(Node) /\ Len(nodes) = Len(p)
  /\ IsInjective(nodes)
  /\ \A i \in 1..Len(p) : node[nodes[i]] = NoNode /\ node[p[i]].value \in Value

(* The copy after each of the nodes.                                       *)
LEMMA CopyRecursion ==
  ASSUME node \in Heaps, NEW p, NEW nodes, IsCopy(p, nodes)
  PROVE  \E copied :
           /\ CopiedUpTo(p, nodes) = copied[Len(p)]
           /\ copied[0] = [heap |-> node, copy |-> NoList("live")]
           /\ \A i \in 1..Len(p) :
                copied[i] = [heap |-> TailHeap(copied[i - 1].heap, copied[i - 1].copy,
                                               nodes[i], node[p[i]].value),
                             copy |-> TailEnds(copied[i - 1].copy, nodes[i])]
<1> DEFINE empty == [heap |-> node, copy |-> NoList("live")]
           Grown(c, i) == [heap |-> TailHeap(c.heap, c.copy, nodes[i], node[p[i]].value),
                           copy |-> TailEnds(c.copy, nodes[i])]
           grows == [i \in Nat |-> [c \in Copies |->
                      IF i \in 1..Len(p) THEN Grown(c, i) ELSE c]]
<1>1. empty \in Copies /\ grows \in [Nat -> [Copies -> Copies]]
  <2>1. empty \in Copies
    BY EmptyPath DEF Copies
  <2>2. ASSUME NEW i \in 1..Len(p), NEW c \in Copies PROVE Grown(c, i) \in Copies
    <3>1. nodes[i] \in Node /\ node[p[i]].value \in Value
      BY DEF IsCopy
    <3>2. QED BY <3>1, CopyGrows
  <2> HIDE DEF Grown, empty
  <2>3. \A i \in Nat : [c \in Copies |-> IF i \in 1..Len(p) THEN Grown(c, i) ELSE c]
                         \in [Copies -> Copies]
    BY <2>2
  <2>4. QED BY <2>1, <2>3
<1>2. PICK k \in Nat : k = Len(p)
  BY DEF IsCopy
<1>3. PICK h \in [0..k -> Copies] :
        h[0] = empty /\ \A i \in 1..k : h[i] = grows[i][h[i - 1]]
  <2> HIDE DEF empty, grows
  <2>1. \A m \in Nat : \E h \in [0..m -> Copies] :
          h[0] = empty /\ \A i \in 1..m : h[i] = grows[i][h[i - 1]]
    BY <1>1, IterationExists, SMTT(30)
  <2>2. QED BY <2>1
<1>4. ASSUME NEW i \in 1..k PROVE h[i] = Grown(h[i - 1], i)
  <2>1. i - 1 \in 0..k /\ i \in Nat /\ i \in 1..Len(p)
    BY <1>2
  <2>2. h[i] = grows[i][h[i - 1]]
    <3> HIDE DEF grows
    <3> QED BY <1>3
  <2>3. h[i - 1] \in Copies
    BY <2>1
  <2> HIDE DEF Grown
  <2>4. QED BY <2>1, <2>2, <2>3
<1> DEFINE copied[i \in 0..Len(p)] == IF i = 0 THEN empty ELSE Grown(copied[i - 1], i)
<1>5. h = [i \in 0..Len(p) |-> IF i = 0 THEN empty ELSE Grown(h[i - 1], i)]
  <2> HIDE DEF Grown, empty
  <2>1. \A i \in 0..k : h[i] = IF i = 0 THEN empty ELSE Grown(h[i - 1], i)
    BY <1>3, <1>4
  <2>2. QED BY <1>2, <2>1
<1>6. copied = [i \in 0..Len(p) |-> IF i = 0 THEN empty ELSE Grown(copied[i - 1], i)]
  <2> HIDE DEF Grown, empty
  <2> QED BY <1>5, Zenon DEF copied
<1>7. CopiedUpTo(p, nodes) = copied[Len(p)]
  BY DEF CopiedUpTo
<1> HIDE DEF copied
<1>8. \A i \in 0..k : copied[i] = IF i = 0 THEN empty ELSE Grown(copied[i - 1], i)
  <2> HIDE DEF Grown, empty
  <2> QED BY <1>2, <1>6
<1>9. copied[0] = empty /\ \A i \in 1..k : copied[i] = Grown(copied[i - 1], i)
  <2> HIDE DEF Grown, empty
  <2> QED BY <1>8
<1>10. QED BY <1>2, <1>7, <1>9

(* An insertion at the end appends.                                        *)
LEMMA InsertAtEnd ==
  ASSUME NEW S, NEW q \in Seq(S), NEW n \in S
  PROVE  \E t \in Seq(S) :
           /\ t = InsertAt(q, Len(q) + 1, n)
           /\ Len(t) = Len(q) + 1
           /\ \A j \in 1..Len(q) : t[j] = q[j]
           /\ t[Len(q) + 1] = n
<1>1. \A i \in 1..(Len(q) + 1) :
        /\ InsertAt(q, i, n) \in Seq(S) /\ Len(InsertAt(q, i, n)) = Len(q) + 1
        /\ \A j \in 1..(Len(q) + 1) :
             InsertAt(q, i, n)[j] = IF j < i THEN q[j] ELSE IF j = i THEN n ELSE q[j - 1]
  BY InsertAtPosition
<1>2. PICK i \in 1..(Len(q) + 1) : i = Len(q) + 1
  OBVIOUS
<1>3. PICK t : t = InsertAt(q, i, n)
  OBVIOUS
<1>4. /\ t \in Seq(S) /\ Len(t) = Len(q) + 1
      /\ \A j \in 1..Len(q) : t[j] = q[j]
      /\ t[Len(q) + 1] = n
  <2>1. PICK k \in Nat : k = Len(q)
    OBVIOUS
  <2>2. t \in Seq(S) /\ Len(t) = k + 1 /\ i = k + 1
    BY <1>1, <1>2, <1>3, <2>1
  <2>3. \A j \in 1..(k + 1) : t[j] = IF j < i THEN q[j] ELSE IF j = i THEN n ELSE q[j - 1]
    BY <1>1, <1>3, <2>1
  <2>4. (\A j \in 1..k : t[j] = q[j]) /\ t[k + 1] = n
    BY <2>2, <2>3
  <2>5. QED BY <2>1, <2>2, <2>4
<1>5. QED BY <1>2, <1>3, <1>4

(* What the copy is after i nodes.                                         *)
CopyIs(p, nodes, c, i) ==
  /\ c \in Copies /\ c.copy.status = "live"
  /\ \E q \in Seq(Node) :
       /\ Len(q) = i /\ \A j \in 1..i : q[j] = nodes[j]
       /\ IsPath(c.heap, c.copy, q)
  /\ \A j \in 1..i : c.heap[nodes[j]].value = node[p[j]].value
  /\ \A m \in Node : (\A j \in 1..i : nodes[j] # m) => c.heap[m] = node[m]

(* One node more is copied.                                                *)
LEMMA CopyStep ==
  ASSUME NEW p, NEW nodes, IsCopy(p, nodes), NEW c, NEW i \in Nat, i + 1 <= Len(p),
         CopyIs(p, nodes, c, i), NEW d,
         d.heap = TailHeap(c.heap, c.copy, nodes[i + 1], node[p[i + 1]].value),
         d.copy = TailEnds(c.copy, nodes[i + 1]), d \in Copies
  PROVE  CopyIs(p, nodes, d, i + 1)
<1>1. PICK N \in Heaps, L \in Lists : N = c.heap /\ L = c.copy
  BY DEF CopyIs, Copies
<1>2. PICK q \in Seq(Node) :
        Len(q) = i /\ (\A j \in 1..i : q[j] = nodes[j]) /\ IsPath(N, L, q)
  BY <1>1 DEF CopyIs
<1>3. PICK n \in Node, v \in Value : n = nodes[i + 1] /\ v = node[p[i + 1]].value
  <2>1. i + 1 \in 1..Len(p)
    BY DEF IsCopy
  <2>2. nodes[i + 1] \in Node /\ node[p[i + 1]].value \in Value
    BY <2>1 DEF IsCopy
  <2>3. QED BY <2>2
<1> PICK M, K : M = TailHeap(N, L, n, v) /\ K = TailEnds(L, n)
  OBVIOUS
<1>4. d.heap = M /\ d.copy = K
  BY <1>1, <1>3
<1>5. \A j \in 1..i : nodes[j] # n
  <2>1. ASSUME NEW j \in 1..i PROVE nodes[j] # nodes[i + 1]
    <3>1. PICK k \in 1..Len(nodes) : k = i + 1 /\ k # j
      <4>1. i + 1 \in 1..Len(nodes)
        BY DEF IsCopy
      <4>2. QED BY <4>1
    <3>2. j \in 1..Len(nodes)
      BY DEF IsCopy
    <3>3. nodes[j] # nodes[k]
      BY <3>1, <3>2, InjectivePositions DEF IsCopy
    <3>4. QED BY <3>1, <3>3
  <2>2. QED BY <1>3, <2>1
<1>6. n \notin Range(q)
  BY <1>2, <1>5, RangePositions
<1>7. InsertedHeap(N, M, q, Len(q) + 1, n, v)
  BY <1>2, <1>3, <1>6, TailHeapInserts
<1>8. K.status = "live" /\ InsertedEnds(L, K, q, Len(q) + 1, n)
  <2>1. /\ K.status = L.status /\ K.length = L.length + 1
        /\ K.head = (IF Len(q) + 1 = 1 THEN n ELSE L.head) /\ K.tail = n
    BY <1>2, <1>3, TailEndsInserts
  <2>2. L.status = "live"
    BY <1>1 DEF CopyIs
  <2>3. QED BY <2>1, <2>2 DEF InsertedEnds
<1>9. PICK t \in Seq(Node) :
        /\ t = InsertAt(q, Len(q) + 1, n)
        /\ Len(t) = Len(q) + 1
        /\ \A j \in 1..Len(q) : t[j] = q[j]
        /\ t[Len(q) + 1] = n
  BY InsertAtEnd
<1>10. PICK k \in 1..(Len(q) + 1) : k = Len(q) + 1
  BY <1>2
<1>11. IsPath(M, K, t)
  <2>1. InsertedHeap(N, M, q, k, n, v) /\ InsertedEnds(L, K, q, k, n) /\ IsPath(N, L, q)
    BY <1>2, <1>7, <1>8, <1>10
  <2>2. IsPath(M, K, InsertAt(q, k, n))
    BY <1>6, <2>1, InsertedPath
  <2>3. QED BY <1>9, <1>10, <2>2
<1>12. Len(t) = i + 1 /\ \A j \in 1..(i + 1) : t[j] = nodes[j]
  <2>1. Len(t) = i + 1 /\ (\A j \in 1..i : t[j] = nodes[j]) /\ t[i + 1] = nodes[i + 1]
    BY <1>2, <1>3, <1>9
  <2>2. QED BY <2>1
<1>13. \A j \in 1..(i + 1) : M[nodes[j]].value = node[p[j]].value
  <2>1. M[nodes[i + 1]].value = node[p[i + 1]].value
    BY <1>3, <1>7 DEF InsertedHeap
  <2>2. ASSUME NEW j \in 1..i PROVE M[nodes[j]].value = node[p[j]].value
    <3>1. j \in 1..Len(q) /\ q[j] = nodes[j]
      BY <1>2
    <3>2. M[q[j]].value = N[q[j]].value
      BY <1>7, <3>1 DEF InsertedHeap
    <3>3. N[nodes[j]].value = node[p[j]].value
      BY <1>1 DEF CopyIs
    <3>4. QED BY <3>1, <3>2, <3>3
  <2>3. QED BY <2>1, <2>2
<1>14. ASSUME NEW m \in Node, \A j \in 1..(i + 1) : nodes[j] # m PROVE M[m] = node[m]
  <2>1. m # n /\ \A j \in 1..i : nodes[j] # m
    BY <1>3, <1>14
  <2>2. m \notin Range(q)
    BY <1>2, <2>1, RangePositions
  <2>3. M[m] = N[m]
    BY <1>7, <2>1, <2>2 DEF InsertedHeap
  <2>4. N[m] = node[m]
    BY <1>1, <2>1 DEF CopyIs
  <2>5. QED BY <2>3, <2>4
<1>15. QED BY <1>4, <1>8, <1>11, <1>12, <1>13, <1>14 DEF CopyIs

(* What the copy is at the end.                                            *)
LEMMA CopyEnds ==
  ASSUME node \in Heaps, NEW p, NEW nodes, IsCopy(p, nodes)
  PROVE  CopyIs(p, nodes, CopiedUpTo(p, nodes), Len(p))
<1>1. PICK k \in Nat : k = Len(p)
  BY DEF IsCopy
<1>2. PICK copied :
        /\ CopiedUpTo(p, nodes) = copied[k]
        /\ copied[0] = [heap |-> node, copy |-> NoList("live")]
        /\ \A i \in 1..k :
             copied[i] = [heap |-> TailHeap(copied[i - 1].heap, copied[i - 1].copy,
                                            nodes[i], node[p[i]].value),
                          copy |-> TailEnds(copied[i - 1].copy, nodes[i])]
  BY <1>1, CopyRecursion
<1> DEFINE S == {i \in Nat : i <= k => CopyIs(p, nodes, copied[i], i)}
<1>3. 0 \in S
  <2>1. PICK N, L, c : N = node /\ L = NoList("live") /\ c = copied[0]
    OBVIOUS
  <2>2. c = [heap |-> N, copy |-> L]
    BY <1>2, <2>1
  <2>3. L \in Lists /\ L.status = "live" /\ IsPath(N, L, <<>>)
    BY <2>1, EmptyPath
  <2>4. c \in Copies /\ c.heap = N /\ c.copy = L
    BY <2>1, <2>2, <2>3 DEF Copies
  <2>5. PICK q \in Seq(Node) : q = <<>> /\ Len(q) = 0
    <3>1. <<>> \in Seq(Node) /\ Len(<<>>) = 0
      OBVIOUS
    <3>2. QED BY <3>1
  <2>6. IsPath(c.heap, c.copy, q) /\ \A j \in 1..0 : q[j] = nodes[j]
    BY <2>3, <2>4, <2>5
  <2>7. \A m \in Node : c.heap[m] = node[m]
    BY <2>1, <2>4
  <2>8. \A j \in 1..0 : c.heap[nodes[j]].value = node[p[j]].value
    OBVIOUS
  <2>9. CopyIs(p, nodes, c, 0)
    <3>1. c \in Copies /\ c.copy.status = "live"
      BY <2>3, <2>4
    <3>2. QED BY <2>5, <2>6, <2>7, <2>8, <3>1 DEF CopyIs
  <2>10. QED BY <2>1, <2>9
<1>4. ASSUME NEW i \in S PROVE i + 1 \in S
  <2>0. i \in Nat
    OBVIOUS
  <2>1. CASE i + 1 <= k
    <3>1. CopyIs(p, nodes, copied[i], i) /\ i + 1 \in 1..k /\ (i + 1) - 1 = i
      BY <2>1
    <3>2. PICK c, d, n, v : /\ c = copied[i] /\ d = copied[i + 1]
                            /\ n = nodes[i + 1] /\ v = node[p[i + 1]].value
      OBVIOUS
    <3>3. d = [heap |-> TailHeap(c.heap, c.copy, n, v), copy |-> TailEnds(c.copy, n)]
      BY <1>2, <3>1, <3>2
    <3>4. c \in Copies /\ n \in Node /\ v \in Value
      BY <1>1, <3>1, <3>2 DEF CopyIs, IsCopy
    <3>5. d \in Copies
      BY <3>3, <3>4, CopyGrows
    <3>6. d.heap = TailHeap(c.heap, c.copy, n, v) /\ d.copy = TailEnds(c.copy, n)
      BY <3>3
    <3>7. CopyIs(p, nodes, d, i + 1)
      BY <1>1, <2>0, <2>1, <3>1, <3>2, <3>5, <3>6, CopyStep
    <3>8. QED BY <3>2, <3>7
  <2>2. CASE ~(i + 1 <= k)
    BY <2>2
  <2>3. QED BY <2>1, <2>2
<1> HIDE DEF S
<1>5. S = Nat
  <2>1. S \in SUBSET Nat
    BY DEF S
  <2>2. QED BY <1>3, <1>4, <2>1, NaturalInduction
<1>6. CopyIs(p, nodes, copied[k], k)
  BY <1>5 DEF S
<1>7. QED BY <1>1, <1>2, <1>6

(* The record of the copy has the nodes for its path.                      *)
LEMMA CopyPath ==
  ASSUME node \in Heaps, NEW p, NEW nodes, IsCopy(p, nodes), NEW c,
         c = CopiedUpTo(p, nodes)
  PROVE  c.heap \in Heaps /\ IsPath(c.heap, c.copy, nodes)
<1>1. CopyIs(p, nodes, c, Len(p))
  BY CopyEnds
<1>2. PICK q \in Seq(Node) : /\ Len(q) = Len(p) /\ \A j \in 1..Len(p) : q[j] = nodes[j]
                             /\ IsPath(c.heap, c.copy, q)
  BY <1>1 DEF CopyIs
<1>3. q = nodes
  BY <1>2, SeqEqual DEF IsCopy
<1>4. QED BY <1>1, <1>2, <1>3 DEF CopyIs, Copies

(* Fresh nodes for a path are those of a copy.                             *)
LEMMA CopyNodesCopy ==
  ASSUME NEW p \in Seq(Node), \A i \in 1..Len(p) : node[p[i]].value \in Value,
         NEW nodes \in CopyNodes(p)
  PROVE  IsCopy(p, nodes)
<1>1. nodes \in [DOMAIN p -> {n \in Node : Fresh(n)}] /\ IsInjective(nodes)
  BY DEF CopyNodes
<1>2. nodes \in Seq(Node) /\ Len(nodes) = Len(p)
  <2>1. PICK k \in Nat : k = Len(p) /\ DOMAIN p = 1..k
    OBVIOUS
  <2>2. nodes \in [1..k -> Node]
    BY <1>1, <2>1
  <2>3. QED BY <2>1, <2>2
<1>3. ASSUME NEW i \in 1..Len(p) PROVE node[nodes[i]] = NoNode
  <2>1. i \in DOMAIN p
    OBVIOUS
  <2>2. QED BY <1>1, <2>1 DEF Fresh, IsNode
<1>4. QED BY <1>1, <1>2, <1>3 DEF IsCopy

(* A step that copies list l with these nodes.                             *)
DuplicateNodes(P, l, copy, nodes) ==
  /\ IsCopy(P[l], nodes)
  /\ node' = CopiedUpTo(P[l], nodes).heap
  /\ list' = [list EXCEPT ![copy] = CopiedUpTo(P[l], nodes).copy]

(* ListDuplicate() copies the path, node by node.                          *)
LEMMA DuplicateCopies ==
  ASSUME NEW P, Wired(P), NEW l \in List, NEW copy \in List, Duplicate(l, copy)
  PROVE  \E nodes : DuplicateNodes(P, l, copy, nodes)
<1>1. PICK p : p = P[l] /\ p \in Seq(Node) /\ IsPath(node, list[l], p)
  BY DEF Wired, Fit
<1>2. Walk(node, list[l].head, FROM_HEAD_TO_TAIL) = p
  BY <1>1, NodesOfPath
<1>3. PICK nodes \in CopyNodes(p) :
        /\ node' = CopiedUpTo(p, nodes).heap
        /\ list' = [list EXCEPT ![copy] = CopiedUpTo(p, nodes).copy]
  BY <1>2 DEF Duplicate
<1>4. \A i \in 1..Len(p) : node[p[i]].value \in Value
  BY <1>1 DEF IsPath
<1>5. IsCopy(p, nodes)
  BY <1>1, <1>3, <1>4, CopyNodesCopy
<1>6. QED BY <1>1, <1>3, <1>5 DEF DuplicateNodes

(* The new nodes have the values of the old ones, and no other is changed. *)
CopiedValues(P, l, nodes) ==
  /\ \A i \in 1..Len(P[l]) : node'[nodes[i]].value = node[P[l][i]].value
  /\ \A m \in Node \ Range(nodes) : node'[m] = node[m]

(* The paths after a copy.                                                 *)
LEMMA DuplicateFit ==
  ASSUME NEW P, Wired(P), NEW l \in List, NEW copy \in List, Duplicate(l, copy),
         NEW nodes, DuplicateNodes(P, l, copy, nodes)
  PROVE  /\ node' \in Heaps /\ list' \in [List -> Lists]
         /\ Fit(node', list', [P EXCEPT ![copy] = nodes])
         /\ list'[copy].status = "live"
         /\ CopiedValues(P, l, nodes)
<1>1. PICK p, c : p = P[l] /\ c = CopiedUpTo(p, nodes)
  OBVIOUS
<1>2. CopyIs(p, nodes, c, Len(p)) /\ IsCopy(p, nodes)
  BY <1>1, CopyEnds DEF DuplicateNodes, Wired
<1>3. IsPath(c.heap, c.copy, nodes)
  BY <1>1, <1>2, CopyPath DEF Wired
<1>4. node' = c.heap /\ list' = [list EXCEPT ![copy] = c.copy]
  BY <1>1 DEF DuplicateNodes
<1>5. c.heap \in Heaps /\ c.copy \in Lists /\ c.copy.status = "live"
  BY <1>2 DEF CopyIs, Copies
<1>6. \A m : m \in Range(nodes) <=> \E j \in 1..Len(p) : nodes[j] = m
  BY <1>2, RangePositions DEF IsCopy
<1>7. \A m \in Node \ Range(nodes) : node'[m] = node[m]
  BY <1>2, <1>4, <1>6 DEF CopyIs
<1>8. P[copy] = <<>>
  <2>1. list[copy].status # "live"
    BY DEF Duplicate
  <2>2. QED BY <2>1 DEF Wired, Fit
<1>9. Range(P[copy]) = {}
  BY <1>8 DEF Range
<1>10. PICK M, K : M = node' /\ K = c.copy
  OBVIOUS
<1>11. /\ IsPath(M, K, nodes) /\ K.status = "live"
       /\ \A n \in Range(nodes) \ Range(P[copy]) : node[n] = NoNode
       /\ \A n \in Node \ (Range(P[copy]) \cup Range(nodes)) : M[n] = node[n]
       /\ \A n \in Range(P[copy]) \ Range(nodes) : M[n] = NoNode
  <2>1. IsPath(M, K, nodes) /\ K.status = "live"
    BY <1>1, <1>3, <1>4, <1>5, <1>10
  <2>2. \A n \in Range(nodes) : node[n] = NoNode
    BY <1>2, <1>6 DEF IsCopy
  <2>3. QED BY <1>7, <1>9, <1>10, <2>1, <2>2
<1>12. Fit(M, [list EXCEPT ![copy] = K], [P EXCEPT ![copy] = nodes])
  <2>1. Fit(node, list, P) /\ DOMAIN list = List
    BY DEF Wired
  <2>2. QED BY <1>11, <2>1, PathReplaced
<1>13. \A i \in 1..Len(p) : node'[nodes[i]].value = node[p[i]].value
  BY <1>2, <1>4 DEF CopyIs
<1>14. list' \in [List -> Lists] /\ list'[copy].status = "live"
  BY <1>4, <1>5 DEF Wired
<1>15. CopiedValues(P, l, nodes)
  BY <1>1, <1>7, <1>13 DEF CopiedValues
<1>16. QED BY <1>1, <1>4, <1>5, <1>10, <1>12, <1>14, <1>15

-----------------------------------------------------------------------------
(* The order of the nodes of a path, and those that are ahead of a walk.   *)

(* Node x is not behind node y on path p.                                  *)
Precedes(p, x, y) == \E i, j \in 1..Len(p) : p[i] = x /\ p[j] = y /\ i <= j

(* The nodes of path p from m on, in a direction.                          *)
Ahead(p, m, direction) ==
  {n \in Node : IF direction = FROM_HEAD_TO_TAIL THEN Precedes(p, m, n) ELSE Precedes(p, n, m)}

(* An insertion keeps the order of the other nodes.                        *)
LEMMA InsertedOrder ==
  ASSUME NEW p \in Seq(Node), NEW i \in 1..(Len(p) + 1), NEW n \in Node,
         NEW x, NEW y, x # n, y # n
  PROVE  Precedes(InsertAt(p, i, n), x, y) <=> Precedes(p, x, y)
<1> PICK k \in Nat : k = Len(p)
  OBVIOUS
<1>1. PICK q : q = InsertAt(p, i, n) /\ k = Len(p)
  OBVIOUS
<1>2. /\ Len(q) = k + 1
      /\ \A j \in 1..(k + 1) : q[j] = IF j < i THEN p[j] ELSE IF j = i THEN n ELSE p[j - 1]
  <2>1. /\ Len(InsertAt(p, i, n)) = Len(p) + 1
        /\ \A j \in 1..(Len(p) + 1) :
             InsertAt(p, i, n)[j] = IF j < i THEN p[j] ELSE IF j = i THEN n ELSE p[j - 1]
    BY InsertAtPosition, SMTT(30)
  <2>2. QED BY <1>1, <2>1
<1>3. ASSUME NEW a \in 1..(k + 1), NEW b \in 1..(k + 1), q[a] = x, q[b] = y, a <= b
      PROVE  \E c, d \in 1..k : p[c] = x /\ p[d] = y /\ c <= d
  <2>1. PICK c, d : c = (IF a < i THEN a ELSE a - 1) /\ d = (IF b < i THEN b ELSE b - 1)
    OBVIOUS
  <2>2. a # i /\ b # i
    BY <1>2, <1>3
  <2>3. c \in 1..k /\ d \in 1..k /\ c <= d
    BY <1>1, <1>3, <2>1, <2>2
  <2>4. p[c] = x /\ p[d] = y
    BY <1>2, <1>3, <2>1, <2>2
  <2>5. QED BY <2>3, <2>4
<1>4. ASSUME NEW a \in 1..k, NEW b \in 1..k, p[a] = x, p[b] = y, a <= b
      PROVE  \E c, d \in 1..(k + 1) : q[c] = x /\ q[d] = y /\ c <= d
  <2>1. PICK c, d : c = (IF a < i THEN a ELSE a + 1) /\ d = (IF b < i THEN b ELSE b + 1)
    OBVIOUS
  <2>2. c \in 1..(k + 1) /\ d \in 1..(k + 1) /\ c <= d
    BY <1>1, <1>4, <2>1
  <2>3. q[c] = x
    <3>1. CASE a < i
      BY <1>2, <1>4, <2>1, <2>2, <3>1
    <3>2. CASE a >= i
      <4>1. c = a + 1 /\ c > i /\ c - 1 = a
        BY <2>1, <3>2
      <4>2. QED BY <1>2, <1>4, <2>2, <4>1
    <3>3. QED BY <3>1, <3>2
  <2>4. q[d] = y
    <3>1. CASE b < i
      BY <1>2, <1>4, <2>1, <2>2, <3>1
    <3>2. CASE b >= i
      <4>1. d = b + 1 /\ d > i /\ d - 1 = b
        BY <2>1, <3>2
      <4>2. QED BY <1>2, <1>4, <2>2, <4>1
    <3>3. QED BY <3>1, <3>2
  <2>5. QED BY <2>2, <2>3, <2>4
<1>5. Precedes(q, x, y) <=> Precedes(p, x, y)
  BY <1>1, <1>2, <1>3, <1>4 DEF Precedes
<1>6. QED BY <1>1, <1>5

(* A removal keeps the order of the other nodes.                           *)
LEMMA RemovedOrder ==
  ASSUME NEW p \in Seq(Node), NEW i \in 1..Len(p),
         NEW x, NEW y, x # p[i], y # p[i]
  PROVE  Precedes(RemoveAt(p, i), x, y) <=> Precedes(p, x, y)
<1> PICK k \in Nat : k = Len(p)
  OBVIOUS
<1>1. PICK q : q = RemoveAt(p, i) /\ k = Len(p)
  OBVIOUS
<1>2. /\ Len(q) = k - 1
      /\ \A j \in 1..(k - 1) : q[j] = IF j < i THEN p[j] ELSE p[j + 1]
  <2>1. /\ Len(RemoveAt(p, i)) = Len(p) - 1
        /\ \A j \in 1..(Len(p) - 1) : RemoveAt(p, i)[j] = IF j < i THEN p[j] ELSE p[j + 1]
    BY RemoveAtPosition
  <2>2. QED BY <1>1, <2>1
<1>3. ASSUME NEW a \in 1..(k - 1), NEW b \in 1..(k - 1), q[a] = x, q[b] = y, a <= b
      PROVE  \E c, d \in 1..k : p[c] = x /\ p[d] = y /\ c <= d
  <2>1. PICK c, d : c = (IF a < i THEN a ELSE a + 1) /\ d = (IF b < i THEN b ELSE b + 1)
    OBVIOUS
  <2>2. c \in 1..k /\ d \in 1..k /\ c <= d
    BY <1>1, <1>3, <2>1
  <2>3. p[c] = x /\ p[d] = y
    BY <1>2, <1>3, <2>1
  <2>4. QED BY <2>2, <2>3
<1>4. ASSUME NEW a \in 1..k, NEW b \in 1..k, p[a] = x, p[b] = y, a <= b
      PROVE  \E c, d \in 1..(k - 1) : q[c] = x /\ q[d] = y /\ c <= d
  <2>1. PICK c, d : c = (IF a < i THEN a ELSE a - 1) /\ d = (IF b < i THEN b ELSE b - 1)
    OBVIOUS
  <2>2. a # i /\ b # i
    BY <1>4
  <2>3. c \in 1..(k - 1) /\ d \in 1..(k - 1) /\ c <= d
    BY <1>1, <1>4, <2>1, <2>2
  <2>4. q[c] = x
    <3>1. CASE a < i
      BY <1>2, <1>4, <2>1, <2>3, <3>1
    <3>2. CASE a > i
      <4>1. ~(c < i) /\ c + 1 = a
        BY <2>1, <3>2
      <4>2. QED BY <1>2, <1>4, <2>3, <4>1
    <3>3. QED BY <2>2, <3>1, <3>2
  <2>5. q[d] = y
    <3>1. CASE b < i
      BY <1>2, <1>4, <2>1, <2>3, <3>1
    <3>2. CASE b > i
      <4>1. ~(d < i) /\ d + 1 = b
        BY <2>1, <3>2
      <4>2. QED BY <1>2, <1>4, <2>3, <4>1
    <3>3. QED BY <2>2, <3>1, <3>2
  <2>6. QED BY <2>3, <2>4, <2>5
<1>5. Precedes(q, x, y) <=> Precedes(p, x, y)
  BY <1>1, <1>2, <1>3, <1>4 DEF Precedes
<1>6. QED BY <1>1, <1>5

(* What is ahead is on the path.                                           *)
LEMMA AheadIsOnPath ==
  ASSUME NEW p \in Seq(Node), NEW m, NEW direction
  PROVE  /\ Ahead(p, m, direction) \subseteq Range(p)
         /\ m \in Range(p) => m \in Ahead(p, m, direction)
         /\ m \notin Range(p) => Ahead(p, m, direction) = {}
<1>1. \A x, y : Precedes(p, x, y) => x \in Range(p) /\ y \in Range(p)
  BY RangePositions DEF Precedes
<1>2. \A x : x \in Range(p) => Precedes(p, x, x) /\ x \in Node
  BY RangePositions DEF Precedes
<1>3. QED BY <1>1, <1>2 DEF Ahead

(* An insertion puts at most the new node ahead.                           *)
LEMMA InsertedAhead ==
  ASSUME NEW p \in Seq(Node), NEW i \in 1..(Len(p) + 1), NEW n \in Node,
         n \notin Range(p), NEW m, m # n, NEW direction
  PROVE  /\ Ahead(p, m, direction) \subseteq Ahead(InsertAt(p, i, n), m, direction)
         /\ Ahead(InsertAt(p, i, n), m, direction) \subseteq Ahead(p, m, direction) \cup {n}
<1>1. \A x, y : x # n /\ y # n => (Precedes(InsertAt(p, i, n), x, y) <=> Precedes(p, x, y))
  BY InsertedOrder
<1>2. PICK q : q = InsertAt(p, i, n)
  OBVIOUS
<1>3. \A x, y : x # n /\ y # n => (Precedes(q, x, y) <=> Precedes(p, x, y))
  BY <1>1, <1>2
<1>4. n \notin Ahead(p, m, direction)
  BY AheadIsOnPath
<1>5. \A x \in Node : x # n => (x \in Ahead(q, m, direction) <=> x \in Ahead(p, m, direction))
  BY <1>3 DEF Ahead
<1>6. Ahead(q, m, direction) \subseteq Node /\ Ahead(p, m, direction) \subseteq Node
  BY DEF Ahead
<1>7. QED BY <1>2, <1>4, <1>5, <1>6

(* The removal of a node that is not ahead changes nothing ahead.          *)
LEMMA RemovedAhead ==
  ASSUME NEW p \in Seq(Node), NEW i \in 1..Len(p), NEW m, NEW direction,
         p[i] \notin Ahead(p, m, direction),
         p[i] \notin Range(RemoveAt(p, i))
  PROVE  Ahead(RemoveAt(p, i), m, direction) = Ahead(p, m, direction)
<1>1. \A x, y : x # p[i] /\ y # p[i] => (Precedes(RemoveAt(p, i), x, y) <=> Precedes(p, x, y))
  BY RemovedOrder
<1>2. PICK q, n : q = RemoveAt(p, i) /\ n = p[i]
  OBVIOUS
<1>3. q \in Seq(Node) /\ n \in Range(p)
  BY <1>2, RemoveAtPosition, RangePositions
<1>4. \A x, y : x # n /\ y # n => (Precedes(q, x, y) <=> Precedes(p, x, y))
  BY <1>1, <1>2
<1>5. m # n
  BY <1>2, <1>3, AheadIsOnPath
<1>6. n \notin Ahead(q, m, direction)
  BY <1>2, <1>3, AheadIsOnPath
<1>7. \A x \in Node : x # n => (x \in Ahead(q, m, direction) <=> x \in Ahead(p, m, direction))
  BY <1>4, <1>5 DEF Ahead
<1>8. Ahead(q, m, direction) \subseteq Node /\ Ahead(p, m, direction) \subseteq Node
  BY DEF Ahead
<1>9. n \notin Ahead(p, m, direction)
  BY <1>2
<1>10. Ahead(q, m, direction) = Ahead(p, m, direction)
  <2>1. PICK A, B : A = Ahead(q, m, direction) /\ B = Ahead(p, m, direction)
    OBVIOUS
  <2>2. \A x : x \in A <=> x \in B
    BY <1>6, <1>7, <1>8, <1>9, <2>1
  <2>3. A = B
    BY <2>2, Zenon
  <2>4. QED BY <2>1, <2>3
<1>11. QED BY <1>2, <1>10

(* Node m is at place i of path p, which has k nodes.                      *)
IsAt(p, k, i, m) ==
  p \in Seq(Node) /\ IsInjective(p) /\ k = Len(p) /\ i \in 1..k /\ m = p[i]

(* What is ahead of it.                                                    *)
LEMMA AheadForward ==
  ASSUME NEW p, NEW k, NEW i, NEW m, IsAt(p, k, i, m)
  PROVE  \A n : n \in Ahead(p, m, FROM_HEAD_TO_TAIL) <=> \E j \in 1..k : i <= j /\ p[j] = n
<1>1. \A a, b \in 1..Len(p) : p[a] = p[b] => a = b
  BY InjectivePositions DEF IsAt
<1>2. \A n : Precedes(p, m, n) <=> \E j \in 1..k : i <= j /\ p[j] = n
  BY <1>1 DEF Precedes, IsAt
<1>3. \A j \in 1..k : p[j] \in Node
  BY DEF IsAt
<1>4. QED BY <1>2, <1>3 DEF Ahead

(* What is ahead of it in the other direction.                             *)
LEMMA AheadBackward ==
  ASSUME NEW p, NEW k, NEW i, NEW m, IsAt(p, k, i, m), NEW direction, direction # FROM_HEAD_TO_TAIL
  PROVE  \A n : n \in Ahead(p, m, direction) <=> \E j \in 1..k : j <= i /\ p[j] = n
<1>1. \A a, b \in 1..Len(p) : p[a] = p[b] => a = b
  BY InjectivePositions DEF IsAt
<1>2. \A n : Precedes(p, n, m) <=> \E j \in 1..k : j <= i /\ p[j] = n
  BY <1>1 DEF Precedes, IsAt
<1>3. \A j \in 1..k : p[j] \in Node
  BY DEF IsAt
<1>4. QED BY <1>2, <1>3 DEF Ahead

(* One step of a walk leaves one node behind.                              *)
LEMMA AheadStep ==
  ASSUME NEW p \in Seq(Node), IsInjective(p), NEW i \in 1..Len(p), NEW direction, NEW next,
         next = IF direction = FROM_HEAD_TO_TAIL THEN Behind(p, i) ELSE Before(p, i)
  PROVE  /\ next \in Range(p) \/ next = NULL
         /\ Ahead(p, next, direction) = Ahead(p, p[i], direction) \ {p[i]}
<1>0. PICK k \in Nat : k = Len(p)
  OBVIOUS
<1>1. \A a, b \in 1..k : p[a] = p[b] => a = b
  BY <1>0, InjectivePositions
<1>2. \A n : n \in Range(p) <=> \E j \in 1..k : p[j] = n
  BY <1>0, RangePositions
<1> \A j \in 1..k : IsAt(p, k, j, p[j])
  BY <1>0 DEF IsAt
<1>3. CASE direction = FROM_HEAD_TO_TAIL
  <2>1. \A n : n \in Ahead(p, p[i], direction) <=> \E j \in 1..k : i <= j /\ p[j] = n
    <3>1. IsAt(p, k, i, p[i])
      BY <1>0
    <3>2. QED BY <1>3, <3>1, AheadForward
  <2>2. CASE i = k
    <3>1. next = NULL /\ next \notin Range(p)
      <4>1. next = NULL
        BY <1>0, <1>3, <2>2 DEF Behind
      <4>2. \A j \in 1..k : p[j] \in Node
        BY <1>0
      <4>3. QED BY <1>2, <4>1, <4>2, NullAssumption
    <3>2. \A n : n \notin Ahead(p, next, direction)
      BY <3>1, AheadIsOnPath
    <3>3. \A n : n \in Ahead(p, p[i], direction) => n = p[i]
      BY <2>1, <2>2
    <3>4. PICK A, B : A = Ahead(p, next, direction) /\ B = Ahead(p, p[i], direction)
      OBVIOUS
    <3>5. A = B \ {p[i]}
      BY <3>2, <3>3, <3>4
    <3>6. QED BY <3>1, <3>4, <3>5
  <2>3. CASE i # k
    <3>1. i + 1 \in 1..k
      BY <1>0, <2>3
    <3>2. next = p[i + 1]
      BY <1>0, <1>3, <2>3 DEF Behind
    <3>3. \A n : n \in Ahead(p, next, direction) <=> \E j \in 1..k : i + 1 <= j /\ p[j] = n
      <4>1. IsAt(p, k, i + 1, next)
        BY <3>1, <3>2
      <4>2. QED BY <1>3, <4>1, AheadForward
    <3>4. \A j \in 1..k : i + 1 <= j <=> (i <= j /\ j # i)
      BY <1>0
    <3>5. \A n : n \in Ahead(p, next, direction) <=> (n \in Ahead(p, p[i], direction) /\ n # p[i])
      BY <1>0, <1>1, <2>1, <3>3, <3>4
    <3>6. PICK A, B : A = Ahead(p, next, direction) /\ B = Ahead(p, p[i], direction)
      OBVIOUS
    <3>7. A = B \ {p[i]}
      BY <3>5, <3>6
    <3>8. QED BY <1>2, <3>1, <3>2, <3>6, <3>7
  <2>4. QED BY <2>2, <2>3
<1>4. CASE direction # FROM_HEAD_TO_TAIL
  <2>1. \A n : n \in Ahead(p, p[i], direction) <=> \E j \in 1..k : j <= i /\ p[j] = n
    <3>1. IsAt(p, k, i, p[i])
      BY <1>0
    <3>2. QED BY <1>4, <3>1, AheadBackward
  <2>2. CASE i = 1
    <3>1. next = NULL /\ next \notin Range(p)
      <4>1. next = NULL
        BY <1>4, <2>2 DEF Before
      <4>2. \A j \in 1..k : p[j] \in Node
        BY <1>0
      <4>3. QED BY <1>2, <4>1, <4>2, NullAssumption
    <3>2. \A n : n \notin Ahead(p, next, direction)
      BY <3>1, AheadIsOnPath
    <3>3. \A n : n \in Ahead(p, p[i], direction) => n = p[i]
      BY <2>1, <2>2
    <3>4. PICK A, B : A = Ahead(p, next, direction) /\ B = Ahead(p, p[i], direction)
      OBVIOUS
    <3>5. A = B \ {p[i]}
      BY <3>2, <3>3, <3>4
    <3>6. QED BY <3>1, <3>4, <3>5
  <2>3. CASE i # 1
    <3>1. i - 1 \in 1..k
      BY <1>0, <2>3
    <3>2. next = p[i - 1]
      BY <1>4, <2>3 DEF Before
    <3>3. \A n : n \in Ahead(p, next, direction) <=> \E j \in 1..k : j <= i - 1 /\ p[j] = n
      <4>1. IsAt(p, k, i - 1, next)
        BY <3>1, <3>2
      <4>2. QED BY <1>4, <4>1, AheadBackward
    <3>4. \A j \in 1..k : j <= i - 1 <=> (j <= i /\ j # i)
      BY <1>0
    <3>5. \A n : n \in Ahead(p, next, direction) <=> (n \in Ahead(p, p[i], direction) /\ n # p[i])
      BY <1>0, <1>1, <2>1, <3>3, <3>4
    <3>6. PICK A, B : A = Ahead(p, next, direction) /\ B = Ahead(p, p[i], direction)
      OBVIOUS
    <3>7. A = B \ {p[i]}
      BY <3>5, <3>6
    <3>8. QED BY <1>2, <3>1, <3>2, <3>6, <3>7
  <2>4. QED BY <2>2, <2>3
<1>5. QED BY <1>3, <1>4

(* At first all nodes are ahead.                                           *)
LEMMA AheadStart ==
  ASSUME NEW N, NEW L, NEW p, IsPath(N, L, p), NEW direction, NEW next,
         next = IF direction = FROM_HEAD_TO_TAIL THEN L.head ELSE L.tail
  PROVE  /\ next \in Range(p) \/ next = NULL
         /\ Ahead(p, next, direction) = Range(p)
<1>1. PICK k \in Nat : k = Len(p)
  BY DEF IsPath
<1>2. p \in Seq(Node) /\ IsInjective(p)
  BY DEF IsPath
<1>3. \A n : n \in Range(p) <=> \E j \in 1..k : p[j] = n
  BY <1>1, <1>2, RangePositions
<1>4. CASE k = 0
  <2>1. p = <<>>
    BY <1>1, <1>2, <1>4, EmptySeq
  <2>2. next = NULL
    BY <2>1 DEF IsPath
  <2>3. \A n : n \notin Range(p)
    BY <1>3, <1>4
  <2>4. \A n : n \notin Ahead(p, next, direction)
    BY <1>2, <2>3, AheadIsOnPath
  <2>5. PICK A, B : A = Ahead(p, next, direction) /\ B = Range(p)
    OBVIOUS
  <2>6. A = B
    BY <2>3, <2>4, <2>5
  <2>7. QED BY <2>2, <2>5, <2>6
<1>5. CASE k # 0
  <2>1. p # <<>> /\ 1 \in 1..k /\ k \in 1..k
    BY <1>1, <1>2, <1>5
  <2>2. PICK i \in 1..k : i = IF direction = FROM_HEAD_TO_TAIL THEN 1 ELSE k
    BY <2>1
  <2>3. next = p[i] /\ IsAt(p, k, i, p[i])
    BY <1>1, <2>1, <2>2 DEF IsPath, IsAt
  <2>4. \A n : n \in Ahead(p, next, direction) <=> n \in Range(p)
    <3>1. CASE direction = FROM_HEAD_TO_TAIL
      <4>1. \A n : n \in Ahead(p, p[i], direction) <=> \E j \in 1..k : i <= j /\ p[j] = n
        BY <2>3, <3>1, AheadForward
      <4>2. i = 1
        BY <2>2, <3>1
      <4>3. QED BY <1>3, <2>3, <4>1, <4>2
    <3>2. CASE direction # FROM_HEAD_TO_TAIL
      <4>1. \A n : n \in Ahead(p, p[i], direction) <=> \E j \in 1..k : j <= i /\ p[j] = n
        BY <2>3, <3>2, AheadBackward
      <4>2. i = k
        BY <2>2, <3>2
      <4>3. QED BY <1>3, <2>3, <4>1, <4>2
    <3>3. QED BY <3>1, <3>2
  <2>5. PICK A, B : A = Ahead(p, next, direction) /\ B = Range(p)
    OBVIOUS
  <2>6. A = B
    BY <2>4, <2>5
  <2>7. QED BY <1>3, <2>3, <2>5, <2>6
<1>6. QED BY <1>4, <1>5

(* The nodes that a walk from next on meets are those ahead.               *)
LEMMA AheadWalk ==
  ASSUME NEW N \in Heaps, NEW L, NEW p, IsPath(N, L, p), NEW direction, NEW next,
         next \in Range(p) \/ next = NULL
  PROVE  Range(Walk(N, next, direction)) = Ahead(p, next, direction)
<1>1. PICK k \in Nat : k = Len(p)
  BY DEF IsPath
<1>2. p \in Seq(Node) /\ IsInjective(p) /\ Heap(N, direction)
  BY HeapOfHeaps DEF IsPath
<1>3. \A n : n \in Range(p) <=> \E j \in 1..k : p[j] = n
  BY <1>1, <1>2, RangePositions
<1>4. \A a, b \in 1..k : p[a] = p[b] => a = b
  BY <1>1, <1>2, InjectivePositions
<1>5. CASE next = NULL
  <2>1. Follows(N, <<>>, next, direction)
    BY <1>5 DEF Follows
  <2>2. <<>> \in Seq(Node) /\ IsInjective(<<>>)
    BY DEF IsInjective
  <2>3. Walk(N, next, direction) = <<>>
    BY <1>2, <2>1, <2>2, WalkFollows
  <2>4. next \notin Range(p)
    BY <1>2, <1>5, RangePositions, NullAssumption
  <2>5. Ahead(p, next, direction) = {}
    BY <1>2, <2>4, AheadIsOnPath
  <2>6. QED BY <2>3, <2>5 DEF Range
<1>6. CASE next # NULL
  <2>1. PICK i \in 1..k : next = p[i] /\ IsAt(p, k, i, p[i])
    BY <1>1, <1>2, <1>3, <1>6 DEF IsAt
  <2>2. CASE direction = FROM_HEAD_TO_TAIL
    <3>1. PICK s \in Nat : s = k - i + 1 /\ s # 0
      BY <2>1
    <3>2. PICK q : q = [j \in 1..s |-> p[j + i - 1]]
      OBVIOUS
    <3>3. \A j \in 1..s : j + i - 1 \in 1..k
      BY <2>1, <3>1
    <3>4. \A j \in 1..s : p[j + i - 1] \in Node
      BY <1>1, <1>2, <3>3
    <3>5. q \in Seq(Node) /\ Len(q) = s /\ \A j \in 1..s : q[j] = p[j + i - 1]
      BY <3>2, <3>4
    <3>6. IsInjective(q)
      <4>1. \A a, b \in 1..s : q[a] = q[b] => a = b
        <5>1. \A a, b \in 1..s : q[a] = q[b] => a + i - 1 = b + i - 1
          BY <1>4, <3>3, <3>5, SMTT(30)
        <5>2. QED BY <5>1
      <4>2. QED BY <3>5, <4>1, InjectivePositions
    <3>7. Follows(N, q, next, direction)
      <4>1. q # <<>> /\ next = q[1]
        <5>1. 1 \in 1..s /\ 1 + i - 1 = i
          BY <3>1
        <5>2. QED BY <2>1, <3>1, <3>5, <5>1
      <4>2. ASSUME NEW j \in 1..s PROVE N[q[j]].next = IF j = s THEN NULL ELSE q[j + 1]
        <5>1. PICK a \in 1..k : a = j + i - 1
          BY <3>3
        <5>2. N[p[a]].next = IF a = k THEN NULL ELSE p[a + 1]
          BY <1>1 DEF IsPath, Behind
        <5>3. a = k <=> j = s
          BY <3>1, <5>1
        <5>4. j # s => q[j + 1] = p[a + 1]
          <6>1. j # s => j + 1 \in 1..s /\ (j + 1) + i - 1 = a + 1
            BY <5>1
          <6>2. QED BY <3>5, <6>1
        <5>5. q[j] = p[a]
          BY <3>5, <5>1
        <5>6. QED BY <5>2, <5>3, <5>4, <5>5
      <4>3. QED BY <2>2, <3>5, <4>1, <4>2 DEF Follows, Link
    <3>8. Walk(N, next, direction) = q
      BY <1>2, <3>5, <3>6, <3>7, WalkFollows
    <3>9. \A n : n \in Range(q) <=> \E j \in 1..s : q[j] = n
      BY <3>5, RangePositions
    <3>10. \A n : n \in Ahead(p, p[i], direction) <=> \E j \in 1..k : i <= j /\ p[j] = n
      BY <2>1, <2>2, AheadForward
    <3>11. ASSUME NEW n PROVE (\E j \in 1..s : q[j] = n) <=> (\E j \in 1..k : i <= j /\ p[j] = n)
      <4>1. ASSUME NEW j \in 1..s, q[j] = n PROVE \E b \in 1..k : i <= b /\ p[b] = n
        <5>1. j + i - 1 \in 1..k /\ i <= j + i - 1
          BY <3>3
        <5>2. QED BY <3>5, <4>1, <5>1
      <4>2. ASSUME NEW b \in 1..k, i <= b, p[b] = n PROVE \E j \in 1..s : q[j] = n
        <5>1. PICK j \in 1..s : j = b - i + 1
          BY <3>1, <4>2
        <5>2. j + i - 1 = b
          BY <5>1
        <5>3. QED BY <3>5, <4>2, <5>2
      <4>3. QED BY <4>1, <4>2
    <3>12. PICK A, B : A = Range(q) /\ B = Ahead(p, p[i], direction)
      OBVIOUS
    <3>13. A = B
      BY <3>9, <3>10, <3>11, <3>12
    <3>14. QED BY <2>1, <3>8, <3>12, <3>13
  <2>3. CASE direction # FROM_HEAD_TO_TAIL
    <3>1. PICK q : q = [j \in 1..i |-> p[i - j + 1]]
      OBVIOUS
    <3>2. \A j \in 1..i : i - j + 1 \in 1..k
      BY <2>1
    <3>3. \A j \in 1..i : p[i - j + 1] \in Node
      BY <1>1, <1>2, <3>2
    <3>4. q \in Seq(Node) /\ Len(q) = i /\ \A j \in 1..i : q[j] = p[i - j + 1]
      BY <3>1, <3>3
    <3>5. IsInjective(q)
      <4>1. \A a, b \in 1..i : q[a] = q[b] => a = b
        <5>1. \A a, b \in 1..i : q[a] = q[b] => i - a + 1 = i - b + 1
          BY <1>4, <3>2, <3>4
        <5>2. QED BY <5>1
      <4>2. QED BY <3>4, <4>1, InjectivePositions
    <3>6. Follows(N, q, next, direction)
      <4>1. q # <<>> /\ next = q[1]
        <5>1. 1 \in 1..i /\ i - 1 + 1 = i
          OBVIOUS
        <5>2. QED BY <2>1, <3>4, <5>1
      <4>2. ASSUME NEW j \in 1..i PROVE N[q[j]].previous = IF j = i THEN NULL ELSE q[j + 1]
        <5>1. PICK a \in 1..k : a = i - j + 1
          BY <3>2
        <5>2. N[p[a]].previous = IF a = 1 THEN NULL ELSE p[a - 1]
          BY <1>1 DEF IsPath, Before
        <5>3. a = 1 <=> j = i
          BY <5>1
        <5>4. j # i => q[j + 1] = p[a - 1]
          <6>1. j # i => j + 1 \in 1..i /\ i - (j + 1) + 1 = a - 1
            BY <5>1
          <6>2. QED BY <3>4, <6>1
        <5>5. q[j] = p[a]
          BY <3>4, <5>1
        <5>6. QED BY <5>2, <5>3, <5>4, <5>5
      <4>3. QED BY <2>3, <3>4, <4>1, <4>2 DEF Follows, Link
    <3>7. Walk(N, next, direction) = q
      BY <1>2, <3>4, <3>5, <3>6, WalkFollows
    <3>8. \A n : n \in Range(q) <=> \E j \in 1..i : q[j] = n
      BY <3>4, RangePositions
    <3>9. \A n : n \in Ahead(p, p[i], direction) <=> \E j \in 1..k : j <= i /\ p[j] = n
      BY <2>1, <2>3, AheadBackward
    <3>10. ASSUME NEW n PROVE (\E j \in 1..i : q[j] = n) <=> (\E j \in 1..k : j <= i /\ p[j] = n)
      <4>1. ASSUME NEW j \in 1..i, q[j] = n PROVE \E b \in 1..k : b <= i /\ p[b] = n
        <5>1. i - j + 1 \in 1..k /\ i - j + 1 <= i
          BY <3>2
        <5>2. QED BY <3>4, <4>1, <5>1
      <4>2. ASSUME NEW b \in 1..k, b <= i, p[b] = n PROVE \E j \in 1..i : q[j] = n
        <5>1. PICK j \in 1..i : j = i - b + 1
          BY <4>2
        <5>2. i - j + 1 = b
          BY <5>1
        <5>3. QED BY <3>4, <4>2, <5>2
      <4>3. QED BY <4>1, <4>2
    <3>11. PICK A, B : A = Range(q) /\ B = Ahead(p, p[i], direction)
      OBVIOUS
    <3>12. A = B
      BY <3>8, <3>9, <3>10, <3>11
    <3>13. QED BY <2>1, <3>7, <3>11, <3>12
  <2>4. QED BY <2>2, <2>3
<1>7. QED BY <1>5, <1>6

-----------------------------------------------------------------------------
(* The iterator.                                                           *)

(* The type of the iterator.                                               *)
Iterators == [list : List \cup {NULL}, next : Node \cup {NULL},
              direction : {FROM_HEAD_TO_TAIL, FROM_TAIL_TO_HEAD},
              last : Node \cup {NULL}, seen : SUBSET Node, due : SUBSET Node]

(* Iterator I is in step with path p.                                      *)
InStep(I, p) ==
  /\ I.next \in Range(p) \/ I.next = NULL
  /\ I.due \subseteq Ahead(p, I.next, I.direction)
  /\ I.seen \cap Ahead(p, I.next, I.direction) = {}
  /\ I.seen \subseteq Range(p)
  /\ I.last \in I.seen \/ I.last = NULL

(* The iterator, if there is one, is in step with its list.                *)
IteratorFits(I, S, P) ==
  I.list # NULL => /\ I.list \in List /\ S[I.list].status = "live"
                   /\ InStep(I, P[I.list])

(* ListGetIterator() starts in step.                                       *)
LEMMA StartInStep ==
  ASSUME NEW N, NEW L, NEW p, IsPath(N, L, p), NEW I \in Iterators,
         I.next = IF I.direction = FROM_HEAD_TO_TAIL THEN L.head ELSE L.tail,
         I.due = Range(p), I.seen = {}, I.last = NULL
  PROVE  InStep(I, p)
<1>1. PICK next : next = I.next
  OBVIOUS
<1>2. /\ next \in Range(p) \/ next = NULL
      /\ Ahead(p, next, I.direction) = Range(p)
  BY <1>1, AheadStart
<1>3. QED BY <1>1, <1>2 DEF InStep

(* ListNextIterateNode() stays in step.                                    *)
LEMMA NextInStep ==
  ASSUME NEW p \in Seq(Node), IsInjective(p), NEW I \in Iterators, InStep(I, p),
         NEW i \in 1..Len(p), I.next = p[i], NEW next,
         next = IF I.direction = FROM_HEAD_TO_TAIL THEN Behind(p, i) ELSE Before(p, i)
  PROVE  InStep([I EXCEPT !.next = next, !.last = I.next,
                          !.seen = I.seen \cup {I.next}, !.due = I.due \ {I.next}], p)
<1>1. PICK J : J = [I EXCEPT !.next = next, !.last = I.next,
                          !.seen = I.seen \cup {I.next}, !.due = I.due \ {I.next}]
  OBVIOUS
<1>2. /\ J.next = next /\ J.last = I.next /\ J.direction = I.direction
      /\ J.seen = I.seen \cup {I.next} /\ J.due = I.due \ {I.next}
  BY <1>1 DEF Iterators
<1>3. PICK d, m, A : d = I.direction /\ m = p[i] /\ A = Ahead(p, m, d)
  OBVIOUS
<1>4. /\ next \in Range(p) \/ next = NULL
      /\ Ahead(p, next, d) = A \ {m}
  <2>1. next = IF d = FROM_HEAD_TO_TAIL THEN Behind(p, i) ELSE Before(p, i)
    BY <1>3
  <2>2. /\ next \in Range(p) \/ next = NULL
        /\ Ahead(p, next, d) = Ahead(p, p[i], d) \ {p[i]}
    BY <2>1, AheadStep
  <2>3. QED BY <1>3, <2>2
<1>5. m \in Range(p)
  BY <1>3, PathPlaces, RangePositions
<1>6. I.due \subseteq A /\ I.seen \cap A = {} /\ I.seen \subseteq Range(p) /\ I.next = m
  BY <1>3 DEF InStep
<1>7. InStep(J, p)
  BY <1>2, <1>3, <1>4, <1>5, <1>6 DEF InStep
<1>8. QED BY <1>1, <1>7

(* An insertion anywhere keeps the iterator in step.                       *)
LEMMA InsertedInStep ==
  ASSUME NEW p \in Seq(Node), NEW i \in 1..(Len(p) + 1), NEW n \in Node, n \notin Range(p),
         NEW I, InStep(I, p)
  PROVE  InStep(I, InsertAt(p, i, n))
<1>1. PICK q : q = InsertAt(p, i, n)
  OBVIOUS
<1>2. PICK d, m : d = I.direction /\ m = I.next
  OBVIOUS
<1>3. m # n
  BY <1>2, NullAssumption DEF InStep
<1>4. Ahead(p, m, d) \subseteq Ahead(q, m, d) /\ Ahead(q, m, d) \subseteq Ahead(p, m, d) \cup {n}
  BY <1>1, <1>3, InsertedAhead
<1>5. Range(p) \subseteq Range(q)
  <2>1. q \in Seq(Node) /\ Len(q) = Len(p) + 1
        /\ \A j \in 1..(Len(p) + 1) : q[j] = IF j < i THEN p[j] ELSE IF j = i THEN n ELSE p[j - 1]
    BY <1>1, InsertAtPosition, SMTT(30)
  <2>2. ASSUME NEW a \in 1..Len(p) PROVE \E b \in 1..Len(q) : q[b] = p[a]
    <3>1. CASE a < i
      BY <2>1, <3>1
    <3>2. CASE a >= i
      <4>1. a + 1 \in 1..(Len(p) + 1) /\ ~(a + 1 < i) /\ a + 1 # i /\ (a + 1) - 1 = a
        BY <3>2
      <4>2. QED BY <2>1, <4>1
    <3>3. QED BY <3>1, <3>2
  <2>3. \A x : x \in Range(p) <=> \E a \in 1..Len(p) : p[a] = x
    BY RangePositions
  <2>4. \A x : x \in Range(q) <=> \E a \in 1..Len(q) : q[a] = x
    BY <2>1, RangePositions
  <2>5. QED BY <2>2, <2>3, <2>4
<1>6. InStep(I, q)
  BY <1>2, <1>4, <1>5 DEF InStep
<1>7. QED BY <1>1, <1>6

(* The node removed is not ahead; the iterator forgets it.                 *)
LEMMA RemovedInStep ==
  ASSUME NEW p \in Seq(Node), NEW i \in 1..Len(p),
         NEW q, q = RemoveAt(p, i), Range(q) = Range(p) \ {p[i]},
         NEW I, InStep(I, p), p[i] = I.last,
         NEW J, J.next = I.next, J.direction = I.direction, J.due = I.due,
         J.last = NULL, J.seen = I.seen \ {p[i]}
  PROVE  InStep(J, q)
<1>1. PICK d, m, n : d = I.direction /\ m = I.next /\ n = p[i]
  OBVIOUS
<1>2. n \in Node /\ n \in I.seen
  <2>1. n \in Node /\ n # NULL
    BY <1>1, NullAssumption
  <2>2. QED BY <1>1, <2>1 DEF InStep
<1>3. n \notin Ahead(p, m, d)
  BY <1>1, <1>2 DEF InStep
<1>4. Ahead(q, m, d) = Ahead(p, m, d)
  <2>1. p[i] \notin Ahead(p, m, d) /\ p[i] \notin Range(RemoveAt(p, i))
    BY <1>1, <1>3
  <2>2. Ahead(RemoveAt(p, i), m, d) = Ahead(p, m, d)
    BY <2>1, RemovedAhead
  <2>3. QED BY <2>2
<1>5. m \in Range(q) \/ m = NULL
  <2>1. m \in Range(p) => m \in Ahead(p, m, d)
    BY AheadIsOnPath
  <2>2. m # n
    <3>1. CASE m \in Range(p)
      BY <1>3, <2>1, <3>1
    <3>2. CASE m \notin Range(p)
      BY <1>1, <1>2, <3>2, NullAssumption DEF InStep
    <3>3. QED BY <3>1, <3>2
  <2>3. QED BY <1>1, <2>2 DEF InStep
<1>6. QED BY <1>1, <1>4, <1>5 DEF InStep

-----------------------------------------------------------------------------
(* How many nodes hold a value.                                            *)

(* The nodes that hold a value.                                            *)
Holders(N, w) == {n \in Node : N[n].value = w}

(* They can be counted.                                                    *)
LEMMA HoldersAreFinite ==
  ASSUME NEW N, NEW w
  PROVE  IsFiniteSet(Holders(N, w)) /\ Cardinality(Holders(N, w)) \in Nat
<1>1. Holders(N, w) \in SUBSET Node
  BY DEF Holders
<1>2. IsFiniteSet(Holders(N, w))
  BY <1>1, NodeAssumption, FS_Subset
<1>3. QED BY <1>2, FS_CardinalityType

(* A single value occurs once.                                             *)
LEMMA OccurrencesOfOne ==
  ASSUME NEW v, NEW w
  PROVE  Occurrences(<<v>>, w) = IF v = w THEN 1 ELSE 0
<1>1. \A i : i \in DOMAIN <<v>> <=> i = 1
  OBVIOUS
<1>2. <<v>>[1] = v
  OBVIOUS
<1>3. PICK D : D = {i \in DOMAIN <<v>> : <<v>>[i] = w}
  OBVIOUS
<1>4. CASE v = w
  <2>1. D = {1}
    BY <1>1, <1>2, <1>3, <1>4
  <2>2. Cardinality({1}) = 1
    BY FS_Singleton
  <2>3. QED BY <1>3, <1>4, <2>1, <2>2 DEF Occurrences
<1>5. CASE v # w
  <2>1. D = {}
    BY <1>1, <1>2, <1>3, <1>5
  <2>2. Cardinality({}) = 0
    BY FS_EmptySet
  <2>3. QED BY <1>3, <1>5, <2>1, <2>2 DEF Occurrences
<1>6. QED BY <1>4, <1>5

(* Occurrences are counted by natural numbers.                             *)
LEMMA OccurrencesAreNatural ==
  ASSUME NEW k \in Nat, NEW values, DOMAIN values = 1..k, NEW w
  PROVE  Occurrences(values, w) \in Nat
<1>1. PICK D : D = {i \in DOMAIN values : values[i] = w}
  OBVIOUS
<1>2. IsFiniteSet(1..k) /\ D \in SUBSET (1..k)
  BY <1>1, FS_Interval
<1>3. Cardinality(D) \in Nat
  BY <1>2, FS_Subset, FS_CardinalityType
<1>4. QED BY <1>1, <1>3 DEF Occurrences

(* Values are met as often as there are nodes that hold them.              *)
LEMMA OccurrencesOnPath ==
  ASSUME NEW p \in Seq(Node), IsInjective(p), NEW N, NEW values, DOMAIN values = 1..Len(p),
         \A i \in 1..Len(p) : N[p[i]].value = values[i], NEW w
  PROVE  Occurrences(values, w) = Cardinality(Range(p) \cap Holders(N, w))
<1>1. PICK k \in Nat : k = Len(p)
  OBVIOUS
<1>2. PICK D, H : /\ D = {i \in DOMAIN values : values[i] = w}
                  /\ H = Range(p) \cap Holders(N, w)
  OBVIOUS
<1>3. PICK f : f = [i \in D |-> p[i]]
  OBVIOUS
<1>4. \A i : i \in D <=> i \in 1..k /\ values[i] = w
  BY <1>1, <1>2
<1>5. \A n : n \in H <=> \E i \in 1..k : p[i] = n /\ values[i] = w
  <2>1. \A n : n \in Range(p) <=> \E i \in 1..k : p[i] = n
    BY <1>1, RangePositions
  <2>2. \A i \in 1..k : p[i] \in Node /\ N[p[i]].value = values[i]
    BY <1>1
  <2>3. QED BY <1>2, <2>1, <2>2 DEF Holders
<1>6. DOMAIN f = D /\ \A i \in D : f[i] = p[i]
  BY <1>3
<1>7. f \in [D -> H]
  BY <1>3, <1>4, <1>5
<1>8. \A a, b \in D : f[a] = f[b] => a = b
  <2>1. \A a, b \in 1..k : p[a] = p[b] => a = b
    BY <1>1, InjectivePositions
  <2>2. QED BY <1>4, <1>6, <2>1
<1>9. \A n \in H : \E i \in D : f[i] = n
  BY <1>4, <1>5, <1>6
<1>10. ExistsBijection(D, H)
  <2>1. f \in Injection(D, H)
    BY <1>6, <1>7, <1>8 DEF Injection, IsInjective
  <2>2. f \in Surjection(D, H)
    BY <1>7, <1>9 DEF Surjection
  <2>3. QED BY <2>1, <2>2 DEF ExistsBijection, Bijection
<1>11. IsFiniteSet(D)
  <2>1. IsFiniteSet(1..k) /\ D \in SUBSET (1..k)
    BY <1>4, FS_Interval
  <2>2. QED BY <2>1, FS_Subset
<1>12. Cardinality(H) = Cardinality(D)
  BY <1>10, <1>11, FS_Bijection
<1>13. QED BY <1>2, <1>12 DEF Occurrences

(* The values that ListFree() frees are those of the nodes of the path.    *)
LEMMA ValuesOnPath ==
  ASSUME NEW N \in Heaps, NEW L, NEW p, IsPath(N, L, p)
  PROVE  ValuesIn(N, L) = [i \in 1..Len(p) |-> N[p[i]].value]
<1>1. PICK k \in Nat : k = Len(p) /\ L.length = k
  BY DEF IsPath
<1>2. Min({k, k}) = k
  <2>1. {k, k} \in SUBSET Nat /\ {k, k} # {}
    OBVIOUS
  <2>2. Min({k, k}) \in {k, k}
    BY <2>1, MinIsLeast
  <2>3. QED BY <2>2
<1>3. Walk(N, L.head, FROM_HEAD_TO_TAIL) = p
  BY WalkIsPath
<1>4. QED BY <1>1, <1>2, <1>3 DEF ValuesIn

LEMMA ValuesOfPath ==
  ASSUME NEW P, Wired(P), NEW l \in List
  PROVE  LET values == ValuesIn(node, list[l])
         IN  /\ values = [i \in 1..Len(P[l]) |-> node[P[l][i]].value]
             /\ \A w : Occurrences(values, w) = Cardinality(Range(P[l]) \cap Holders(node, w))
<1>1. PICK p, values : p = P[l] /\ values = ValuesIn(node, list[l])
  OBVIOUS
<1>2. p \in Seq(Node) /\ IsInjective(p)
  BY <1>1 DEF Wired, Fit, IsPath
<1>3. values = [i \in 1..Len(p) |-> node[p[i]].value]
  BY <1>1, ValuesOnPath DEF Wired, Fit
<1>4. ASSUME NEW w PROVE Occurrences(values, w) = Cardinality(Range(p) \cap Holders(node, w))
  <2>1. DOMAIN values = 1..Len(p) /\ \A i \in 1..Len(p) : node[p[i]].value = values[i]
    BY <1>3
  <2>2. QED BY <1>2, <2>1, OccurrencesOnPath
<1>5. QED BY <1>1, <1>3, <1>4

(* The counts are right for the heap.                                      *)
Counted(counts, N) ==
  HasFree => \A w \in Value : counts[w] = Cardinality(Holders(N, w))

(* Made() adds occurrences and Released() subtracts them.                  *)
LEMMA MadeCounts ==
  ASSUME NEW counts \in [Value -> Int], NEW values,
         \A w \in Value : Occurrences(values, w) \in Nat
  PROVE  /\ Made(counts, values) \in [Value -> Int]
         /\ Released(counts, values) \in [Value -> Int]
         /\ HasFree => \A w \in Value : /\ Made(counts, values)[w] = counts[w] + Occurrences(values, w)
                                        /\ Released(counts, values)[w] = counts[w] - Occurrences(values, w)
<1>1. \A w \in Value : (IF HasFree THEN Occurrences(values, w) ELSE 0) \in Nat
  OBVIOUS
<1>2. Made(counts, values) \in [Value -> Int]
  BY <1>1 DEF Made
<1>3. Released(counts, values) \in [Value -> Int]
  BY <1>1 DEF Released
<1>4. ASSUME HasFree, NEW w \in Value
      PROVE  /\ Made(counts, values)[w] = counts[w] + Occurrences(values, w)
             /\ Released(counts, values)[w] = counts[w] - Occurrences(values, w)
  BY <1>4 DEF Made, Released
<1>5. QED BY <1>2, <1>3, <1>4

(* The counts stay right while the values stay.                            *)
LEMMA SameHolders ==
  ASSUME NEW N, NEW M, \A n \in Node : M[n].value = N[n].value,
         NEW counts, Counted(counts, N)
  PROVE  Counted(counts, M)
<1>1. ASSUME NEW w PROVE Holders(M, w) = Holders(N, w)
  BY DEF Holders
<1>2. QED BY <1>1 DEF Counted

(* One node more with value v.                                             *)
LEMMA OneMoreHolder ==
  ASSUME NEW N, NEW M, NEW n \in Node, NEW v \in Value, N[n].value # v, M[n].value = v,
         \A m \in Node \ {n} : M[m].value = N[m].value, N[n].value \notin Value,
         NEW counts \in [Value -> Int], Counted(counts, N)
  PROVE  Made(counts, <<v>>) \in [Value -> Int] /\ Counted(Made(counts, <<v>>), M)
<1>1. \A w \in Value : Occurrences(<<v>>, w) = IF v = w THEN 1 ELSE 0
  BY OccurrencesOfOne
<1>2. PICK values : values = <<v>>
  OBVIOUS
<1>3. \A w \in Value : Occurrences(values, w) \in Nat
  BY <1>1, <1>2
<1>4. ASSUME HasFree, NEW w \in Value PROVE Made(counts, values)[w] = Cardinality(Holders(M, w))
  <2>1. Made(counts, values)[w] = counts[w] + IF v = w THEN 1 ELSE 0
    BY <1>1, <1>2, <1>3, <1>4, MadeCounts
  <2>2. counts[w] = Cardinality(Holders(N, w))
    BY <1>4 DEF Counted
  <2>3. CASE v = w
    <3>1. Holders(M, w) = Holders(N, w) \cup {n} /\ n \notin Holders(N, w)
      BY <2>3 DEF Holders
    <3>2. Cardinality(Holders(N, w) \cup {n}) = Cardinality(Holders(N, w)) + 1
      BY <3>1, HoldersAreFinite, FS_AddElement
    <3>3. QED BY <2>1, <2>2, <2>3, <3>1, <3>2
  <2>4. CASE v # w
    <3>1. Holders(M, w) = Holders(N, w)
      BY <2>4 DEF Holders
    <3>2. QED BY <2>1, <2>2, <2>4, <3>1, HoldersAreFinite
  <2>5. QED BY <2>3, <2>4
<1>5. Made(counts, values) \in [Value -> Int]
  BY <1>3, MadeCounts
<1>6. Counted(Made(counts, values), M)
  BY <1>4 DEF Counted
<1>7. QED BY <1>2, <1>5, <1>6

(* One node less.                                                          *)
IsLeft(N, M, n, v) ==
  /\ n \in Node /\ v \in Value /\ N[n].value = v /\ M[n].value \notin Value
  /\ \A m \in Node \ {n} : M[m].value = N[m].value

(* The counts stay right when it is released.                              *)
LEMMA OneHolderLess ==
  ASSUME NEW N, NEW M, NEW n, NEW v, IsLeft(N, M, n, v), NEW counts \in [Value -> Int], Counted(counts, N)
  PROVE  Released(counts, <<v>>) \in [Value -> Int] /\ Counted(Released(counts, <<v>>), M)
<1>1. \A w \in Value : Occurrences(<<v>>, w) = IF v = w THEN 1 ELSE 0
  BY OccurrencesOfOne
<1>2. PICK values : values = <<v>>
  OBVIOUS
<1>3. \A w \in Value : Occurrences(values, w) \in Nat
  BY <1>1, <1>2
<1>4. ASSUME HasFree, NEW w \in Value PROVE Released(counts, values)[w] = Cardinality(Holders(M, w))
  <2>1. Released(counts, values)[w] = counts[w] - IF v = w THEN 1 ELSE 0
    BY <1>1, <1>2, <1>3, <1>4, MadeCounts
  <2>2. counts[w] = Cardinality(Holders(N, w))
    BY <1>4 DEF Counted
  <2>3. CASE v = w
    <3>1. Holders(M, w) = Holders(N, w) \ {n} /\ n \in Holders(N, w)
      BY <2>3 DEF Holders, IsLeft
    <3>2. Cardinality(Holders(N, w) \ {n}) = Cardinality(Holders(N, w)) - 1
      BY <3>1, HoldersAreFinite, FS_RemoveElement
    <3>3. QED BY <2>1, <2>2, <2>3, <3>1, <3>2
  <2>4. CASE v # w
    <3>1. Holders(M, w) = Holders(N, w)
      BY <2>4 DEF Holders, IsLeft
    <3>2. QED BY <2>1, <2>2, <2>4, <3>1, HoldersAreFinite
  <2>5. QED BY <2>3, <2>4
<1>5. Released(counts, values) \in [Value -> Int]
  BY <1>3, MadeCounts
<1>6. Counted(Released(counts, values), M)
  BY <1>4 DEF Counted
<1>7. QED BY <1>2, <1>5, <1>6

(* Values stay with their nodes.                                           *)
LEMMA InsertsValues ==
  ASSUME NEW P, Wired(P), NEW l \in List, NEW i, NEW n \in Node, NEW v \in Value,
         Inserts(P, l, i, n, v)
  PROVE  /\ node'[n].value = v /\ node[n].value = NULL
         /\ \A m \in Node \ {n} : node'[m].value = node[m].value
<1>1. InsertedHeap(node, node', P[l], i, n, v) /\ node[n] = NoNode
  BY DEF Inserts
<1>2. node'[n].value = v /\ node[n].value = NULL
  BY <1>1 DEF InsertedHeap, NoNode
<1>3. ASSUME NEW m \in Node \ {n} PROVE node'[m].value = node[m].value
  <2>1. CASE m \in Range(P[l])
    <3>1. PICK j \in 1..Len(P[l]) : P[l][j] = m
      BY <2>1, RangePositions DEF Wired, Fit
    <3>2. QED BY <1>1, <3>1 DEF InsertedHeap
  <2>2. CASE m \notin Range(P[l])
    BY <1>1, <1>3, <2>2 DEF InsertedHeap
  <2>3. QED BY <2>1, <2>2
<1>4. QED BY <1>2, <1>3

(* A removal changes no other node's value.                                *)
LEMMA RemovesValues ==
  ASSUME NEW P, Wired(P), NEW l \in List, NEW i \in 1..Len(P[l]),
         Removes(P, l, i), NEW n, n = P[l][i]
  PROVE  /\ n \in Node /\ node[n].value \in Value /\ node'[n].value = NULL
         /\ \A m \in Node \ {n} : node'[m].value = node[m].value
<1>1. RemovedHeap(node, node', P[l], i)
  BY DEF Removes
<1>2. n \in Node /\ node[n].value \in Value
  BY DEF Wired, Fit, IsPath
<1>3. node'[n].value = NULL
  BY <1>1 DEF RemovedHeap, NoNode
<1>4. ASSUME NEW m \in Node \ {n} PROVE node'[m].value = node[m].value
  <2>1. CASE m \in Range(P[l])
    <3>1. PICK j \in 1..Len(P[l]) : P[l][j] = m
      BY <2>1, RangePositions DEF Wired, Fit
    <3>2. j # i
      BY <1>4, <3>1
    <3>3. QED BY <1>1, <3>1, <3>2 DEF RemovedHeap
  <2>2. CASE m \notin Range(P[l])
    BY <1>1, <1>4, <2>2 DEF RemovedHeap
  <2>3. QED BY <2>1, <2>2
<1>5. QED BY <1>2, <1>3, <1>4

(* The counts stay right over an insertion.                                *)
LEMMA InsertsCounts ==
  ASSUME NEW P, Wired(P), NEW l \in List, NEW i, NEW n \in Node, NEW v \in Value,
         Inserts(P, l, i, n, v), allocated \in [Value -> Int], Counted(allocated, node),
         allocated' = Made(allocated, <<v>>)
  PROVE  allocated' \in [Value -> Int] /\ Counted(allocated', node')
<1>1. /\ node'[n].value = v /\ node[n].value = NULL
      /\ \A m \in Node \ {n} : node'[m].value = node[m].value
  BY InsertsValues
<1>2. node[n].value \notin Value /\ node[n].value # v
  BY <1>1, NullAssumption
<1>3. PICK counts \in [Value -> Int] : counts = allocated
  OBVIOUS
<1> PICK N, M : N = node /\ M = node'
  OBVIOUS
<1>4. Made(counts, <<v>>) \in [Value -> Int] /\ Counted(Made(counts, <<v>>), M)
  BY <1>1, <1>2, <1>3, OneMoreHolder
<1>5. QED BY <1>3, <1>4

(* The counts stay right over a removal.                                   *)
LEMMA RemovesCounts ==
  ASSUME NEW P, Wired(P), NEW l \in List, NEW i \in 1..Len(P[l]),
         Removes(P, l, i), allocated \in [Value -> Int], Counted(allocated, node),
         NEW n, n = P[l][i], allocated' = Released(allocated, <<node[n].value>>)
  PROVE  allocated' \in [Value -> Int] /\ Counted(allocated', node')
<1>1. /\ n \in Node /\ node[n].value \in Value /\ node'[n].value = NULL
      /\ \A m \in Node \ {n} : node'[m].value = node[m].value
  BY RemovesValues
<1>2. PICK counts \in [Value -> Int], v \in Value : counts = allocated /\ v = node[n].value
  BY <1>1
<1> PICK N, M : N = node /\ M = node'
  OBVIOUS
<1>3. IsLeft(N, M, n, v) /\ Counted(counts, N)
  BY <1>1, <1>2, NullAssumption DEF IsLeft
<1>4. Released(counts, <<v>>) \in [Value -> Int] /\ Counted(Released(counts, <<v>>), M)
  BY <1>3, OneHolderLess
<1>5. QED BY <1>2, <1>4

(* A list is freed with all its values.                                    *)
LEMMA FreeCounts ==
  ASSUME NEW P, Wired(P), NEW l \in List, Free(l),
         allocated \in [Value -> Int], Counted(allocated, node)
  PROVE  allocated' \in [Value -> Int] /\ Counted(allocated', node')
<1>1. PICK p, values : p = P[l] /\ values = ValuesIn(node, list[l])
  OBVIOUS
<1>2. \A w : Occurrences(values, w) = Cardinality(Range(p) \cap Holders(node, w))
  BY <1>1, ValuesOfPath
<1>3. ASSUME NEW w
      PROVE  /\ Cardinality(Range(p) \cap Holders(node, w)) \in Nat
             /\ Cardinality(Holders(node, w) \ Range(p)) =
                  Cardinality(Holders(node, w)) - Cardinality(Range(p) \cap Holders(node, w))
  <2>1. PICK H, R : H = Holders(node, w) /\ R = Range(p)
    OBVIOUS
  <2>2. IsFiniteSet(H)
    BY <2>1, HoldersAreFinite
  <2>3. Cardinality(H \ R) = Cardinality(H) - Cardinality(H \cap R)
    BY <2>2, FS_Difference
  <2>4. R \cap H = H \cap R /\ R \cap H \in SUBSET H
    OBVIOUS
  <2>5. Cardinality(R \cap H) \in Nat
    BY <2>2, <2>4, FS_Subset, FS_CardinalityType
  <2>6. QED BY <2>1, <2>3, <2>4, <2>5
<1>4. ASSUME NEW w \in Value PROVE Holders(node', w) = Holders(node, w) \ Range(p)
  <2>1. node' = [n \in Node |-> IF n \in Range(p) THEN NoNode ELSE node[n]]
    <3>1. node' = [n \in Node |-> IF n \in Range(P[l]) THEN NoNode ELSE node[n]]
      BY FreeFit
    <3>2. QED BY <1>1, <3>1
  <2>2. NoNode.value # w
    BY NullAssumption DEF NoNode
  <2>3. QED BY <2>1, <2>2 DEF Holders
<1>5. PICK counts \in [Value -> Int] : counts = allocated
  OBVIOUS
<1>6. \A w \in Value : Occurrences(values, w) \in Nat
  BY <1>2, <1>3
<1>7. allocated' = Released(counts, values)
  BY <1>1, <1>5 DEF Free
<1>8. Released(counts, values) \in [Value -> Int]
  BY <1>6, MadeCounts
<1>9. ASSUME HasFree, NEW w \in Value
      PROVE  Released(counts, values)[w] = Cardinality(Holders(node', w))
  <2>1. Released(counts, values)[w] = counts[w] - Occurrences(values, w)
    BY <1>6, <1>9, MadeCounts
  <2>2. counts[w] = Cardinality(Holders(node, w))
    BY <1>5, <1>9 DEF Counted
  <2>3. QED BY <1>2, <1>3, <1>4, <2>1, <2>2
<1>10. QED BY <1>7, <1>8, <1>9 DEF Counted

(* The copies of the values are counted.                                   *)
LEMMA DuplicateCounts ==
  ASSUME NEW P, Wired(P), NEW l \in List, NEW copy \in List, Duplicate(l, copy),
         NEW nodes, DuplicateNodes(P, l, copy, nodes),
         allocated \in [Value -> Int], Counted(allocated, node)
  PROVE  allocated' \in [Value -> Int] /\ Counted(allocated', node')
<1>1. PICK p, values : p = P[l] /\ values = ValuesIn(node, list[l])
  OBVIOUS
<1>2. p \in Seq(Node) /\ IsCopy(p, nodes)
  BY <1>1 DEF DuplicateNodes, IsCopy
<1>3. values = [i \in 1..Len(p) |-> node[p[i]].value]
  BY <1>1, ValuesOfPath
<1>4. nodes \in Seq(Node) /\ IsInjective(nodes) /\ Len(nodes) = Len(p)
  BY <1>2 DEF IsCopy
<1>5. /\ \A i \in 1..Len(P[l]) : node'[nodes[i]].value = node[P[l][i]].value
      /\ \A m \in Node \ Range(nodes) : node'[m] = node[m]
  <2>1. CopiedValues(P, l, nodes)
    BY DuplicateFit
  <2>2. QED BY <2>1 DEF CopiedValues
<1>6. ASSUME NEW w PROVE Occurrences(values, w) = Cardinality(Range(nodes) \cap Holders(node', w))
  <2>1. DOMAIN values = 1..Len(nodes) /\ \A i \in 1..Len(nodes) : node'[nodes[i]].value = values[i]
    BY <1>1, <1>3, <1>4, <1>5
  <2>2. PICK M : M = node'
    OBVIOUS
  <2>3. Occurrences(values, w) = Cardinality(Range(nodes) \cap Holders(M, w))
    BY <1>4, <2>1, <2>2, OccurrencesOnPath
  <2>4. QED BY <2>2, <2>3
<1>7. ASSUME NEW w \in Value
      PROVE  /\ Cardinality(Range(nodes) \cap Holders(node', w)) \in Nat
             /\ Cardinality(Holders(node', w)) =
                  Cardinality(Holders(node, w)) + Cardinality(Range(nodes) \cap Holders(node', w))
  <2>1. PICK M : M = node'
    OBVIOUS
  <2>2. PICK R, H, G : R = Range(nodes) /\ H = Holders(node, w) /\ G = Holders(M, w)
    OBVIOUS
  <2>3. IsFiniteSet(G) /\ IsFiniteSet(H) /\ Cardinality(H) \in Nat
    BY <2>2, HoldersAreFinite, FS_CardinalityType
  <2>4. \A n \in R : node[n].value \notin Value
    <3>1. \A i \in 1..Len(nodes) : node[nodes[i]] = NoNode
      BY <1>2, <1>4 DEF IsCopy
    <3>2. \A n \in R : node[n] = NoNode
      BY <1>4, <2>2, <3>1, RangePositions
    <3>3. QED BY <3>2, NullAssumption DEF NoNode
  <2>5. \A n \in Node : n \notin R => M[n].value = node[n].value
    BY <1>5, <2>1, <2>2
  <2>6. G \ R = H
    <3>1. \A n : n \in H <=> n \in Node /\ node[n].value = w
      BY <2>2 DEF Holders
    <3>2. \A n : n \in G <=> n \in Node /\ M[n].value = w
      BY <2>2 DEF Holders
    <3>3. QED BY <2>4, <2>5, <3>1, <3>2
  <2>7. Cardinality(G \ R) = Cardinality(G) - Cardinality(G \cap R)
    BY <2>3, FS_Difference
  <2>8. R \cap G = G \cap R /\ R \cap G \in SUBSET G
    OBVIOUS
  <2>9. Cardinality(R \cap G) \in Nat /\ Cardinality(G) \in Nat
    BY <2>3, <2>8, FS_Subset, FS_CardinalityType
  <2>10. Cardinality(G) = Cardinality(H) + Cardinality(R \cap G)
    <3>1. PICK g \in Nat, r \in Nat, h \in Nat :
            g = Cardinality(G) /\ r = Cardinality(R \cap G) /\ h = Cardinality(H)
      BY <2>3, <2>9
    <3>2. h = g - r
      BY <2>6, <2>7, <2>8, <3>1
    <3>3. QED BY <3>1, <3>2
  <2>11. QED BY <2>1, <2>2, <2>9, <2>10
<1>8. PICK counts \in [Value -> Int] : counts = allocated
  OBVIOUS
<1>9. \A w \in Value : Occurrences(values, w) \in Nat
  BY <1>6, <1>7
<1>10. allocated' = Made(counts, values)
  BY <1>1, <1>8 DEF Duplicate
<1>11. Made(counts, values) \in [Value -> Int]
  BY <1>9, MadeCounts
<1>12. ASSUME HasFree, NEW w \in Value
       PROVE  Made(counts, values)[w] = Cardinality(Holders(node', w))
  <2>1. Made(counts, values)[w] = counts[w] + Occurrences(values, w)
    BY <1>9, <1>12, MadeCounts
  <2>2. counts[w] = Cardinality(Holders(node, w))
    BY <1>8, <1>12 DEF Counted
  <2>3. QED BY <1>6, <1>7, <2>1, <2>2
<1>13. QED BY <1>10, <1>11, <1>12 DEF Counted

(* ListFree() of a copy leaves the heap as it was before the copy, and     *)
(* frees the values that were made for it.                                 *)
LEMMA FailedCopyIsFreed ==
  ASSUME node \in Heaps, NEW p, NEW nodes, IsCopy(p, nodes), NEW c,
         c = CopiedUpTo(p, nodes)
  PROVE  /\ FailedHeap(c) = node
         /\ ValuesIn(c.heap, c.copy) = [k \in DOMAIN p |-> node[p[k]].value]
<1>1. PICK N, L : N = c.heap /\ L = c.copy
  OBVIOUS
<1>2. N \in Heaps /\ IsPath(N, L, nodes)
  BY <1>1, CopyPath
<1>3. Walk(N, L.head, FROM_HEAD_TO_TAIL) = nodes
  BY <1>2, WalkIsPath
<1>4. /\ nodes \in Seq(Node) /\ Len(nodes) = Len(p) /\ L.length = Len(nodes)
      /\ DOMAIN p = 1..Len(p) /\ \A i \in 1..Len(p) : node[nodes[i]] = NoNode
  BY <1>2 DEF IsCopy, IsPath
<1>5. /\ \A j \in 1..Len(p) : N[nodes[j]].value = node[p[j]].value
      /\ \A m \in Node : (\A j \in 1..Len(p) : nodes[j] # m) => N[m] = node[m]
  <2>1. CopyIs(p, nodes, c, Len(p))
    BY CopyEnds
  <2>2. QED BY <1>1, <2>1 DEF CopyIs
<1>6. ASSUME NEW m \in Node
      PROVE  (IF \E i \in 1..L.length : nodes[i] = m THEN NoNode ELSE N[m]) = node[m]
  BY <1>4, <1>5
<1>7. FreedNodes(N, L) = [m \in Node |-> node[m]]
  <2>1. FreedNodes(N, L) =
          [m \in Node |-> IF \E i \in 1..L.length : nodes[i] = m THEN NoNode ELSE N[m]]
    BY <1>3 DEF FreedNodes
  <2>2. QED BY <1>6, <2>1
<1>8. node = [m \in Node |-> node[m]]
  BY DEF Heaps
<1>9. ValuesIn(N, L) = [i \in 1..Len(nodes) |-> N[nodes[i]].value]
  BY <1>2, ValuesOnPath
<1>10. [i \in 1..Len(nodes) |-> N[nodes[i]].value] = [k \in DOMAIN p |-> node[p[k]].value]
  BY <1>4, <1>5
<1>11. QED BY <1>1, <1>7, <1>8, <1>9, <1>10 DEF FailedHeap

(* What was made and is freed again changes no count.                      *)
LEMMA MadeAndReleased ==
  ASSUME allocated \in [Value -> Int], NEW k \in Nat, NEW made, DOMAIN made = 1..k
  PROVE  Released(Made(allocated, made), made) = allocated
<1>1. \A w \in Value : Occurrences(made, w) \in Nat
  BY OccurrencesAreNatural
<1>2. PICK counts \in [Value -> Int], more \in [Value -> Int], less \in [Value -> Int] :
        counts = allocated /\ more = Made(counts, made) /\ less = Released(more, made)
  <2>1. Made(allocated, made) \in [Value -> Int]
    BY <1>1, MadeCounts
  <2>2. Released(Made(allocated, made), made) \in [Value -> Int]
    BY <1>1, <2>1, MadeCounts
  <2>3. QED BY <2>1, <2>2
<1>3. ASSUME NEW w \in Value PROVE less[w] = counts[w]
  <2>1. PICK o \in Nat : o = IF HasFree THEN Occurrences(made, w) ELSE 0
    BY <1>1
  <2>2. more[w] = counts[w] + o
    BY <1>2, <2>1 DEF Made
  <2>3. less[w] = more[w] - o
    BY <1>2, <2>1 DEF Released
  <2>4. QED BY <2>2, <2>3
<1>4. less = counts
  BY <1>3
<1>5. QED BY <1>2, <1>4

(* A step that makes a copy of this path and frees it.                     *)
PartFails(path) ==
  \E nodes \in CopyNodes(path) :
    LET c == CopiedUpTo(path, nodes)
        made == [k \in DOMAIN path |-> node[path[k]].value]
    IN  /\ node' = FailedHeap(c)
        /\ allocated' = Released(Made(allocated, made), ValuesIn(c.heap, c.copy))

(* A copy that fails leaves no node and no value behind.                   *)
LEMMA DuplicateFailsRestores ==
  ASSUME NEW P, Wired(P), NEW l \in List, NEW copy \in List, DuplicateFails(l, copy),
         allocated \in [Value -> Int]
  PROVE  node' = node /\ allocated' = allocated
<1>1. PICK p : p = P[l] /\ p \in Seq(Node) /\ IsPath(node, list[l], p)
  BY DEF Wired, Fit
<1>2. Walk(node, list[l].head, FROM_HEAD_TO_TAIL) = p /\ list[l].length = Len(p)
  BY <1>1, NodesOfPath DEF IsPath
<1>3. PICK i \in 1..Len(p) : PartFails(SubSeq(p, 1, i - 1))
  BY <1>2 DEF DuplicateFails, PartFails
<1>4. PICK path : path = SubSeq(p, 1, i - 1)
  OBVIOUS
<1>5. /\ path \in Seq(Node) /\ DOMAIN path = 1..Len(path) /\ Len(path) \in Nat
      /\ \A k \in 1..Len(path) : node[path[k]].value \in Value
  <2>1. PICK m \in Nat : m = i - 1 /\ m <= Len(p)
    OBVIOUS
  <2>2. \A k \in 1..m : p[k] \in Node /\ node[p[k]].value \in Value
    BY <1>1, <2>1 DEF IsPath
  <2>3. path \in Seq(Node) /\ Len(path) = m /\ \A k \in 1..m : path[k] = p[k]
    BY <1>1, <1>4, <2>1, <2>2
  <2>4. QED BY <2>2, <2>3
<1>6. PICK made : made = [k \in DOMAIN path |-> node[path[k]].value]
  OBVIOUS
<1>7. PICK nodes \in CopyNodes(path) :
        LET c == CopiedUpTo(path, nodes)
        IN  /\ node' = FailedHeap(c)
            /\ allocated' = Released(Made(allocated, made), ValuesIn(c.heap, c.copy))
  BY <1>3, <1>4, <1>6 DEF PartFails
<1>8. IsCopy(path, nodes)
  BY <1>5, CopyNodesCopy
<1>9. PICK c : c = CopiedUpTo(path, nodes)
  OBVIOUS
<1>10. FailedHeap(c) = node /\ ValuesIn(c.heap, c.copy) = made
  <2>1. node \in Heaps
    BY DEF Wired
  <2>2. QED BY <1>6, <1>8, <1>9, <2>1, FailedCopyIsFreed
<1>11. Released(Made(allocated, made), made) = allocated
  <2>1. DOMAIN made = 1..Len(path)
    BY <1>5, <1>6
  <2>2. QED BY <1>5, <2>1, MadeAndReleased
<1>12. QED BY <1>7, <1>9, <1>10, <1>11

-----------------------------------------------------------------------------
(* The inductive invariant.                                                *)

(* The walks through all lists.                                            *)
Paths(N, S) == [l \in List |-> Walk(N, S[l].head, FROM_HEAD_TO_TAIL)]

(* The type of what calls return.                                          *)
IsAnswer(r) ==
  \/ r \in List \cup {NULL}
  \/ r \in [list : List, place : {"head", "tail"}]
  \/ r \in [list : List, place : Node, after : BOOLEAN]
  \/ r \in [key : Value, found : Node \cup {NULL}]
  \/ r \in [index : Int, found : Node \cup {NULL}]

(* The paths P fit the heap and the lists, the iterator is in step with    *)
(* its path, and the counts of values are right.                           *)
Holds(P) ==
  /\ Wired(P)
  /\ iterator \in Iterators /\ IteratorFits(iterator, list, P)
  /\ IsAnswer(result)
  /\ allocated \in [Value -> Int] /\ Counted(allocated, node)

(* The inductive invariant: it holds of the walks from the heads.          *)
Inv == Holds(Paths(node, list))

(* What a step leaves.                                                     *)
Leaves(Q) ==
  /\ node' \in Heaps /\ list' \in [List -> Lists] /\ Fit(node', list', Q)
  /\ iterator' \in Iterators /\ IteratorFits(iterator', list', Q)
  /\ IsAnswer(result')
  /\ allocated' \in [Value -> Int] /\ Counted(allocated', node')

(* No other paths fit than the walks.                                      *)
LEMMA PathsAre ==
  ASSUME NEW N \in Heaps, NEW S, NEW P, Fit(N, S, P)
  PROVE  P = Paths(N, S)
<1>1. P \in [List -> Seq(Node)] /\ \A l \in List : IsPath(N, S[l], P[l])
  BY DEF Fit
<1>2. \A l \in List : Walk(N, S[l].head, FROM_HEAD_TO_TAIL) = P[l]
  BY <1>1, WalkIsPath
<1>3. QED BY <1>1, <1>2 DEF Paths

(* A step that leaves any paths that fit keeps the invariant.              *)
LEMMA LeavesInv ==
  ASSUME NEW Q, Leaves(Q)
  PROVE  Inv'
<1>1. PICK N, S : N = node' /\ S = list'
  OBVIOUS
<1>2. N \in Heaps /\ Fit(N, S, Q)
  BY <1>1 DEF Leaves
<1>3. Q = Paths(N, S)
  BY <1>2, PathsAre
<1>4. Leaves(Paths(node', list'))
  BY <1>1, <1>3
<1>5. QED BY <1>4 DEF Leaves, Inv, Holds, Wired

(* The iterator of another list is not disturbed.                          *)
LEMMA IteratorElsewhere ==
  ASSUME NEW I, NEW S, NEW P, IteratorFits(I, S, P), DOMAIN S = List, DOMAIN P = List,
         NEW l, I.list # l, NEW K, NEW q
  PROVE  IteratorFits(I, [S EXCEPT ![l] = K], [P EXCEPT ![l] = q])
BY DEF IteratorFits

(* The iterator of the list that is changed stays in step with the new     *)
(* path.                                                                   *)
LEMMA IteratorHere ==
  ASSUME NEW S, NEW P, DOMAIN S = List, DOMAIN P = List,
         NEW l \in List, NEW K, K.status = "live", NEW q, NEW I, I.list = l, InStep(I, q)
  PROVE  IteratorFits(I, [S EXCEPT ![l] = K], [P EXCEPT ![l] = q])
BY DEF IteratorFits

(* What an insertion leaves.                                               *)
LEMMA InsertsLeaves ==
  ASSUME NEW P, Holds(P), NEW l \in List, NEW i, NEW n \in Node, NEW v \in Value,
         Inserts(P, l, i, n, v), UNCHANGED iterator, IsAnswer(result'),
         allocated' = Made(allocated, <<v>>)
  PROVE  Leaves([P EXCEPT ![l] = InsertAt(P[l], i, n)])
<1>1. Wired(P) /\ allocated \in [Value -> Int] /\ Counted(allocated, node)
  BY DEF Holds
<1>2. Fit(node', list', [P EXCEPT ![l] = InsertAt(P[l], i, n)])
  BY <1>1, InsertsFit
<1>3. allocated' \in [Value -> Int] /\ Counted(allocated', node')
  BY <1>1, InsertsCounts
<1>4. IteratorFits(iterator', list', [P EXCEPT ![l] = InsertAt(P[l], i, n)])
  <2>1. PICK K : list' = [list EXCEPT ![l] = K] /\ K.status = "live"
    BY DEF Inserts
  <2>2. PICK p, q : p = P[l] /\ q = InsertAt(p, i, n)
    OBVIOUS
  <2>3. DOMAIN list = List /\ DOMAIN P = List /\ p \in Seq(Node) /\ n \notin Range(p)
    <3>1. n \notin Range(P[l])
      BY <1>1, FreshIsOutside DEF Wired, Inserts
    <3>2. QED BY <1>1, <2>2, <3>1 DEF Wired, Fit
  <2>4. IteratorFits(iterator, list, P)
    BY DEF Holds
  <2>5. CASE iterator.list # l
    <3>1. IteratorFits(iterator, [list EXCEPT ![l] = K], [P EXCEPT ![l] = q])
      BY <2>3, <2>4, <2>5, IteratorElsewhere
    <3>2. QED BY <2>1, <2>2, <3>1
  <2>6. CASE iterator.list = l
    <3>1. InStep(iterator, p)
      BY <2>2, <2>4, <2>6, NullAssumption DEF IteratorFits
    <3>2. i \in 1..(Len(p) + 1)
      BY <2>2 DEF Inserts
    <3>3. InStep(iterator, InsertAt(p, i, n))
      BY <2>3, <3>1, <3>2, InsertedInStep
    <3>4. InStep(iterator, q)
      BY <2>2, <3>3
    <3>5. IteratorFits(iterator, [list EXCEPT ![l] = K], [P EXCEPT ![l] = q])
      BY <2>1, <2>3, <2>6, <3>4, IteratorHere
    <3>6. QED BY <2>1, <2>2, <3>5
  <2>7. QED BY <2>5, <2>6
<1>5. node' \in Heaps /\ list' \in [List -> Lists]
  BY DEF Inserts
<1>6. iterator' \in Iterators
  BY DEF Holds
<1>7. QED BY <1>2, <1>3, <1>4, <1>5, <1>6 DEF Leaves

(* ListAddHeadNode() keeps the invariant.                                  *)
LEMMA AddHeadNodeLeaves ==
  ASSUME NEW P, Holds(P), NEW l \in List, NEW n \in Node, NEW v \in Value,
         AddHeadNode(l, n, v)
  PROVE  Leaves([P EXCEPT ![l] = InsertAt(P[l], 1, n)])
<1>1. Inserts(P, l, 1, n, v)
  BY AddHeadNodeInserts DEF Holds
<1>2. IsAnswer(result') /\ UNCHANGED iterator /\ allocated' = Made(allocated, <<v>>)
  BY DEF AddHeadNode, IsAnswer
<1>3. QED BY <1>1, <1>2, InsertsLeaves

(* ListAddTailNode() keeps the invariant.                                  *)
LEMMA AddTailNodeLeaves ==
  ASSUME NEW P, Holds(P), NEW l \in List, NEW n \in Node, NEW v \in Value,
         AddTailNode(l, n, v)
  PROVE  Leaves([P EXCEPT ![l] = InsertAt(P[l], Len(P[l]) + 1, n)])
<1>1. Inserts(P, l, Len(P[l]) + 1, n, v)
  BY AddTailNodeInserts DEF Holds
<1>2. IsAnswer(result') /\ UNCHANGED iterator /\ allocated' = Made(allocated, <<v>>)
  BY DEF AddTailNode, IsAnswer
<1>3. PICK i : i = Len(P[l]) + 1
  OBVIOUS
<1>4. Leaves([P EXCEPT ![l] = InsertAt(P[l], i, n)])
  BY <1>1, <1>2, <1>3, InsertsLeaves
<1>5. QED BY <1>3, <1>4

(* ListInsertNode() keeps the invariant.                                   *)
LEMMA InsertNodeLeaves ==
  ASSUME NEW P, Holds(P), NEW l \in List, NEW old \in Node, NEW n \in Node,
         NEW v \in Value, NEW after \in BOOLEAN, InsertNode(l, old, n, v, after)
  PROVE  \E i \in 1..Len(P[l]) :
           P[l][i] = old /\ Leaves([P EXCEPT ![l] = InsertAt(P[l], IF after THEN i + 1 ELSE i, n)])
<1>1. PICK i \in 1..Len(P[l]) :
        P[l][i] = old /\ Inserts(P, l, IF after THEN i + 1 ELSE i, n, v)
  BY InsertNodeInserts DEF Holds
<1>2. IsAnswer(result') /\ UNCHANGED iterator /\ allocated' = Made(allocated, <<v>>)
  BY DEF InsertNode, IsAnswer
<1>3. PICK j : j = IF after THEN i + 1 ELSE i
  OBVIOUS
<1>4. Leaves([P EXCEPT ![l] = InsertAt(P[l], j, n)])
  BY <1>1, <1>2, <1>3, InsertsLeaves
<1>5. QED BY <1>1, <1>3, <1>4

(* ListDeleteNode() keeps the invariant: of a walked list only the node    *)
(* that the iterator returned last is deleted, and the iterator is past    *)
(* it.                                                                     *)
LEMMA DeleteNodeLeaves ==
  ASSUME NEW P, Holds(P), NEW l \in List, NEW n \in Node, DeleteNode(l, n)
  PROVE  \E i \in 1..Len(P[l]) : P[l][i] = n /\ Leaves([P EXCEPT ![l] = RemoveAt(P[l], i)])
<1>1. Wired(P) /\ allocated \in [Value -> Int] /\ Counted(allocated, node)
  BY DEF Holds
<1>2. PICK i \in 1..Len(P[l]) : P[l][i] = n /\ Removes(P, l, i)
  BY <1>1, DeleteNodeRemoves
<1>3. Fit(node', list', [P EXCEPT ![l] = RemoveAt(P[l], i)])
  BY <1>1, <1>2, RemovesFit
<1>4. allocated' \in [Value -> Int] /\ Counted(allocated', node')
  <2>1. allocated' = Released(allocated, <<node[n].value>>)
    BY DEF DeleteNode
  <2>2. QED BY <1>1, <1>2, <2>1, RemovesCounts
<1>5. PICK p, q, K : /\ p = P[l] /\ q = RemoveAt(p, i)
                     /\ list' = [list EXCEPT ![l] = K] /\ K.status = "live"
                     /\ RemovedEnds(list[l], K, p, i)
  BY <1>2 DEF Removes
<1>6. /\ p \in Seq(Node) /\ i \in 1..Len(p) /\ n = p[i] /\ IsPath(node, list[l], p)
      /\ DOMAIN list = List /\ DOMAIN P = List
  BY <1>1, <1>2, <1>5 DEF Wired, Fit
<1>7. Range(q) = Range(p) \ {p[i]}
  <2>1. RemovedHeap(node, node', p, i)
    BY <1>2, <1>5 DEF Removes
  <2>2. PICK M, L : M = node' /\ L = list[l]
    OBVIOUS
  <2>3. IsPath(node, L, p) /\ RemovedHeap(node, M, p, i) /\ RemovedEnds(L, K, p, i)
    BY <1>5, <1>6, <2>1, <2>2
  <2>4. Range(RemoveAt(p, i)) = Range(p) \ {p[i]}
    BY <1>6, <2>3, RemovedPath
  <2>5. QED BY <1>5, <2>4
<1>8. iterator \in Iterators /\ IteratorFits(iterator, list, P)
  BY DEF Holds
<1>9. PICK J : /\ J = iterator' /\ J \in Iterators
               /\ J.list = iterator.list /\ J.next = iterator.next
               /\ J.direction = iterator.direction /\ J.due = iterator.due
               /\ J.last = (IF iterator.list = l THEN NULL ELSE iterator.last)
               /\ J.seen = iterator.seen \ {n}
  <2>1. iterator' = [iterator EXCEPT !.last = IF iterator.list = l THEN NULL ELSE @,
                                     !.seen = @ \ {n}]
    BY DEF DeleteNode, IsWalked
  <2>2. PICK last \in Node \cup {NULL}, seen \in SUBSET Node :
          /\ last = (IF iterator.list = l THEN NULL ELSE iterator.last)
          /\ seen = iterator.seen \ {n}
    BY <1>8 DEF Iterators
  <2>3. PICK J : J = [iterator EXCEPT !.last = last, !.seen = seen]
    OBVIOUS
  <2>4. /\ J \in Iterators /\ J.last = last /\ J.seen = seen
        /\ J.list = iterator.list /\ J.next = iterator.next
        /\ J.direction = iterator.direction /\ J.due = iterator.due
    BY <1>8, <2>3 DEF Iterators
  <2>5. J = iterator'
    BY <2>1, <2>2, <2>3
  <2>6. QED BY <2>2, <2>4, <2>5
<1>10. IteratorFits(J, [list EXCEPT ![l] = K], [P EXCEPT ![l] = q])
  <2>1. CASE iterator.list = l
    <3>1. InStep(iterator, p)
      BY <1>5, <1>8, <2>1, NullAssumption DEF IteratorFits
    <3>2. p[i] = iterator.last /\ J.seen = iterator.seen \ {p[i]} /\ J.last = NULL
      BY <1>6, <1>9, <2>1 DEF DeleteNode, MayDelete, IsWalked
    <3>3. PICK I : I = iterator
      OBVIOUS
    <3>4. /\ InStep(I, p) /\ p[i] = I.last
          /\ J.next = I.next /\ J.direction = I.direction /\ J.due = I.due
          /\ J.last = NULL /\ J.seen = I.seen \ {p[i]}
      BY <1>9, <3>1, <3>2, <3>3
    <3>5. q = RemoveAt(p, i)
      BY <1>5
    <3>6. InStep(J, q)
      BY <1>6, <1>7, <3>4, <3>5, RemovedInStep
    <3>7. QED BY <1>5, <1>6, <1>9, <2>1, <3>6, IteratorHere
  <2>2. CASE iterator.list # l
    <3>1. J.list # NULL => /\ J.list \in List /\ list[J.list].status = "live"
                           /\ InStep(iterator, P[J.list])
      BY <1>8, <1>9 DEF IteratorFits
    <3>2. J.list # NULL => n \notin Range(P[J.list])
      <4>1. J.list # NULL => Range(P[J.list]) \cap Range(P[l]) = {}
        BY <1>1, <1>9, <2>2, <3>1 DEF Wired, Fit
      <4>2. n \in Range(P[l])
        BY <1>5, <1>6, RangePositions
      <4>3. QED BY <4>1, <4>2
    <3>3. J.list # NULL => InStep(J, P[J.list])
      <4>1. J.list # NULL => J.seen = iterator.seen /\ J.last = iterator.last
        BY <1>9, <2>2, <3>1, <3>2 DEF InStep
      <4>2. QED BY <1>9, <3>1, <4>1 DEF InStep
    <3>4. IteratorFits(J, list, P)
      BY <3>1, <3>3 DEF IteratorFits
    <3>5. J.list # l
      BY <1>9, <2>2
    <3>6. QED BY <1>6, <3>4, <3>5, IteratorElsewhere
  <2>3. QED BY <2>1, <2>2
<1>11. node' \in Heaps /\ list' \in [List -> Lists]
  BY <1>2 DEF Removes
<1>12. IsAnswer(result')
  BY DEF DeleteNode, IsAnswer
<1>13. Leaves([P EXCEPT ![l] = RemoveAt(P[l], i)])
  BY <1>3, <1>4, <1>5, <1>9, <1>10, <1>11, <1>12 DEF Leaves
<1>14. QED BY <1>2, <1>13

(* ListFree() keeps the invariant.                                         *)
LEMMA FreeLeaves ==
  ASSUME NEW P, Holds(P), NEW l \in List, Free(l)
  PROVE  Leaves([P EXCEPT ![l] = <<>>])
<1>1. Wired(P) /\ allocated \in [Value -> Int] /\ Counted(allocated, node)
  BY DEF Holds
<1>2. /\ node' \in Heaps /\ list' \in [List -> Lists]
      /\ Fit(node', list', [P EXCEPT ![l] = <<>>])
  BY <1>1, FreeFit
<1>3. allocated' \in [Value -> Int] /\ Counted(allocated', node')
  BY <1>1, FreeCounts
<1>4. PICK K, e : K = NoList("absent") /\ e = <<>>
  OBVIOUS
<1>5. IteratorFits(iterator, [list EXCEPT ![l] = K], [P EXCEPT ![l] = e])
  <2>1. IteratorFits(iterator, list, P) /\ DOMAIN list = List /\ DOMAIN P = List
    BY <1>1 DEF Holds, Wired, Fit
  <2>2. iterator.list # l
    BY DEF Free, IsWalked
  <2>3. QED BY <2>1, <2>2, IteratorElsewhere
<1>6. IsAnswer(result') /\ UNCHANGED iterator /\ list' = [list EXCEPT ![l] = K]
  BY <1>4 DEF Free, IsAnswer
<1>7. IteratorFits(iterator', list', [P EXCEPT ![l] = <<>>])
  BY <1>4, <1>5, <1>6
<1>8. iterator' \in Iterators
  BY <1>6 DEF Holds
<1>9. QED BY <1>2, <1>3, <1>6, <1>7, <1>8 DEF Leaves

(* No list and no node is changed.                                         *)
LEMMA LookLeaves ==
  ASSUME NEW P, Holds(P), UNCHANGED <<list, node, allocated>>,
         iterator' \in Iterators, IteratorFits(iterator', list, P), IsAnswer(result')
  PROVE  Leaves(P)
BY DEF Holds, Wired, Leaves

(* ListRotate() keeps the invariant.                                       *)
LEMMA RotateLeaves ==
  ASSUME NEW P, Holds(P), NEW l \in List, Rotate(l)
  PROVE  Leaves([P EXCEPT ![l] = IF Len(P[l]) <= 1 THEN P[l] ELSE <<Last(P[l])>> \o Front(P[l])])
<1>1. Wired(P) /\ allocated \in [Value -> Int] /\ Counted(allocated, node)
  BY DEF Holds
<1>2. list[l].length = Len(P[l]) /\ Len(P[l]) \in Nat /\ DOMAIN P = List /\ DOMAIN list = List
  BY <1>1 DEF Wired, Fit, IsPath
<1>3. UNCHANGED <<iterator, result, allocated>> /\ iterator.list # l
  BY DEF Rotate, IsWalked
<1>4. iterator \in Iterators /\ IteratorFits(iterator, list, P) /\ IsAnswer(result)
  BY DEF Holds
<1>5. CASE ~HasSeveral(l)
  <2>1. UNCHANGED <<list, node>> /\ Len(P[l]) <= 1
    BY <1>2, <1>5 DEF Rotate, HasSeveral
  <2>2. Leaves(P)
    BY <1>3, <1>4, <2>1, LookLeaves
  <2>3. P = [P EXCEPT ![l] = P[l]]
    BY <1>1 DEF Wired, Fit
  <2>4. QED BY <2>1, <2>2, <2>3
<1>6. CASE HasSeveral(l)
  <2>1. PICK K : list' = [list EXCEPT ![l] = K] /\ K.status = "live"
    BY <1>1, <1>6, RotateRotates
  <2>2. RotatedHeap(node, node', P[l]) /\ node' \in Heaps /\ list' \in [List -> Lists]
    BY <1>1, <1>6, RotateRotates
  <2>3. PICK q : q = <<Last(P[l])>> \o Front(P[l])
    OBVIOUS
  <2>4. Fit(node', list', [P EXCEPT ![l] = <<Last(P[l])>> \o Front(P[l])])
    BY <1>1, <1>6, RotateFit
  <2>5. \A n \in Node : node'[n].value = node[n].value
    <3>1. \A j \in 1..Len(P[l]) : node'[P[l][j]].value = node[P[l][j]].value
      BY <2>2 DEF RotatedHeap
    <3>2. \A m \in Node \ Range(P[l]) : node'[m] = node[m]
      BY <2>2 DEF RotatedHeap
    <3>3. \A n : n \in Range(P[l]) <=> \E j \in 1..Len(P[l]) : P[l][j] = n
      BY <1>1, RangePositions DEF Wired, Fit
    <3>4. QED BY <3>1, <3>2, <3>3
  <2>6. Counted(allocated, node')
    BY <1>1, <2>5, SameHolders
  <2>7. IteratorFits(iterator, [list EXCEPT ![l] = K], [P EXCEPT ![l] = q])
    BY <1>2, <1>3, <1>4, IteratorElsewhere
  <2>8. Leaves([P EXCEPT ![l] = q])
    BY <1>1, <1>3, <1>4, <2>1, <2>2, <2>3, <2>4, <2>6, <2>7 DEF Leaves
  <2>9. ~(Len(P[l]) <= 1)
    BY <1>2, <1>6 DEF HasSeveral
  <2>10. QED BY <2>3, <2>8, <2>9
<1>7. QED BY <1>5, <1>6

(* ListCreate() keeps the invariant.                                       *)
LEMMA CreateLeaves ==
  ASSUME NEW P, Holds(P), NEW l \in List, Create(l)
  PROVE  Leaves(P) /\ P[l] = <<>> /\ list'[l].status = "live"
<1>1. Wired(P) /\ list[l].status # "live" /\ DOMAIN list = List
  BY DEF Holds, Wired, Create
<1>2. PICK K : K = NoList("live")
  OBVIOUS
<1>3. Fit(node, [list EXCEPT ![l] = NoList("live")], P) /\ P[l] = <<>>
  <2>1. Fit(node, list, P)
    BY <1>1 DEF Wired
  <2>2. P[l] = <<>>
    BY <1>1, <2>1 DEF Fit
  <2>3. Fit(node, [list EXCEPT ![l] = NoList("live")], P)
    BY <1>1, <2>1, EmptyFit
  <2>4. QED BY <2>2, <2>3
<1>4. K \in Lists /\ K.status = "live"
  BY <1>2, EmptyPath
<1>5. list' = [list EXCEPT ![l] = K] /\ UNCHANGED <<node, iterator, allocated>>
  BY <1>2 DEF Create
<1>6. list' \in [List -> Lists]
  BY <1>1, <1>4, <1>5 DEF Wired
<1>7. IteratorFits(iterator', list', P)
  <2>1. IteratorFits(iterator, list, P)
    BY DEF Holds
  <2>2. QED BY <1>1, <1>5, <2>1 DEF IteratorFits
<1>8. IsAnswer(result')
  BY DEF Create, IsAnswer
<1>9. QED BY <1>1, <1>2, <1>3, <1>4, <1>5, <1>6, <1>7, <1>8 DEF Leaves, Holds, Wired

(* A copy that failed keeps the invariant: all of it is freed.             *)
LEMMA DuplicateFailsLeaves ==
  ASSUME NEW P, Holds(P), NEW l \in List, NEW copy \in List, DuplicateFails(l, copy)
  PROVE  Leaves(P)
<1>1. Wired(P) /\ list[copy].status # "live" /\ DOMAIN list = List
  BY DEF Holds, Wired, DuplicateFails
<1>2. PICK K : K = NoList("dangling")
  OBVIOUS
<1>3. Fit(node, [list EXCEPT ![copy] = NoList("dangling")], P)
  BY <1>1, EmptyFit DEF Wired
<1>4. K \in Lists
  BY <1>2, EmptyPath
<1>5. list' = [list EXCEPT ![copy] = K] /\ UNCHANGED <<node, iterator, allocated>>
  <2>1. node' = node /\ allocated' = allocated
    BY <1>1, DuplicateFailsRestores DEF Holds
  <2>2. QED BY <1>2, <2>1 DEF DuplicateFails
<1>6. list' \in [List -> Lists]
  BY <1>1, <1>4, <1>5 DEF Wired
<1>7. IteratorFits(iterator', list', P)
  <2>1. IteratorFits(iterator, list, P)
    BY DEF Holds
  <2>2. QED BY <1>1, <1>5, <2>1 DEF IteratorFits
<1>8. IsAnswer(result')
  BY DEF DuplicateFails, IsAnswer
<1>9. QED BY <1>1, <1>2, <1>3, <1>5, <1>6, <1>7, <1>8 DEF Leaves, Holds, Wired

(* ListDuplicate() keeps the invariant.                                    *)
LEMMA DuplicateLeaves ==
  ASSUME NEW P, Holds(P), NEW l \in List, NEW copy \in List, Duplicate(l, copy),
         NEW nodes, DuplicateNodes(P, l, copy, nodes)
  PROVE  Leaves([P EXCEPT ![copy] = nodes])
<1>1. Wired(P) /\ allocated \in [Value -> Int] /\ Counted(allocated, node)
  BY DEF Holds
<1>2. /\ node' \in Heaps /\ list' \in [List -> Lists]
      /\ Fit(node', list', [P EXCEPT ![copy] = nodes])
      /\ list'[copy].status = "live"
  BY <1>1, DuplicateFit
<1>3. allocated' \in [Value -> Int] /\ Counted(allocated', node')
  BY <1>1, DuplicateCounts
<1>4. PICK K : list' = [list EXCEPT ![copy] = K]
  BY DEF DuplicateNodes
<1>5. list[copy].status # "live" /\ DOMAIN list = List /\ DOMAIN P = List
  BY <1>1 DEF Wired, Fit, Duplicate
<1>6. iterator' = iterator /\ IsAnswer(result')
  BY DEF Duplicate, IsAnswer
<1>7. IteratorFits(iterator, [list EXCEPT ![copy] = K], [P EXCEPT ![copy] = nodes])
  <2>1. IteratorFits(iterator, list, P)
    BY DEF Holds
  <2>2. CASE iterator.list = copy
    <3>1. iterator.list = NULL
      BY <1>5, <2>1, <2>2 DEF IteratorFits
    <3>2. QED BY <3>1 DEF IteratorFits
  <2>3. CASE iterator.list # copy
    BY <1>5, <2>1, <2>3, IteratorElsewhere
  <2>4. QED BY <2>2, <2>3
<1>8. QED BY <1>2, <1>3, <1>4, <1>6, <1>7 DEF Leaves, Holds

(* The place of the first node that holds v.                               *)
First(p, N, v) ==
  LET I == {i \in 1..Len(p) : N[p[i]].value = v}
  IN  IF I # {} THEN Min(I) ELSE 0

(* It is a place of the path, or none.                                     *)
LEMMA FirstIsPlace ==
  ASSUME NEW p \in Seq(Node), NEW N, NEW v
  PROVE  First(p, N, v) = 0 \/ First(p, N, v) \in 1..Len(p)
<1> DEFINE I == {i \in 1..Len(p) : N[p[i]].value = v}
<1>1. I \in SUBSET Nat
  OBVIOUS
<1>2. I # {} => Min(I) \in I
  <2> HIDE DEF I
  <2>1. QED BY <1>1, MinIsLeast
<1>3. First(p, N, v) = IF I # {} THEN Min(I) ELSE 0
  BY DEF First
<1>4. QED BY <1>2, <1>3

(* ListSearchKey() changes nothing but the answer.                         *)
LEMMA SearchKeyLeaves ==
  ASSUME NEW P, Holds(P), NEW l \in List, NEW v \in Value, SearchKey(l, v)
  PROVE  Leaves(P)
<1>1. Wired(P) /\ iterator \in Iterators /\ IteratorFits(iterator, list, P)
  BY DEF Holds
<1>2. PICK p \in Seq(Node) : p = P[l]
  BY <1>1 DEF Wired, Fit
<1>3. Walk(node, list[l].head, FROM_HEAD_TO_TAIL) = p
  BY <1>1, <1>2, NodesOfPath
<1>4. PICK i : /\ i = First(p, node, v)
               /\ result' = [key |-> v, found |-> IF i = 0 THEN NULL ELSE p[i]]
  BY <1>3 DEF SearchKey, SelectInSeq, First
<1>5. i = 0 \/ i \in 1..Len(p)
  BY <1>4, FirstIsPlace
<1>6. IsAnswer(result')
  <2>1. PICK found \in Node \cup {NULL} : found = IF i = 0 THEN NULL ELSE p[i]
    BY <1>5
  <2>2. QED BY <1>4, <2>1 DEF IsAnswer
<1>7. QED BY <1>1, <1>6, LookLeaves DEF SearchKey

(* ListIndex() changes nothing, and answers with the node at the place, or *)
(* NULL for an index that no node has.                                     *)
LEMMA IndexLeaves ==
  ASSUME NEW P, Holds(P), NEW l \in List, NEW i \in -1..Cardinality(Node), Index(l, i)
  PROVE  /\ Leaves(P)
         /\ result' = [index |-> i, found |-> IF i + 1 \in 1..Len(P[l]) THEN P[l][i + 1] ELSE NULL]
<1>1. Wired(P) /\ iterator \in Iterators /\ IteratorFits(iterator, list, P)
  BY DEF Holds
<1>2. PICK p \in Seq(Node), k \in Nat : p = P[l] /\ k = Len(p)
  BY <1>1 DEF Wired, Fit
<1>3. Walk(node, list[l].head, FROM_HEAD_TO_TAIL) = p
  BY <1>1, <1>2, NodesOfPath
<1>4. list[l].length = k /\ i \in Int
  <2>1. list[l].length = k
    BY <1>1, <1>2 DEF Wired, Fit, IsPath
  <2>2. Cardinality(Node) \in Nat
    BY NodeAssumption, FS_CardinalityType
  <2>3. QED BY <2>1, <2>2
<1>5. PICK found : found = IF i + 1 \in 1..k THEN p[i + 1] ELSE NULL
  OBVIOUS
<1>6. found \in Node \cup {NULL}
  BY <1>2, <1>5
<1>7. NodeAt(l, i) = found
  <2>1. NodeAt(l, i) = IF i \in 0..k /\ i + 1 <= k THEN p[i + 1] ELSE NULL
    BY <1>2, <1>3, <1>4 DEF NodeAt
  <2>2. (i \in 0..k /\ i + 1 <= k) <=> i + 1 \in 1..k
    BY <1>4
  <2>3. QED BY <1>5, <2>1, <2>2
<1>8. result' = [index |-> i, found |-> found]
  BY <1>7 DEF Index
<1>9. IsAnswer(result')
  BY <1>4, <1>6, <1>8 DEF IsAnswer
<1>10. Leaves(P)
  BY <1>1, <1>9, LookLeaves DEF Index
<1>11. QED BY <1>2, <1>5, <1>8, <1>10

(* ListGetIterator() keeps the invariant.                                  *)
LEMMA GetIteratorLeaves ==
  ASSUME NEW P, Holds(P), NEW l \in List,
         NEW direction \in {FROM_HEAD_TO_TAIL, FROM_TAIL_TO_HEAD}, GetIterator(l, direction)
  PROVE  Leaves(P)
<1>1. Wired(P) /\ IsAnswer(result) /\ list[l].status = "live"
  BY DEF Holds, GetIterator, IsLive
<1>2. IsPath(node, list[l], P[l]) /\ list[l] \in Lists
  BY <1>1 DEF Wired, Fit
<1>3. NodesOf(l) = Range(P[l]) /\ Range(P[l]) \subseteq Node
  BY <1>1, <1>2, NodesOfPath, RangePositions DEF IsPath
<1>4. PICK next \in Node \cup {NULL} :
        next = IF direction = FROM_HEAD_TO_TAIL THEN list[l].head ELSE list[l].tail
  BY <1>2 DEF Lists
<1>5. PICK I : I = [NoIterator EXCEPT !.list = l, !.next = next, !.direction = direction,
                                      !.due = Range(P[l])]
  OBVIOUS
<1>6. /\ I \in Iterators /\ I.list = l /\ I.next = next /\ I.direction = direction
      /\ I.due = Range(P[l]) /\ I.seen = {} /\ I.last = NULL
  BY <1>3, <1>5 DEF NoIterator, Iterators
<1>7. iterator' = I
  BY <1>3, <1>4, <1>5 DEF GetIterator
<1>8. InStep(I, P[l])
  <2>1. PICK L, p : L = list[l] /\ p = P[l]
    OBVIOUS
  <2>2. /\ IsPath(node, L, p) /\ I.due = Range(p)
        /\ I.next = IF I.direction = FROM_HEAD_TO_TAIL THEN L.head ELSE L.tail
    BY <1>2, <1>4, <1>6, <2>1
  <2>3. InStep(I, p)
    BY <1>6, <2>2, StartInStep
  <2>4. QED BY <2>1, <2>3
<1>9. IteratorFits(I, list, P)
  BY <1>1, <1>6, <1>8 DEF IteratorFits
<1>10. QED BY <1>1, <1>6, <1>7, <1>9, LookLeaves DEF GetIterator

(* ListNextIterateNode() keeps the invariant.                              *)
LEMMA NextIterateNodeLeaves ==
  ASSUME NEW P, Holds(P), NextIterateNode
  PROVE  Leaves(P)
<1>1. /\ Wired(P) /\ IsAnswer(result) /\ iterator.list # NULL
      /\ iterator \in Iterators /\ IteratorFits(iterator, list, P)
  BY DEF Holds, NextIterateNode
<1>2. PICK l \in List, p \in Seq(Node), I \in Iterators :
        /\ l = iterator.list /\ p = P[l] /\ I = iterator
        /\ list[l].status = "live" /\ InStep(I, p) /\ IsPath(node, list[l], p)
  BY <1>1 DEF IteratorFits, Wired, Fit
<1>3. PICK J : J = iterator'
  OBVIOUS
<1>4. J \in Iterators /\ J.list = l /\ InStep(J, p)
  <2>1. CASE I.next = NULL
    <3>1. J = [I EXCEPT !.last = NULL]
      BY <1>2, <1>3, <2>1 DEF NextIterateNode
    <3>2. /\ J \in Iterators /\ J.list = I.list /\ J.next = I.next /\ J.direction = I.direction
          /\ J.due = I.due /\ J.seen = I.seen /\ J.last = NULL
      BY <3>1 DEF Iterators
    <3>3. QED BY <1>2, <3>2 DEF InStep
  <2>2. CASE I.next # NULL
    <3>1. PICK i \in 1..Len(p) : I.next = p[i]
      BY <1>2, <2>2, RangePositions DEF InStep
    <3>2. PICK next : next = IF I.direction = FROM_HEAD_TO_TAIL THEN Behind(p, i) ELSE Before(p, i)
      OBVIOUS
    <3>3. next = Step(I.next)
      <4>1. node[p[i]].next = Behind(p, i) /\ node[p[i]].previous = Before(p, i)
        BY <1>2 DEF IsPath
      <4>2. QED BY <1>2, <3>1, <3>2, <4>1 DEF Step, Link
    <3>4. J = [I EXCEPT !.next = next, !.last = I.next,
                        !.seen = I.seen \cup {I.next}, !.due = I.due \ {I.next}]
      BY <1>2, <1>3, <2>2, <3>3 DEF NextIterateNode
    <3>5. InStep(J, p)
      <4>1. p \in Seq(Node) /\ IsInjective(p)
        BY <1>2 DEF IsPath
      <4>2. InStep([I EXCEPT !.next = next, !.last = I.next,
                        !.seen = I.seen \cup {I.next}, !.due = I.due \ {I.next}], p)
        BY <1>2, <3>1, <3>2, <4>1, NextInStep
      <4>3. QED BY <3>4, <4>2
    <3>6. next \in Node \cup {NULL} /\ I.next \in Node
      <4>1. next \in Node \cup {NULL}
        BY <3>2 DEF Before, Behind
      <4>2. QED BY <3>1, <4>1
    <3>7. PICK last \in Node \cup {NULL}, seen \in SUBSET Node, due \in SUBSET Node :
            last = I.next /\ seen = I.seen \cup {I.next} /\ due = I.due \ {I.next}
      BY <3>6 DEF Iterators
    <3>8. J = [I EXCEPT !.next = next, !.last = last, !.seen = seen, !.due = due]
      BY <3>4, <3>7
    <3>9. J \in Iterators /\ J.list = I.list
      BY <3>6, <3>8 DEF Iterators
    <3>10. QED BY <1>2, <3>5, <3>9
  <2>3. QED BY <2>1, <2>2
<1>5. IteratorFits(J, list, P)
  BY <1>2, <1>4 DEF IteratorFits
<1>6. QED BY <1>1, <1>3, <1>4, <1>5, LookLeaves DEF NextIterateNode

(* ListFreeIterator() keeps the invariant.                                 *)
LEMMA FreeIteratorLeaves ==
  ASSUME NEW P, Holds(P), FreeIterator
  PROVE  Leaves(P)
<1>1. NoIterator \in Iterators /\ NoIterator.list = NULL
  BY DEF NoIterator, Iterators
<1>2. IteratorFits(NoIterator, list, P)
  BY <1>1 DEF IteratorFits
<1>3. IsAnswer(result)
  BY DEF Holds
<1>4. QED BY <1>1, <1>2, <1>3, LookLeaves DEF FreeIterator

-----------------------------------------------------------------------------
(* What the invariant says of the properties.                              *)

(* Nothing is linked at first.                                             *)
LEMMA InitInv == Init => Inv
<1> SUFFICES ASSUME Init PROVE Inv
  OBVIOUS
<1>1. PICK P : P = [l \in List |-> <<>>]
  OBVIOUS
<1>2. \A l \in List : IsPath(node, list[l], P[l]) /\ list[l] \in Lists
  BY <1>1, EmptyPath DEF Init
<1>3. \A l \in List : Range(P[l]) = {}
  BY <1>1 DEF Range
<1>4. P \in [List -> Seq(Node)]
  BY <1>1
<1>5. Fit(node, list, P)
  BY <1>1, <1>2, <1>3, <1>4 DEF Fit, Init
<1>6. node \in Heaps /\ list \in [List -> Lists]
  BY <1>2 DEF Init, Heaps, NoNode
<1>7. iterator \in Iterators /\ IteratorFits(iterator, list, P)
  BY DEF Init, NoIterator, Iterators, IteratorFits
<1>8. IsAnswer(result) /\ allocated \in [Value -> Int]
  BY DEF Init, IsAnswer
<1>9. Counted(allocated, node)
  <2>1. ASSUME NEW w \in Value PROVE allocated[w] = Cardinality(Holders(node, w))
    <3>1. Holders(node, w) = {}
      BY NullAssumption DEF Holders, Init, NoNode
    <3>2. QED BY <3>1, FS_EmptySet DEF Init
  <2>2. QED BY <2>1 DEF Counted
<1>10. Holds(P)
  BY <1>5, <1>6, <1>7, <1>8, <1>9 DEF Holds, Wired
<1>11. P = Paths(node, list)
  BY <1>5, <1>6, PathsAre
<1>12. QED BY <1>10, <1>11 DEF Inv

(* Every step keeps the invariant.                                         *)
LEMMA NextInv == Inv /\ [Next]_vars => Inv'
<1> SUFFICES ASSUME Inv, [Next]_vars PROVE Inv'
  OBVIOUS
<1>1. PICK P : P = Paths(node, list) /\ Holds(P)
  BY DEF Inv
<1>2. ASSUME NEW l \in List, Create(l) PROVE Inv'
  BY <1>1, <1>2, CreateLeaves, LeavesInv
<1>3. ASSUME NEW l \in List, Free(l) PROVE Inv'
  BY <1>1, <1>3, FreeLeaves, LeavesInv
<1>4. ASSUME NEW l \in List, NEW n \in Node, NEW v \in Value, AddHeadNode(l, n, v)
      PROVE  Inv'
  BY <1>1, <1>4, AddHeadNodeLeaves, LeavesInv
<1>5. ASSUME NEW l \in List, NEW n \in Node, NEW v \in Value, AddTailNode(l, n, v)
      PROVE  Inv'
  BY <1>1, <1>5, AddTailNodeLeaves, LeavesInv
<1>6. ASSUME NEW l \in List, NEW old \in Node, NEW n \in Node, NEW v \in Value,
             NEW after \in BOOLEAN, InsertNode(l, old, n, v, after)
      PROVE  Inv'
  <2>1. \E i \in 1..Len(P[l]) : Leaves([P EXCEPT ![l] = InsertAt(P[l], IF after THEN i + 1 ELSE i, n)])
    BY <1>1, <1>6, InsertNodeLeaves
  <2>2. QED BY <2>1, LeavesInv
<1>7. ASSUME NEW l \in List, NEW n \in Node, DeleteNode(l, n) PROVE Inv'
  <2>1. \E i \in 1..Len(P[l]) : Leaves([P EXCEPT ![l] = RemoveAt(P[l], i)])
    BY <1>1, <1>7, DeleteNodeLeaves
  <2>2. QED BY <2>1, LeavesInv
<1>8. ASSUME NEW l \in List, Rotate(l) PROVE Inv'
  BY <1>1, <1>8, RotateLeaves, LeavesInv
<1>9. ASSUME NEW l \in List, NEW v \in Value, SearchKey(l, v) PROVE Inv'
  BY <1>1, <1>9, SearchKeyLeaves, LeavesInv
<1>10. ASSUME NEW l \in List, NEW i \in -1..Cardinality(Node), Index(l, i) PROVE Inv'
  BY <1>1, <1>10, IndexLeaves, LeavesInv
<1>11. ASSUME NEW l \in List, NEW direction \in {FROM_HEAD_TO_TAIL, FROM_TAIL_TO_HEAD},
              GetIterator(l, direction)
       PROVE  Inv'
  BY <1>1, <1>11, GetIteratorLeaves, LeavesInv
<1>12. CASE NextIterateNode
  BY <1>1, <1>12, NextIterateNodeLeaves, LeavesInv
<1>13. CASE FreeIterator
  BY <1>1, <1>13, FreeIteratorLeaves, LeavesInv
<1>14. ASSUME NEW l \in List, NEW copy \in List, Duplicate(l, copy) PROVE Inv'
  <2>1. PICK nodes : DuplicateNodes(P, l, copy, nodes)
    BY <1>1, <1>14, DuplicateCopies DEF Holds
  <2>2. QED BY <1>1, <1>14, <2>1, DuplicateLeaves, LeavesInv
<1>15. ASSUME NEW l \in List, NEW copy \in List, DuplicateFails(l, copy) PROVE Inv'
  BY <1>1, <1>15, DuplicateFailsLeaves, LeavesInv
<1>16. CASE UNCHANGED vars
  <2>1. Leaves(P)
    BY <1>1, <1>16, LookLeaves DEF vars, Holds
  <2>2. QED BY <2>1, LeavesInv
<1>17. QED
  BY <1>2, <1>3, <1>4, <1>5, <1>6, <1>7, <1>8, <1>9, <1>10, <1>11, <1>12, <1>13, <1>14,
     <1>15, <1>16 DEF Next

(* The lists, their nodes, the iterator and the counts stay consistent,    *)
(* whatever the calls and however many lists, nodes and values there are.  *)
THEOREM InvHolds == Spec => []Inv
<1>1. Init => Inv
  BY InitInv
<1>2. Inv /\ [Next]_vars => Inv'
  BY NextInv
<1>3. QED BY <1>1, <1>2, PTL DEF Spec

(* The invariant implies the types.                                        *)
LEMMA InvType == Inv => TypeOK
BY DEF Inv, Holds, Wired, Heaps, Lists, Iterators, IsAnswer, TypeOK

(* Every variable has its type in every reachable state.                   *)
THEOREM TypeCorrectness == Spec => []TypeOK
<1>1. Inv => TypeOK
  BY InvType
<1>2. QED BY <1>1, InvHolds, PTL

(* Paths that fit are well linked: the walk back is the walk forth,        *)
(* reversed.                                                               *)
LEMMA InvWellLinked == Inv => ListsAreWellLinked
<1> SUFFICES ASSUME Inv, NEW l \in List PROVE IsWellLinked(l)
  BY DEF ListsAreWellLinked
<1>1. PICK P : Wired(P)
  BY DEF Inv, Holds
<1>2. PICK p, L : /\ p = P[l] /\ L = list[l] /\ IsPath(node, L, p) /\ node \in Heaps
  BY <1>1 DEF Wired, Fit
<1>3. Walk(node, L.head, FROM_HEAD_TO_TAIL) = p
  BY <1>2, WalkIsPath
<1>4. Walk(node, L.tail, FROM_TAIL_TO_HEAD) = Reverse(p)
  BY <1>2, WalkIsReverse
<1>5. p \in Seq(Node) /\ IsInjective(p) /\ L.length = Len(p)
  BY <1>2 DEF IsPath
<1>6. Reverse(Reverse(p)) = p
  <2>1. PICK k \in Nat : k = Len(p)
    BY <1>5
  <2>2. PICK q : q = Reverse(p)
    OBVIOUS
  <2>3. q \in Seq(Node) /\ Len(q) = k /\ \A i \in 1..k : q[i] = p[k - i + 1]
    BY <1>5, <2>1, <2>2 DEF Reverse
  <2>4. PICK r : r = Reverse(q)
    OBVIOUS
  <2>5. r \in Seq(Node) /\ Len(r) = k /\ \A i \in 1..k : r[i] = q[k - i + 1]
    BY <2>3, <2>4 DEF Reverse
  <2>6. ASSUME NEW i \in 1..k PROVE r[i] = p[i]
    <3>1. PICK j \in 1..k : j = k - i + 1 /\ k - j + 1 = i
      OBVIOUS
    <3>2. QED BY <2>3, <2>5, <3>1
  <2>7. r = p
    BY <1>5, <2>1, <2>5, <2>6, SeqEqual
  <2>8. QED BY <2>2, <2>4, <2>7
<1>7. QED BY <1>2, <1>3, <1>4, <1>5, <1>6 DEF IsWellLinked

(* Both walks through a list meet the same length_ nodes, in opposite      *)
(* orders, and end: no call leaves a link, an end or a length behind.      *)
THEOREM ListsStayWellLinked == Spec => []ListsAreWellLinked
<1>1. Inv => ListsAreWellLinked
  BY InvWellLinked
<1>2. QED BY <1>1, InvHolds, PTL

(* Paths that fit share no node and leave none out.                        *)
LEMMA InvOwnedOnce == Inv => NodesAreOwnedOnce
<1> SUFFICES ASSUME Inv, NEW n \in Node
             PROVE  Cardinality({l \in List : n \in NodesOf(l)}) = IF IsNode(n) THEN 1 ELSE 0
  BY DEF NodesAreOwnedOnce
<1>1. PICK P : Wired(P)
  BY DEF Inv, Holds
<1>2. PICK O : O = {l \in List : n \in NodesOf(l)}
  OBVIOUS
<1>3. \A l : l \in O <=> l \in List /\ n \in Range(P[l])
  BY <1>1, <1>2, NodesOfPath
<1>4. CASE IsNode(n)
  <2>1. PICK l \in List : n \in Range(P[l])
    BY <1>1, <1>4 DEF Wired, Fit, IsNode
  <2>2. \A k \in List : k # l => n \notin Range(P[k])
    BY <1>1, <2>1 DEF Wired, Fit
  <2>3. O = {l}
    BY <1>3, <2>1, <2>2
  <2>4. QED BY <1>2, <1>4, <2>3, FS_Singleton
<1>5. CASE ~IsNode(n)
  <2>1. \A l \in List : n \notin Range(P[l])
    BY <1>1, <1>5, FreshIsOutside DEF Wired, IsNode
  <2>2. O = {}
    BY <1>3, <2>1
  <2>3. QED BY <1>2, <1>5, <2>2, FS_EmptySet
<1>6. QED BY <1>4, <1>5

(* A node is in one list as long as it is in the heap: no call leaks a     *)
(* node, frees one that a list still reaches, or puts one in two lists.    *)
THEOREM NodesStayOwnedOnce == Spec => []NodesAreOwnedOnce
<1>1. Inv => NodesAreOwnedOnce
  BY InvOwnedOnce
<1>2. QED BY <1>1, InvHolds, PTL

(* A list that owns its values frees each with its node, once.             *)
THEOREM ValuesStayWithNodes == Spec => []ValuesAreFreedWithNodes
<1>1. Inv => ValuesAreFreedWithNodes
  BY DEF Inv, Holds, Counted, Holders, ValuesAreFreedWithNodes
<1>2. QED BY <1>1, InvHolds, PTL

(* In step means that what is ahead holds all that is due and nothing      *)
(* seen.                                                                   *)
LEMMA InvIteration == Inv => IterationMeetsEveryNodeOnce
<1> SUFFICES ASSUME Inv, iterator.list # NULL
             PROVE  LET ahead == Range(Walk(node, iterator.next, iterator.direction))
                    IN  /\ ahead \subseteq NodesOf(iterator.list)
                        /\ iterator.due \subseteq ahead
                        /\ iterator.seen \cap ahead = {}
  BY DEF IterationMeetsEveryNodeOnce
<1>1. PICK P : Wired(P) /\ IteratorFits(iterator, list, P)
  BY DEF Inv, Holds
<1>2. PICK l, p, L, next, direction :
        /\ l \in List /\ l = iterator.list /\ p = P[l] /\ L = list[l]
        /\ next = iterator.next /\ direction = iterator.direction
        /\ InStep(iterator, p) /\ IsPath(node, L, p) /\ node \in Heaps
  BY <1>1 DEF IteratorFits, Wired, Fit
<1>3. Range(Walk(node, next, direction)) = Ahead(p, next, direction)
  BY <1>2, AheadWalk DEF InStep
<1>4. Ahead(p, next, direction) \subseteq Range(p)
  BY <1>2, AheadIsOnPath DEF IsPath
<1>5. NodesOf(l) = Range(p)
  BY <1>1, <1>2, NodesOfPath
<1>6. QED BY <1>2, <1>3, <1>4, <1>5 DEF InStep

(* A caller of the iterator that deletes no node but the one it got last   *)
(* gets every node that was there at first, and none twice.                *)
THEOREM IterationStaysComplete == Spec => []IterationMeetsEveryNodeOnce
<1>1. Inv => IterationMeetsEveryNodeOnce
  BY InvIteration
<1>2. QED BY <1>1, InvHolds, PTL

-----------------------------------------------------------------------------
(* The pointers implement the sequences.                                   *)

(* The sequences of both modules have the same operators.                  *)
LEMMA SameOperators ==
  /\ \A s, i, e : NodeSeq!InsertAt(s, i, e) = InsertAt(s, i, e)
  /\ \A s, i : NodeSeq!RemoveAt(s, i) = RemoveAt(s, i)
  /\ \A s : /\ NodeSeq!Last(s) = Last(s) /\ NodeSeq!Front(s) = Front(s)
            /\ NodeSeq!Range(s) = Range(s) /\ NodeSeq!IsInjective(s) = IsInjective(s)
BY DEF NodeSeq!InsertAt, InsertAt, NodeSeq!RemoveAt, RemoveAt, NodeSeq!Last, Last,
       NodeSeq!Front, Front, NodeSeq!Range, Range, NodeSeq!IsInjective, IsInjective

(* The sequence of a list is its path.                                     *)
LEMMA SequenceIsPath ==
  ASSUME NEW P, Wired(P), NEW l \in List
  PROVE  /\ IsLive(l) => Sequence[l] = P[l] /\ Sequence[l] # NULL
         /\ ~IsLive(l) => Sequence[l] = NULL
<1>1. Walk(node, list[l].head, FROM_HEAD_TO_TAIL) = P[l]
  BY NodesOfPath
<1>2. P[l] # NULL
  BY NullIsNoSequence DEF Wired, Fit
<1>3. QED BY <1>1, <1>2 DEF Sequence

(* The sequences after a step are the paths that it leaves.                *)
LEMMA SequenceAfter ==
  ASSUME NEW Q, Leaves(Q)
  PROVE  Sequence' = [l \in List |-> IF list'[l].status = "live" THEN Q[l] ELSE NULL]
<1>1. PICK N, S : N = node' /\ S = list'
  OBVIOUS
<1>2. Q = Paths(N, S)
  BY <1>1, PathsAre DEF Leaves
<1>3. \A l \in List : Walk(node', list'[l].head, FROM_HEAD_TO_TAIL) = Q[l]
  BY <1>1, <1>2 DEF Paths
<1>4. QED BY <1>3 DEF Sequence, IsLive

(* One list becomes the sequence q.                                        *)
LEMMA SequenceChanges ==
  ASSUME NEW P, Holds(P), NEW l \in List, NEW q, Leaves([P EXCEPT ![l] = q]),
         NEW K, list' = [list EXCEPT ![l] = K], K.status = "live"
  PROVE  Sequence' = [Sequence EXCEPT ![l] = q]
<1>1. Wired(P) /\ DOMAIN list = List /\ DOMAIN P = List
  BY DEF Holds, Wired, Fit
<1>2. PICK Q : Q = [P EXCEPT ![l] = q]
  OBVIOUS
<1>3. Sequence' = [k \in List |-> IF list'[k].status = "live" THEN Q[k] ELSE NULL]
  BY <1>2, SequenceAfter
<1>4. ASSUME NEW k \in List
      PROVE  (IF list'[k].status = "live" THEN Q[k] ELSE NULL) = IF k = l THEN q ELSE Sequence[k]
  <2>1. CASE k = l
    BY <1>1, <1>2, <2>1
  <2>2. CASE k # l
    <3>1. list'[k] = list[k] /\ Q[k] = P[k]
      BY <1>1, <1>2, <2>2
    <3>2. QED BY <1>1, <2>2, <3>1, SequenceIsPath DEF IsLive
  <2>3. QED BY <2>1, <2>2
<1>5. DOMAIN Sequence = List
  BY DEF Sequence
<1>6. PICK f : f = Sequence
  OBVIOUS
<1>7. Sequence' = [k \in List |-> IF k = l THEN q ELSE f[k]]
  BY <1>3, <1>4, <1>6
<1>8. f = [k \in List |-> f[k]]
  BY <1>6 DEF Sequence
<1>9. [f EXCEPT ![l] = q] = [k \in List |-> IF k = l THEN q ELSE f[k]]
  BY <1>8
<1>10. QED BY <1>6, <1>7, <1>9

(* A list becomes none, or one that is none another.                       *)
LEMMA SequenceEnds ==
  ASSUME NEW P, Holds(P), NEW l \in List, NEW Q, Leaves(Q), \A k \in List \ {l} : Q[k] = P[k],
         NEW K, list' = [list EXCEPT ![l] = K], K.status # "live"
  PROVE  Sequence' = [Sequence EXCEPT ![l] = NULL]
<1>1. Wired(P) /\ DOMAIN list = List
  BY DEF Holds, Wired
<1>2. Sequence' = [k \in List |-> IF list'[k].status = "live" THEN Q[k] ELSE NULL]
  BY SequenceAfter
<1>3. ASSUME NEW k \in List
      PROVE  (IF list'[k].status = "live" THEN Q[k] ELSE NULL) = IF k = l THEN NULL ELSE Sequence[k]
  <2>1. CASE k = l
    BY <1>1, <2>1
  <2>2. CASE k # l
    <3>1. list'[k] = list[k] /\ Q[k] = P[k]
      BY <1>1, <2>2
    <3>2. QED BY <1>1, <2>2, <3>1, SequenceIsPath DEF IsLive
  <2>3. QED BY <2>1, <2>2
<1>4. PICK f : f = Sequence
  OBVIOUS
<1>5. Sequence' = [k \in List |-> IF k = l THEN NULL ELSE f[k]]
  BY <1>2, <1>3, <1>4
<1>6. f = [k \in List |-> f[k]]
  BY <1>4 DEF Sequence
<1>7. [f EXCEPT ![l] = NULL] = [k \in List |-> IF k = l THEN NULL ELSE f[k]]
  BY <1>6
<1>8. QED BY <1>4, <1>5, <1>7

(* One node's value is changed.                                            *)
LEMMA ContentChanges ==
  ASSUME NEW n \in Node, NEW v, node'[n].value = v,
         \A m \in Node \ {n} : node'[m].value = node[m].value
  PROVE  Content' = [Content EXCEPT ![n] = v]
<1>1. Content' = [m \in Node |-> IF m = n THEN v ELSE node[m].value]
  BY DEF Content
<1>2. [Content EXCEPT ![n] = v] = [m \in Node |-> IF m = n THEN v ELSE node[m].value]
  BY DEF Content
<1>3. QED BY <1>1, <1>2

(* There are no sequences at first.                                        *)
LEMMA InitSequences == Init => NodeSeq!Init
<1> SUFFICES ASSUME Init PROVE NodeSeq!Init
  OBVIOUS
<1>1. Sequence = [l \in List |-> NULL]
  BY DEF Init, IsLive, NoList, Sequence
<1>2. Content = [n \in Node |-> NULL]
  BY DEF Init, NoNode, Content
<1>3. QED BY <1>1, <1>2 DEF NodeSeq!Init, Init

(* An insertion is one of the sequence.                                    *)
LEMMA InsertsSequence ==
  ASSUME NEW P, Holds(P), NEW l \in List, NEW i, NEW n \in Node, NEW v \in Value,
         IsLive(l), Inserts(P, l, i, n, v), Leaves([P EXCEPT ![l] = InsertAt(P[l], i, n)])
  PROVE  /\ NodeSeq!Insert(l, i, n, v) /\ NodeSeq!Exists(l) /\ NodeSeq!Fresh(n)
         /\ Sequence[l] = P[l]
<1>1. Wired(P)
  BY DEF Holds
<1>2. Sequence[l] = P[l] /\ Sequence[l] # NULL
  BY <1>1, SequenceIsPath
<1>3. PICK q : q = InsertAt(P[l], i, n)
  OBVIOUS
<1>4. PICK K : list' = [list EXCEPT ![l] = K] /\ K.status = "live"
  BY DEF Inserts
<1>5. Sequence' = [Sequence EXCEPT ![l] = q]
  <2>1. Leaves([P EXCEPT ![l] = q])
    BY <1>3
  <2>2. QED BY <1>4, <2>1, SequenceChanges
<1>6. node'[n].value = v /\ node[n].value = NULL
      /\ \A m \in Node \ {n} : node'[m].value = node[m].value
  BY <1>1, InsertsValues
<1>7. Content' = [Content EXCEPT ![n] = v]
  BY <1>6, ContentChanges
<1>8. Content[n] = NULL
  BY <1>6 DEF Content
<1>9. Sequence' = [Sequence EXCEPT ![l] = NodeSeq!InsertAt(Sequence[l], i, n)]
  BY <1>2, <1>3, <1>5, SameOperators
<1>10. QED BY <1>2, <1>7, <1>8, <1>9 DEF NodeSeq!Insert, NodeSeq!Exists, NodeSeq!Fresh

(* ListAddHeadNode() puts a new node before the sequence.                  *)
LEMMA AddHeadSequence ==
  ASSUME NEW P, Holds(P), NEW l \in List, NEW n \in Node, NEW v \in Value,
         AddHeadNode(l, n, v)
  PROVE  NodeSeq!AddHead(l, n, v)
<1>1. Inserts(P, l, 1, n, v) /\ Leaves([P EXCEPT ![l] = InsertAt(P[l], 1, n)])
  BY AddHeadNodeInserts, AddHeadNodeLeaves DEF Holds
<1>2. IsLive(l) /\ result' = [list |-> l, place |-> "head"]
  BY DEF AddHeadNode
<1>3. NodeSeq!Insert(l, 1, n, v) /\ NodeSeq!Exists(l) /\ NodeSeq!Fresh(n)
  BY <1>1, <1>2, InsertsSequence
<1>4. QED BY <1>2, <1>3 DEF NodeSeq!AddHead

(* ListAddTailNode() puts a new node behind the sequence.                  *)
LEMMA AddTailSequence ==
  ASSUME NEW P, Holds(P), NEW l \in List, NEW n \in Node, NEW v \in Value,
         AddTailNode(l, n, v)
  PROVE  NodeSeq!AddTail(l, n, v)
<1>1. PICK i : i = Len(P[l]) + 1
  OBVIOUS
<1>2. Inserts(P, l, i, n, v) /\ Leaves([P EXCEPT ![l] = InsertAt(P[l], i, n)])
  BY <1>1, AddTailNodeInserts, AddTailNodeLeaves DEF Holds
<1>3. IsLive(l) /\ result' = [list |-> l, place |-> "tail"]
  BY DEF AddTailNode
<1>4. /\ NodeSeq!Insert(l, i, n, v) /\ NodeSeq!Exists(l) /\ NodeSeq!Fresh(n)
      /\ Sequence[l] = P[l]
  BY <1>2, <1>3, InsertsSequence
<1>5. NodeSeq!Insert(l, Len(Sequence[l]) + 1, n, v)
  BY <1>1, <1>4
<1>6. QED BY <1>3, <1>4, <1>5 DEF NodeSeq!AddTail

(* ListInsertNode() puts a new node next to an old one.                    *)
LEMMA InsertNextSequence ==
  ASSUME NEW P, Holds(P), NEW l \in List, NEW old \in Node, NEW n \in Node,
         NEW v \in Value, NEW after \in BOOLEAN, InsertNode(l, old, n, v, after)
  PROVE  NodeSeq!InsertNext(l, old, after, n, v)
<1>1. PICK i \in 1..Len(P[l]) :
        P[l][i] = old /\ Inserts(P, l, IF after THEN i + 1 ELSE i, n, v)
  BY InsertNodeInserts DEF Holds
<1>2. PICK j : j = IF after THEN i + 1 ELSE i
  OBVIOUS
<1>3. Inserts(P, l, j, n, v) /\ UNCHANGED iterator /\ IsAnswer(result')
      /\ allocated' = Made(allocated, <<v>>)
  BY <1>1, <1>2 DEF InsertNode, IsAnswer
<1>4. Leaves([P EXCEPT ![l] = InsertAt(P[l], j, n)])
  BY <1>3, InsertsLeaves
<1>5. IsLive(l) /\ result' = [list |-> l, place |-> old, after |-> after]
  BY DEF InsertNode
<1>6. /\ NodeSeq!Insert(l, j, n, v) /\ NodeSeq!Exists(l) /\ NodeSeq!Fresh(n)
      /\ Sequence[l] = P[l]
  BY <1>3, <1>4, <1>5, InsertsSequence
<1>7. i \in DOMAIN Sequence[l] /\ Sequence[l][i] = old
  <2>1. P[l] \in Seq(Node)
    BY DEF Holds, Wired, Fit
  <2>2. QED BY <1>1, <1>6, <2>1
<1>8. NodeSeq!Insert(l, IF after THEN i + 1 ELSE i, n, v)
  BY <1>2, <1>6
<1>9. QED BY <1>5, <1>6, <1>7, <1>8 DEF NodeSeq!InsertNext

(* ListDeleteNode() takes a node out.                                      *)
LEMMA DeleteSequence ==
  ASSUME NEW P, Holds(P), NEW l \in List, NEW n \in Node, DeleteNode(l, n)
  PROVE  NodeSeq!Delete(l, n)
<1>1. Wired(P) /\ P[l] \in Seq(Node) /\ IsInjective(P[l])
  BY DEF Holds, Wired, Fit, IsPath
<1>2. PICK i \in 1..Len(P[l]) : P[l][i] = n /\ Removes(P, l, i)
  BY <1>1, DeleteNodeRemoves
<1>3. PICK j \in 1..Len(P[l]) : P[l][j] = n /\ Leaves([P EXCEPT ![l] = RemoveAt(P[l], j)])
  BY DeleteNodeLeaves
<1>4. i = j
  BY <1>1, <1>2, <1>3, InjectivePositions
<1>5. PICK q : q = RemoveAt(P[l], i) /\ Leaves([P EXCEPT ![l] = q])
  BY <1>3, <1>4
<1>6. PICK K : list' = [list EXCEPT ![l] = K] /\ K.status = "live"
  BY <1>2 DEF Removes
<1>7. Sequence' = [Sequence EXCEPT ![l] = q]
  <2>1. Leaves([P EXCEPT ![l] = q])
    BY <1>5
  <2>2. QED BY <1>6, <2>1, SequenceChanges
<1>8. IsLive(l) /\ result' = NULL
  BY DEF DeleteNode
<1>9. Sequence[l] = P[l] /\ Sequence[l] # NULL
  BY <1>1, <1>8, SequenceIsPath
<1>10. /\ node[n].value \in Value /\ node'[n].value = NULL
       /\ \A m \in Node \ {n} : node'[m].value = node[m].value
  BY <1>1, <1>2, RemovesValues
<1>11. Content' = [Content EXCEPT ![n] = NULL]
  BY <1>10, ContentChanges
<1>12. Content[n] # NULL
  BY <1>10, NullAssumption DEF Content
<1>13. i \in DOMAIN Sequence[l] /\ Sequence[l][i] = n
  BY <1>1, <1>2, <1>9
<1>14. Sequence' = [Sequence EXCEPT ![l] = NodeSeq!RemoveAt(Sequence[l], i)]
  BY <1>5, <1>7, <1>9, SameOperators
<1>15. QED BY <1>8, <1>9, <1>11, <1>12, <1>13, <1>14 DEF NodeSeq!Delete, NodeSeq!Exists, NodeSeq!Fresh

(* ListFree() ends the sequence and its nodes.                             *)
LEMMA FreeSequence ==
  ASSUME NEW P, Holds(P), NEW l \in List, Free(l)
  PROVE  NodeSeq!Free(l)
<1>1. Wired(P) /\ IsLive(l) /\ result' = NULL
  BY DEF Holds, Free
<1>2. Sequence[l] = P[l] /\ Sequence[l] # NULL
  BY <1>1, SequenceIsPath
<1>3. PICK Q : Leaves(Q) /\ \A k \in List \ {l} : Q[k] = P[k]
  <2>1. PICK Q : Q = [P EXCEPT ![l] = <<>>]
    OBVIOUS
  <2>2. Leaves(Q)
    BY <2>1, FreeLeaves
  <2>3. \A k \in List \ {l} : Q[k] = P[k]
    BY <1>1, <2>1 DEF Wired, Fit
  <2>4. QED BY <2>2, <2>3
<1>4. PICK K : list' = [list EXCEPT ![l] = K] /\ K.status # "live"
  <2>1. PICK K : K = NoList("absent")
    OBVIOUS
  <2>2. K.status # "live"
    BY <2>1 DEF NoList
  <2>3. QED BY <2>1, <2>2 DEF Free
<1>5. Sequence' = [Sequence EXCEPT ![l] = NULL]
  BY <1>3, <1>4, SequenceEnds
<1>6. PICK R : R = Range(P[l])
  OBVIOUS
<1>7. node' = [n \in Node |-> IF n \in R THEN NoNode ELSE node[n]]
  <2>1. node' = [n \in Node |-> IF n \in Range(P[l]) THEN NoNode ELSE node[n]]
    BY <1>1, FreeFit
  <2>2. QED BY <1>6, <2>1
<1>8. Content' = [n \in Node |-> IF n \in R THEN NULL ELSE Content[n]]
  BY <1>7 DEF Content, NoNode
<1>9. R = NodeSeq!Range(Sequence[l])
  BY <1>2, <1>6, SameOperators
<1>10. QED BY <1>1, <1>2, <1>5, <1>8, <1>9 DEF NodeSeq!Free, NodeSeq!Exists

(* ListCreate() begins an empty sequence.                                  *)
LEMMA CreateSequence ==
  ASSUME NEW P, Holds(P), NEW l \in List, Create(l)
  PROVE  NodeSeq!Create(l)
<1>1. Wired(P) /\ ~IsLive(l) /\ result' = l /\ UNCHANGED node
  BY DEF Holds, Create, IsLive
<1>2. Sequence[l] = NULL
  BY <1>1, SequenceIsPath
<1>3. Leaves(P) /\ P[l] = <<>>
  BY CreateLeaves
<1>4. PICK e : e = <<>>
  OBVIOUS
<1>5. [P EXCEPT ![l] = e] = P
  BY <1>1, <1>3, <1>4 DEF Wired, Fit
<1>6. PICK K : list' = [list EXCEPT ![l] = K] /\ K.status = "live"
  <2>1. PICK K : K = NoList("live")
    OBVIOUS
  <2>2. K.status = "live"
    BY <2>1 DEF NoList
  <2>3. QED BY <2>1, <2>2 DEF Create
<1>7. Leaves([P EXCEPT ![l] = e])
  BY <1>3, <1>5
<1>8. Sequence' = [Sequence EXCEPT ![l] = e]
  BY <1>6, <1>7, SequenceChanges
<1>9. Content' = Content
  BY <1>1 DEF Content
<1>10. QED BY <1>1, <1>2, <1>4, <1>8, <1>9 DEF NodeSeq!Create, NodeSeq!Exists

(* ListRotate() puts the last node first.                                  *)
LEMMA RotateSequence ==
  ASSUME NEW P, Holds(P), NEW l \in List, Rotate(l)
  PROVE  NodeSeq!Rotate(l)
<1>1. Wired(P) /\ IsLive(l) /\ result' = result
  BY DEF Holds, Rotate
<1>2. PICK p, q : p = P[l] /\ q = IF Len(p) <= 1 THEN p ELSE <<Last(p)>> \o Front(p)
  OBVIOUS
<1>3. Sequence[l] = p /\ Sequence[l] # NULL
  BY <1>1, <1>2, SequenceIsPath
<1>4. Leaves([P EXCEPT ![l] = q])
  <2>1. Leaves([P EXCEPT ![l] = IF Len(P[l]) <= 1 THEN P[l] ELSE <<Last(P[l])>> \o Front(P[l])])
    BY RotateLeaves
  <2>2. QED BY <1>2, <2>1
<1>5. /\ \E K : list' = [list EXCEPT ![l] = K] /\ K.status = "live"
      /\ \A n \in Node : node'[n].value = node[n].value
  <2>1. CASE ~HasSeveral(l)
    <3>1. UNCHANGED <<list, node>>
      BY <1>1, <2>1 DEF Rotate, HasSeveral, Wired, Lists
    <3>2. list' = [list EXCEPT ![l] = list[l]] /\ list[l].status = "live"
      BY <1>1, <3>1 DEF Wired, IsLive
    <3>3. QED BY <3>1, <3>2
  <2>2. CASE HasSeveral(l)
    <3>1. PICK K : list' = [list EXCEPT ![l] = K] /\ K.status = "live"
      BY <1>1, <2>2, RotateRotates
    <3>2. RotatedHeap(node, node', P[l])
      BY <1>1, <2>2, RotateRotates
    <3>3. \A j \in 1..Len(P[l]) : node'[P[l][j]].value = node[P[l][j]].value
      BY <3>2 DEF RotatedHeap
    <3>4. \A m \in Node \ Range(P[l]) : node'[m] = node[m]
      BY <3>2 DEF RotatedHeap
    <3>5. \A n : n \in Range(P[l]) <=> \E j \in 1..Len(P[l]) : P[l][j] = n
      BY <1>1, RangePositions DEF Wired, Fit
    <3>6. \A n \in Node : node'[n].value = node[n].value
      BY <3>3, <3>4, <3>5
    <3>7. QED BY <3>1, <3>6
  <2>3. QED BY <2>1, <2>2
<1>6. PICK K : list' = [list EXCEPT ![l] = K] /\ K.status = "live"
  BY <1>5
<1>7. Sequence' = [Sequence EXCEPT ![l] = q]
  BY <1>4, <1>6, SequenceChanges
<1>8. Content' = Content
  BY <1>5 DEF Content
<1>9. q = IF Len(p) <= 1 THEN p ELSE <<NodeSeq!Last(p)>> \o NodeSeq!Front(p)
  BY <1>2, SameOperators
<1>10. QED BY <1>1, <1>3, <1>7, <1>8, <1>9 DEF NodeSeq!Rotate, NodeSeq!Exists

(* The iterator is no part of the sequences.                               *)
LEMMA UnchangedSequence ==
  ASSUME UNCHANGED <<list, node>>
  PROVE  UNCHANGED <<Sequence, Content>>
BY DEF Sequence, Content, IsLive

(* ListSearchKey() answers with the first node that has the value.         *)
LEMMA SearchSequence ==
  ASSUME NEW P, Holds(P), NEW l \in List, NEW v \in Value, SearchKey(l, v)
  PROVE  NodeSeq!Search(l, v)
<1>1. Wired(P) /\ IsLive(l) /\ UNCHANGED <<list, node>>
  BY DEF Holds, SearchKey
<1>2. PICK p \in Seq(Node) : p = P[l]
  BY <1>1 DEF Wired, Fit
<1>3. /\ Sequence[l] = p /\ Sequence[l] # NULL
      /\ Walk(node, list[l].head, FROM_HEAD_TO_TAIL) = p
  BY <1>1, <1>2, SequenceIsPath, NodesOfPath
<1>4. UNCHANGED <<Sequence, Content>>
  BY <1>1, UnchangedSequence
<1>5. PICK I, i : /\ I = {j \in 1..Len(p) : node[p[j]].value = v}
                  /\ i = IF I # {} THEN Min(I) ELSE 0
  OBVIOUS
<1>6. result' = [key |-> v, found |-> IF i = 0 THEN NULL ELSE p[i]]
  BY <1>3, <1>5 DEF SearchKey, SelectInSeq
<1>7. I = {j \in 1..Len(p) : Content[p[j]] = v}
  <2>1. \A j \in 1..Len(p) : Content[p[j]] = node[p[j]].value
    BY DEF Content
  <2>2. QED BY <1>5, <2>1
<1>8. Min(I) = NodeSeq!Min(I)
  BY DEF Min, NodeSeq!Min
<1>9. i = NodeSeq!SelectInSeq(Sequence[l], LAMBDA n : Content[n] = v)
  BY <1>3, <1>5, <1>7, <1>8 DEF NodeSeq!SelectInSeq
<1>10. QED BY <1>3, <1>4, <1>6, <1>9 DEF NodeSeq!Search, NodeSeq!Exists

(* ListIndex() answers with the node at the place.                         *)
LEMMA IndexSequence ==
  ASSUME NEW P, Holds(P), NEW l \in List, NEW i \in -1..Cardinality(Node), Index(l, i)
  PROVE  NodeSeq!Index(l, i)
<1>1. Wired(P) /\ IsLive(l) /\ UNCHANGED <<list, node>>
  BY DEF Holds, Index
<1>2. PICK p \in Seq(Node) : p = P[l]
  BY <1>1 DEF Wired, Fit
<1>3. Sequence[l] = p /\ Sequence[l] # NULL
  BY <1>1, <1>2, SequenceIsPath
<1>4. UNCHANGED <<Sequence, Content>>
  BY <1>1, UnchangedSequence
<1>5. result' = [index |-> i, found |-> IF i + 1 \in 1..Len(P[l]) THEN P[l][i + 1] ELSE NULL]
  BY IndexLeaves
<1>6. result' = [index |-> i, found |-> IF i + 1 \in DOMAIN p THEN p[i + 1] ELSE NULL]
  BY <1>2, <1>5
<1>7. QED BY <1>3, <1>4, <1>6 DEF NodeSeq!Index, NodeSeq!Exists

(* A copy that failed is no sequence.                                      *)
LEMMA CopyFailsSequence ==
  ASSUME NEW P, Holds(P), NEW l \in List, NEW copy \in List, DuplicateFails(l, copy)
  PROVE  NodeSeq!CopyFails(l, copy)
<1>1. /\ Wired(P) /\ IsLive(l) /\ list[copy].status = "absent" /\ ~IsLive(copy)
      /\ result' = copy
  BY DEF Holds, DuplicateFails, IsLive
<1>2. Sequence[l] = P[l] /\ Sequence[l] # NULL /\ Sequence[copy] = NULL
  BY <1>1, SequenceIsPath
<1>3. P[l] # <<>>
  <2>1. PICK i : i \in 1..list[l].length
    BY DEF DuplicateFails
  <2>2. list[l].length = Len(P[l])
    BY <1>1 DEF Wired, Fit, IsPath
  <2>3. QED BY <2>1, <2>2
<1>4. Sequence' = Sequence
  <2>1. PICK K : K = NoList("dangling")
    OBVIOUS
  <2>2. list' = [list EXCEPT ![copy] = K] /\ K.status # "live"
    BY <2>1 DEF DuplicateFails, NoList
  <2>3. Leaves(P)
    BY DuplicateFailsLeaves
  <2>4. Sequence' = [Sequence EXCEPT ![copy] = NULL]
    BY <2>2, <2>3, SequenceEnds
  <2>5. QED BY <1>2, <2>4 DEF Sequence
<1>5. Content' = Content
  <2>1. node' = node
    BY <1>1, DuplicateFailsRestores DEF Holds
  <2>2. QED BY <2>1 DEF Content
<1>6. QED BY <1>1, <1>2, <1>3, <1>4, <1>5 DEF NodeSeq!CopyFails, NodeSeq!Exists

(* ListDuplicate() makes a sequence of new nodes with the same values.     *)
LEMMA DuplicateSequence ==
  ASSUME NEW P, Holds(P), NEW l \in List, NEW copy \in List, Duplicate(l, copy)
  PROVE  NodeSeq!Duplicate(l, copy)
<1>1. Wired(P) /\ IsLive(l) /\ list[copy].status = "absent" /\ ~IsLive(copy) /\ result' = copy
  BY DEF Holds, Duplicate, IsLive
<1>2. PICK nodes : DuplicateNodes(P, l, copy, nodes)
  BY <1>1, DuplicateCopies
<1>3. PICK p \in Seq(Node), k \in Nat : p = P[l] /\ k = Len(p)
  BY <1>1 DEF Wired, Fit
<1>4. /\ nodes \in Seq(Node) /\ Len(nodes) = k /\ IsInjective(nodes)
      /\ \A i \in 1..k : node[nodes[i]] = NoNode
  BY <1>2, <1>3 DEF DuplicateNodes, IsCopy
<1>5. Sequence[l] = p /\ Sequence[l] # NULL /\ Sequence[copy] = NULL
  BY <1>1, <1>3, SequenceIsPath
<1>6. nodes \in [DOMAIN p -> {n \in Node : Content[n] = NULL}]
  <2>1. DOMAIN p = 1..k /\ DOMAIN nodes = 1..k
    BY <1>3, <1>4
  <2>2. \A i \in 1..k : nodes[i] \in Node /\ Content[nodes[i]] = NULL
    BY <1>4 DEF Content, NoNode
  <2>3. nodes = [i \in 1..k |-> nodes[i]]
    BY <1>4
  <2>4. QED BY <2>1, <2>2, <2>3
<1>7. Sequence' = [Sequence EXCEPT ![copy] = nodes]
  <2>1. PICK K : list' = [list EXCEPT ![copy] = K]
    BY <1>2 DEF DuplicateNodes
  <2>2. list'[copy].status = "live"
    BY <1>1, <1>2, DuplicateFit
  <2>3. K.status = "live"
    BY <1>1, <2>1, <2>2 DEF Wired
  <2>4. Leaves([P EXCEPT ![copy] = nodes])
    BY <1>2, DuplicateLeaves
  <2>5. QED BY <2>1, <2>3, <2>4, SequenceChanges
<1>8. /\ \A i \in 1..k : node'[nodes[i]].value = node[p[i]].value
      /\ \A m \in Node \ Range(nodes) : node'[m] = node[m]
  <2>1. CopiedValues(P, l, nodes)
    BY <1>1, <1>2, DuplicateFit
  <2>2. QED BY <1>3, <2>1 DEF CopiedValues
<1>9. PICK R : R = Range(nodes)
  OBVIOUS
<1>10. ASSUME NEW n \in Node
       PROVE  node'[n].value = IF n \in R THEN Content[p[CHOOSE i \in DOMAIN nodes : nodes[i] = n]]
                               ELSE Content[n]
  <2>1. CASE n \in R
    <3>1. \E i \in DOMAIN nodes : nodes[i] = n
      BY <1>9, <2>1 DEF Range
    <3>2. PICK i : i = CHOOSE j \in DOMAIN nodes : nodes[j] = n
      OBVIOUS
    <3>3. i \in 1..k /\ nodes[i] = n
      BY <1>4, <3>1, <3>2
    <3>4. p[i] \in Node
      BY <1>3, <3>3
    <3>5. node'[n].value = Content[p[i]]
      BY <1>8, <3>3, <3>4 DEF Content
    <3>6. QED BY <2>1, <3>2, <3>5
  <2>2. CASE n \notin R
    BY <1>8, <1>9, <2>2 DEF Content
  <2>3. QED BY <2>1, <2>2
<1>11. Content' = [n \in Node |->
         IF n \in R THEN Content[p[CHOOSE i \in DOMAIN nodes : nodes[i] = n]] ELSE Content[n]]
  BY <1>10 DEF Content
<1>12. R = NodeSeq!Range(nodes) /\ NodeSeq!IsInjective(nodes)
  BY <1>4, <1>9, SameOperators
<1>13. nodes \in [DOMAIN Sequence[l] -> {n \in Node : NodeSeq!Fresh(n)}]
  BY <1>5, <1>6 DEF NodeSeq!Fresh
<1>14. Content' = [n \in Node |->
         IF n \in NodeSeq!Range(nodes)
         THEN Content[Sequence[l][CHOOSE i \in DOMAIN nodes : nodes[i] = n]] ELSE Content[n]]
  BY <1>5, <1>11, <1>12
<1>15. NodeSeq!Exists(l) /\ ~NodeSeq!Exists(copy)
  BY <1>5 DEF NodeSeq!Exists
<1>16. QED BY <1>1, <1>7, <1>12, <1>13, <1>14, <1>15 DEF NodeSeq!Duplicate

(* Every step is a step of the sequences, or does not touch them.          *)
LEMMA NextSequences == Inv /\ [Next]_vars => [NodeSeq!Next]_(NodeSeq!vars)
<1> SUFFICES ASSUME Inv, [Next]_vars PROVE [NodeSeq!Next]_(NodeSeq!vars)
  OBVIOUS
<1>1. PICK P : Holds(P)
  BY DEF Inv
<1>2. ASSUME NEW l \in List, Create(l) PROVE NodeSeq!Next
  BY <1>1, <1>2, CreateSequence DEF NodeSeq!Next
<1>3. ASSUME NEW l \in List, Free(l) PROVE NodeSeq!Next
  BY <1>1, <1>3, FreeSequence DEF NodeSeq!Next
<1>4. ASSUME NEW l \in List, NEW n \in Node, NEW v \in Value, AddHeadNode(l, n, v)
      PROVE  NodeSeq!Next
  BY <1>1, <1>4, AddHeadSequence DEF NodeSeq!Next
<1>5. ASSUME NEW l \in List, NEW n \in Node, NEW v \in Value, AddTailNode(l, n, v)
      PROVE  NodeSeq!Next
  BY <1>1, <1>5, AddTailSequence DEF NodeSeq!Next
<1>6. ASSUME NEW l \in List, NEW old \in Node, NEW n \in Node, NEW v \in Value,
             NEW after \in BOOLEAN, InsertNode(l, old, n, v, after)
      PROVE  NodeSeq!Next
  BY <1>1, <1>6, InsertNextSequence DEF NodeSeq!Next
<1>7. ASSUME NEW l \in List, NEW n \in Node, DeleteNode(l, n) PROVE NodeSeq!Next
  BY <1>1, <1>7, DeleteSequence DEF NodeSeq!Next
<1>8. ASSUME NEW l \in List, Rotate(l) PROVE NodeSeq!Next
  BY <1>1, <1>8, RotateSequence DEF NodeSeq!Next
<1>9. ASSUME NEW l \in List, NEW v \in Value, SearchKey(l, v) PROVE NodeSeq!Next
  BY <1>1, <1>9, SearchSequence DEF NodeSeq!Next
<1>10. ASSUME NEW l \in List, NEW i \in -1..Cardinality(Node), Index(l, i) PROVE NodeSeq!Next
  <2>1. Cardinality(Node) = NodeSeq!Cardinality(Node)
    BY Zenon DEF Cardinality, NodeSeq!Cardinality
  <2>2. i \in -1..NodeSeq!Cardinality(Node) /\ NodeSeq!Index(l, i)
    BY <1>1, <1>10, <2>1, IndexSequence
  <2>3. QED BY <2>2 DEF NodeSeq!Next
<1>11. ASSUME NEW l \in List, NEW direction \in {FROM_HEAD_TO_TAIL, FROM_TAIL_TO_HEAD},
              GetIterator(l, direction)
       PROVE  UNCHANGED NodeSeq!vars
  BY <1>11, UnchangedSequence DEF GetIterator, NodeSeq!vars
<1>12. CASE NextIterateNode
  BY <1>12, UnchangedSequence DEF NextIterateNode, NodeSeq!vars
<1>13. CASE FreeIterator
  BY <1>13, UnchangedSequence DEF FreeIterator, NodeSeq!vars
<1>14. ASSUME NEW l \in List, NEW copy \in List, Duplicate(l, copy) PROVE NodeSeq!Next
  BY <1>1, <1>14, DuplicateSequence DEF NodeSeq!Next
<1>15. ASSUME NEW l \in List, NEW copy \in List, DuplicateFails(l, copy) PROVE NodeSeq!Next
  BY <1>1, <1>15, CopyFailsSequence DEF NodeSeq!Next
<1>16. CASE UNCHANGED vars
  BY <1>16, UnchangedSequence DEF vars, NodeSeq!vars
<1>17. QED
  BY <1>2, <1>3, <1>4, <1>5, <1>6, <1>7, <1>8, <1>9, <1>10, <1>11, <1>12, <1>13, <1>14,
     <1>15, <1>16 DEF Next

(* Links, ends, lengths and iterators implement what the header promises:  *)
(* every call does to the pointers what it promises to do to a sequence of *)
(* nodes with values, and returns the same answer.                         *)
THEOREM PointersImplementSequences == Spec => ImplementsNodeSequences
<1>1. Init => NodeSeq!Init
  BY InitSequences
<1>2. Inv /\ [Next]_vars => [NodeSeq!Next]_(NodeSeq!vars)
  BY NextSequences
<1>3. QED BY <1>1, <1>2, InvHolds, PTL DEF Spec, ImplementsNodeSequences, NodeSeq!Spec

=============================================================================
