------------------------------ MODULE SkipList ------------------------------
(***************************************************************************)
(* The skip list of nosql/skip_list.c over objects with reference counts.  *)
(*                                                                         *)
(* The file does not compile at this commit.  It is read as its comments   *)
(* and the rest of its code demand:                                        *)
(*   skip_list.h:19: level_[] is the last member of a node                 *)
(*   line 96:  skip_list->level_[level] is skip_list->head_->level_[level] *)
(*   line 123: levle_ is level_;    line 138: level[0] is level_[0]        *)
(*   line 29:  SkipListCreate() returns skip_list                          *)
(* SkipListRandomLevel() and CompareStringObjects() are nowhere defined:   *)
(* the one returns any level, the other orders objects by name.            *)
(***************************************************************************)
EXTENDS Objects, SequencesExt

CONSTANTS
  Node,                  \* bound: the nodes that can exist at a time
  HeadNode,              \* the head node
  Score,                 \* bound: the scores in use, none of them NaN
  Name,                  \* the string of each object
  NULL,
  SKIP_LIST_MAX_LEVEL

ASSUME SkipListAssumption ==
  /\ IsFiniteSet(Node)
  /\ HeadNode \notin Node /\ NULL \notin Node \cup {HeadNode}
  /\ Score \subseteq Int /\ Name \in [Object -> Int]
  /\ SKIP_LIST_MAX_LEVEL \in Nat \ {0}

VARIABLES
  skip_list,  \* tail_, length_ and level_, or NULL
  node        \* the heap: the SkipListNode at each address, or NULL

vars == <<skip_list, node, reference_count, held>>

-----------------------------------------------------------------------------
Level == 0..(SKIP_LIST_MAX_LEVEL - 1)

SkipListNode(level) ==
  [object   : Object \cup {NULL},
   score    : Int,
   forward  : [0..(level - 1) -> Node \cup {NULL}],
   span     : [0..(level - 1) -> Nat],
   backward : Node \cup {HeadNode, NULL}]

ASSUME NullAssumption ==
  /\ \A level \in 1..SKIP_LIST_MAX_LEVEL : NULL \notin SkipListNode(level)
  /\ NULL \notin [tail : Node \cup {NULL}, length : Nat, level : 1..SKIP_LIST_MAX_LEVEL]
  /\ NULL \notin Seq([object : Object, score : Score])

(* SkipListCreateNode(): Calloc() makes links NULL and spans 0.            *)
NewNode(object, score, level) ==
  [object   |-> object,
   score    |-> score,
   forward  |-> [l \in 0..(level - 1) |-> NULL],
   span     |-> [l \in 0..(level - 1) |-> 0],
   backward |-> NULL]

(* Mutant: objects of the same score are not compared.                     *)
BeforeByScore(n, object, score) == node[n].score < score

(* The new node comes behind n.                                            *)
IsBefore(n, object, score) ==
  \/ node[n].score < score
  \/ node[n].score = score /\ Name[node[n].object] < Name[object]

(* One round of the loops of SkipListInsert(): to the next node of the     *)
(* level, if that is before the new one; if not, the level's previous[] and *)
(* rank[] are found, and the search goes on from there one level down.     *)
SearchRound(s, object, score) ==
  LET next == node[s.at].forward[s.level]
  IN  IF s.level < 0 THEN s
      ELSE IF next # NULL /\ IsBefore(next, object, score)
      THEN [s EXCEPT !.at = next, !.rank = @ + node[s.at].span[s.level]]
      ELSE [s EXCEPT !.path[s.level] = [previous |-> s.at, rank |-> s.rank], !.level = @ - 1]

(* previous[l] and rank[l] for each level, the head for those that the     *)
(* list does not have yet.                                                 *)
Search(object, score) ==
  LET rounds == Cardinality(Node) + SKIP_LIST_MAX_LEVEL
      search[k \in 0..rounds] ==
        IF k = 0
        THEN [at |-> HeadNode, rank |-> 0, level |-> skip_list.level - 1,
              path |-> [l \in Level |-> [previous |-> HeadNode, rank |-> 0]]]
        ELSE SearchRound(search[k - 1], object, score)
  IN  search[rounds].path

(* The span of previous[l] before the insertion: for a level that is new,  *)
(* the whole list.                                                         *)
OldSpan(path, l) ==
  IF l < skip_list.level THEN node[path[l].previous].span[l] ELSE skip_list.length

(* Mutant: the first node points back to the head.                         *)
BackwardToHead(path) == path[0].previous

Backward(path) ==
  IF path[0].previous = HeadNode THEN NULL ELSE path[0].previous

(* The new node takes what is behind its place of the old spans.           *)
Inserted(path, object, score, level) ==
  [NewNode(object, score, level) EXCEPT
     !.forward  = [l \in DOMAIN @ |-> node[path[l].previous].forward[l]],
     !.span     = [l \in DOMAIN @ |-> OldSpan(path, l) - path[0].rank + path[l].rank],
     !.backward = Backward(path)]

(* Mutant: levels above the new node's keep their spans.                   *)
SpanWithin(path, l, level) ==
  IF l < level THEN path[0].rank + 1 - path[l].rank ELSE OldSpan(path, l)

(* The span of previous[l] afterwards: up to the new node, or one more     *)
(* where the new node has no such level.                                   *)
NewSpan(path, l, level) ==
  IF l < level THEN path[0].rank + 1 - path[l].rank ELSE OldSpan(path, l) + 1

(* Node p of the list after new was inserted: its links and spans change   *)
(* on the levels where it is the previous node.                            *)
Relinked(p, path, new, level) ==
  LET levels  == {l \in DOMAIN node[p].forward :
                    path[l].previous = p /\ l < Max({level, skip_list.level})}
      behind0 == node[path[0].previous].forward[0]
  IN  [node[p] EXCEPT
         !.forward  = [l \in DOMAIN @ |-> IF l \in levels /\ l < level THEN new ELSE @[l]],
         !.span     = [l \in DOMAIN @ |-> IF l \in levels THEN NewSpan(path, l, level)
                                          ELSE @[l]],
         !.backward = IF p = behind0 THEN new ELSE @]

(* The nodes of heap N that have a level.                                  *)
NodesOn(N, l) == {n \in Node : N[n] # NULL /\ l \in DOMAIN N[n].forward}

(* The nodes that are linked on a level, from the first on; if they make a *)
(* cycle, one more than there are.                                         *)
Linked(N, l) ==
  LET walk[k \in 0..(Cardinality(Node) + 1)] ==
        [n \in NodesOn(N, l) \cup {NULL} |->
           IF n = NULL \/ k = 0 THEN <<>> ELSE <<n>> \o walk[k - 1][N[n].forward[l]]]
  IN  IF N[HeadNode] = NULL THEN <<>>
      ELSE walk[Cardinality(Node) + 1][N[HeadNode].forward[l]]

-----------------------------------------------------------------------------
Init ==
  /\ skip_list = NULL
  /\ node = [n \in Node \cup {HeadNode} |-> NULL]
  /\ InitObjects

(* Mutant: the list starts without a level.                                *)
NoLevel == [tail |-> NULL, length |-> 0, level |-> 0]

EmptyList == [tail |-> NULL, length |-> 0, level |-> 1]

Create ==
  /\ skip_list = NULL
  /\ skip_list' = EmptyList
  /\ node' = [node EXCEPT ![HeadNode] = NewNode(NULL, 0, SKIP_LIST_MAX_LEVEL)]
  /\ UNCHANGED objectVars

(* The caller's reference goes to the new node: no count changes.          *)
Insert(object, score, new, level) ==
  /\ skip_list # NULL
  /\ held[object] > 0 /\ node[new] = NULL
  /\ LET path == Search(object, score)
         made == Inserted(path, object, score, level)
     IN  /\ node' = [n \in DOMAIN node |->
              IF n = new THEN made
              ELSE IF node[n] = NULL THEN NULL ELSE Relinked(n, path, new, level)]
         /\ skip_list' =
              [tail   |-> IF made.forward[0] = NULL THEN new ELSE skip_list.tail,
               length |-> skip_list.length + 1,
               level  |-> Max({level, skip_list.level})]
  /\ held' = [held EXCEPT ![object] = @ - 1]
  /\ UNCHANGED reference_count

(* SkipListFree() and SkipListFreeNode(): the head, and then the nodes by  *)
(* their links of level 0, each with a reference to its object.            *)
Free ==
  /\ skip_list # NULL
  /\ skip_list' = NULL
  /\ LET all == Linked(node, 0)
         counts[i \in 0..Len(all)] ==
           IF i = 0 THEN reference_count
           ELSE DecreaseReferenceCount(counts[i - 1], node[all[i]].object)
     IN  /\ node' = [n \in DOMAIN node |->
                       IF n = HeadNode \/ n \in ToSet(all) THEN NULL ELSE node[n]]
         /\ reference_count' = counts[Len(all)]
  /\ UNCHANGED held

Next ==
  \/ Create
  \/ \E o \in Object, score \in Score, new \in Node, level \in 1..SKIP_LIST_MAX_LEVEL :
       Insert(o, score, new, level)
  \/ Free
  \/ \E o \in Object : (NewObject(o) \/ Retain(o) \/ Release(o)) /\ UNCHANGED <<skip_list, node>>

Spec == Init /\ [][Next]_vars

-----------------------------------------------------------------------------
(* Every variable has its type.                                            *)
TypeOK ==
  /\ skip_list = NULL \/ skip_list \in
       [tail : Node \cup {NULL}, length : Nat, level : 1..SKIP_LIST_MAX_LEVEL]
  /\ DOMAIN node = Node \cup {HeadNode}
  /\ \A n \in DOMAIN node :
       node[n] = NULL \/ \E level \in 1..SKIP_LIST_MAX_LEVEL : node[n] \in SkipListNode(level)
  /\ reference_count \in [Object -> Nat \cup {Freed}]
  /\ held \in [Object -> 0..MaxHeld]

(* The place of a node in the list; of the head, 0; of the end, that of    *)
(* the last node.                                                          *)
Rank(n) ==
  IF n = HeadNode THEN 0
  ELSE IF n = NULL THEN skip_list.length
  ELSE SelectInSeq(Linked(node, 0), LAMBDA m : m = n)

(* "The number of links between this node and the forward_ node"           *)
(* (skip_list.h:18): on every level of the list, whatever levels the nodes *)
(* before and after were given, the spans add up to places.                *)
SpansMeasureRanks ==
  skip_list # NULL =>
    \A n \in {m \in DOMAIN node : node[m] # NULL} :
      \A l \in DOMAIN node[n].forward :
        l < skip_list.level =>
          node[n].span[l] = Rank(node[n].forward[l]) - Rank(n)

(* Each level links the nodes that have it, in the order of level 0, and   *)
(* level_ is the highest; backward_ and tail_ are level 0 read from the    *)
(* end; length_ nodes are linked, and no others are left in the heap, nor  *)
(* any without a list.                                                     *)
LevelsAgree ==
  IF skip_list = NULL THEN \A n \in DOMAIN node : node[n] = NULL
  ELSE
    LET all == Linked(node, 0)
    IN  /\ IsInjective(all)
        /\ ToSet(all) = {n \in Node : node[n] # NULL}
        /\ Len(all) = skip_list.length
        /\ \A l \in Level :
             LET nodes == Linked(node, l)
             IN  /\ ToSet(nodes) = NodesOn(node, l)
                 /\ \A i, j \in DOMAIN nodes : i < j => Rank(nodes[i]) < Rank(nodes[j])
        /\ skip_list.level =
             Max({1} \cup {l + 1 : l \in {k \in Level : Linked(node, k) # <<>>}})
        /\ \A i \in DOMAIN all :
             node[all[i]].backward = IF i = 1 THEN NULL ELSE all[i - 1]
        /\ skip_list.tail = IF all = <<>> THEN NULL ELSE Last(all)

(* An object counts what callers and nodes hold of it, and lives as long   *)
(* as that is not nothing.                                                 *)
ReferencesAreCounted ==
  \A o \in Object :
    LET owners == held[o] + Cardinality({n \in Node : node[n] # NULL /\ node[n].object = o})
    IN  reference_count[o] = IF owners = 0 THEN Freed ELSE owners

(* What the list in heap N holds, in the order of level 0.                 *)
ItemsIn(N) ==
  LET all == Linked(N, 0)
  IN  [i \in DOMAIN all |-> [object |-> N[all[i]].object, score |-> N[all[i]].score]]

ItemList == IF skip_list = NULL THEN NULL ELSE ItemsIn(node)

Alive == {o \in Object : reference_count[o] # Freed}

Items == INSTANCE SortedItems WITH items <- ItemList, alive <- Alive

(* The list is a sequence of objects in the order of their scores and      *)
(* names, whatever levels its nodes were given, and an object is freed     *)
(* with its last owner, caller or node.                                    *)
ImplementsSortedItems == Items!Spec

=============================================================================
