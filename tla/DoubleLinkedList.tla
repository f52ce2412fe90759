-------------------------- MODULE DoubleLinkedList --------------------------
(***************************************************************************)
(* The doubly linked lists of nosql/double_linked_list.c: nodes in a heap, *)
(* linked by pointers, and an iterator that holds a pointer of its own     *)
(* while its caller goes on changing the list.                             *)
(*                                                                         *)
(* Each exported function is one action.  Callers keep the rules that the  *)
(* source states: a node is passed with the list it is in, and a walked    *)
(* list loses no node but the one that the iterator returned last.  A list *)
(* with a Free method owns its values: callers hand over what they have    *)
(* made, and copy such a list only if it has a Duplicate method too.       *)
(***************************************************************************)
EXTENDS Integers, SequencesExt

CONSTANTS
  List,           \* bound: the lists that can exist at a time
  Node,           \* bound: the nodes that can exist at a time
  Value,          \* what values hold; Match is equality on it
  NULL,           \* the null pointer
  HasDuplicate,   \* the lists have a Duplicate method, which may fail
  HasFree         \* the lists have a Free method

ASSUME MethodsAssumption == HasDuplicate \in BOOLEAN /\ HasFree \in BOOLEAN
ASSUME NullAssumption == NULL \notin List \cup Node \cup Value
ASSUME NodeAssumption == IsFiniteSet(Node)
ASSUME NullIsNoSequence == NULL \notin Seq(Node)

VARIABLES
  list,           \* head_, tail_ and length_ of each list, NoList if none
  node,           \* links and value_ of each node, NoNode if none
  iterator,       \* the iterator, and what it has returned
  result,         \* what the last call on a list returned, with what was
                  \* asked of it: the place of a new node, an index, a key
  allocated       \* history: how many values with each content were made for
                  \* lists that own them, and are not freed

vars == <<list, node, iterator, result, allocated>>

-----------------------------------------------------------------------------
FROM_HEAD_TO_TAIL == 0
FROM_TAIL_TO_HEAD == 1

NoNode == [previous |-> NULL, next |-> NULL, value |-> NULL]

IsNode(n) == node[n] # NoNode

(* "dangling" is a list that was freed and yet returned.                   *)
NoList(status) == [head |-> NULL, tail |-> NULL, length |-> 0, status |-> status]

IsLive(l) == list[l].status = "live"

(* last is the node that ListNextIterateNode() has just returned.  seen    *)
(* and due are history: the nodes it has returned, and those that were in  *)
(* the list at first and that it has not returned yet.                     *)
NoIterator ==
  [list |-> NULL, next |-> NULL, direction |-> FROM_HEAD_TO_TAIL,
   last |-> NULL, seen |-> {}, due |-> {}]

(* The neighbour of node n of heap N in a direction.                       *)
Link(N, n, direction) ==
  IF direction = FROM_HEAD_TO_TAIL THEN N[n].next ELSE N[n].previous

(* The nodes met from n on, n included, in a direction; if they make a     *)
(* cycle, one more than there are.                                         *)
Walk(N, n, direction) ==
  LET walk[k \in 0..(Cardinality(Node) + 1)] ==
        [m \in Node \cup {NULL} |->
           IF m = NULL \/ k = 0 THEN <<>>
           ELSE <<m>> \o walk[k - 1][Link(N, m, direction)]]
  IN  walk[Cardinality(Node) + 1][n]

NodesOf(l) == Range(Walk(node, list[l].head, FROM_HEAD_TO_TAIL))

Fresh(n) == ~IsNode(n)

(* Assignments to a field of a node of heap N.                             *)
SetNext(N, n, m) == [N EXCEPT ![n] = [@ EXCEPT !.next = m]]
SetPrevious(N, n, m) == [N EXCEPT ![n] = [@ EXCEPT !.previous = m]]

NewNode(N, n, previous, next, v) ==
  [N EXCEPT ![n] = [previous |-> previous, next |-> next, value |-> v]]

Ends(L, head, tail, length) ==
  [L EXCEPT !.head = head, !.tail = tail, !.length = length]

Occurrences(values, v) == Cardinality({i \in DOMAIN values : values[i] = v})

(* The values that ListFree() passes to the Free method, for list record L *)
(* in heap N.                                                              *)
ValuesIn(N, L) ==
  LET path == Walk(N, L.head, FROM_HEAD_TO_TAIL)
  IN  [i \in 1..Min({L.length, Len(path)}) |-> N[path[i]].value]

(* Values that a caller or the Duplicate method makes for a list.          *)
Made(counts, values) ==
  [v \in Value |-> counts[v] + IF HasFree THEN Occurrences(values, v) ELSE 0]

(* Mutant: the value of the last node is not freed.                        *)
ReleasedButLast(counts, values) ==
  [v \in Value |->
     counts[v] - Cardinality({i \in DOMAIN values : values[i] = v /\ i < Len(values)})]

(* Values that are freed with their nodes.                                 *)
Released(counts, values) ==
  [v \in Value |-> counts[v] - IF HasFree THEN Occurrences(values, v) ELSE 0]

-----------------------------------------------------------------------------
(* Who may change what while a list is walked.                             *)

IsWalked(l) == iterator.list = l

MayDelete(l, n) == IsWalked(l) => n = iterator.last

Init ==
  /\ list = [l \in List |-> NoList("absent")]
  /\ node = [n \in Node |-> NoNode]
  /\ iterator = NoIterator
  /\ result = NULL
  /\ allocated = [v \in Value |-> 0]

Create(l) ==
  /\ list[l].status = "absent"
  /\ list' = [list EXCEPT ![l] = NoList("live")]
  /\ result' = l
  /\ UNCHANGED <<node, iterator, allocated>>

(* length_ nodes from head_ on are freed, then the list.                   *)
FreedNodes(N, L) ==
  LET path == Walk(N, L.head, FROM_HEAD_TO_TAIL)
  IN  [n \in Node |-> IF \E i \in 1..L.length : path[i] = n THEN NoNode ELSE N[n]]

Free(l) ==
  /\ IsLive(l) /\ ~IsWalked(l)
  /\ node' = FreedNodes(node, list[l])
  /\ list' = [list EXCEPT ![l] = NoList("absent")]
  /\ result' = NULL
  /\ allocated' = Released(allocated, ValuesIn(node, list[l]))
  /\ UNCHANGED iterator

AddHeadNode(l, n, v) ==
  /\ IsLive(l) /\ Fresh(n)
  /\ LET L == list[l]
     IN  \/ /\ L.length = 0
            /\ node' = NewNode(node, n, NULL, NULL, v)
            /\ list' = [list EXCEPT ![l] = Ends(L, n, n, 1)]
         \/ /\ L.length # 0
            /\ node' = SetPrevious(NewNode(node, n, NULL, L.head, v), L.head, n)
            /\ list' = [list EXCEPT ![l] = Ends(L, n, L.tail, L.length + 1)]
  /\ result' = [list |-> l, place |-> "head"]
  /\ allocated' = Made(allocated, <<v>>)
  /\ UNCHANGED iterator

(* A node added behind the tail of list record L in heap N, as             *)
(* ListAddTailNode() links it.                                             *)
TailHeap(N, L, n, v) ==
  IF L.length = 0
  THEN NewNode(N, n, NULL, NULL, v)
  ELSE SetNext(NewNode(N, n, L.tail, NULL, v), L.tail, n)

(* Mutant: length_ is not incremented.                                     *)
TailEndsUncounted(L, n) ==
  Ends(L, IF L.length = 0 THEN n ELSE L.head, n, L.length)

TailEnds(L, n) ==
  Ends(L, IF L.length = 0 THEN n ELSE L.head, n, L.length + 1)

AddTailNode(l, n, v) ==
  /\ IsLive(l) /\ Fresh(n)
  /\ node' = TailHeap(node, list[l], n, v)
  /\ list' = [list EXCEPT ![l] = TailEnds(@, n)]
  /\ result' = [list |-> l, place |-> "tail"]
  /\ allocated' = Made(allocated, <<v>>)
  /\ UNCHANGED iterator

InsertedBefore(L, old, n, v) ==
  LET new == SetPrevious(NewNode(node, n, node[old].previous, old, v), old, n)
  IN  IF L.head = old THEN new ELSE SetNext(new, node[old].previous, n)

InsertedAfter(L, old, n, v) ==
  LET new == SetNext(NewNode(node, n, old, node[old].next, v), old, n)
  IN  IF L.tail = old THEN new ELSE SetPrevious(new, node[old].next, n)

InsertNode(l, old, n, v, after) ==
  /\ IsLive(l) /\ old \in NodesOf(l) /\ Fresh(n)
  /\ LET L == list[l]
     IN  \/ /\ ~after
            /\ node' = InsertedBefore(L, old, n, v)
            /\ list' = [list EXCEPT ![l] = Ends(L,
                 IF L.head = old THEN n ELSE L.head, L.tail, L.length + 1)]
         \/ /\ after
            /\ node' = InsertedAfter(L, old, n, v)
            /\ list' = [list EXCEPT ![l] = Ends(L,
                 L.head, IF L.tail = old THEN n ELSE L.tail, L.length + 1)]
  /\ result' = [list |-> l, place |-> old, after |-> after]
  /\ allocated' = Made(allocated, <<v>>)
  /\ UNCHANGED iterator

(* The heap with the neighbours of n linked to each other and n freed.     *)
Unlinked(n) ==
  LET before == node[n].previous
      behind == node[n].next
      N == IF before = NULL THEN node ELSE SetNext(node, before, behind)
      M == IF behind = NULL THEN N ELSE SetPrevious(N, behind, before)
  IN  [M EXCEPT ![n] = NoNode]

DeleteNode(l, n) ==
  /\ IsLive(l) /\ n \in NodesOf(l) /\ MayDelete(l, n)
  /\ node' = Unlinked(n)
  /\ list' = [list EXCEPT ![l] = Ends(@,
       IF node[n].previous = NULL THEN node[n].next ELSE @.head,
       IF node[n].next = NULL THEN node[n].previous ELSE @.tail,
       @.length - 1)]
  /\ iterator' = [iterator EXCEPT
                    !.last = IF IsWalked(l) THEN NULL ELSE @,
                    !.seen = @ \ {n}]
  /\ result' = NULL
  /\ allocated' = Released(allocated, <<node[n].value>>)

(* Mutant: the new tail keeps its link to the old one.                     *)
RotatedOpen(L) ==
  SetPrevious(SetNext(SetPrevious(node, L.head, L.tail), L.tail, L.head),
              L.tail, NULL)

Rotated(L) ==
  LET cut == SetNext(node, node[L.tail].previous, NULL)
  IN  SetPrevious(SetNext(SetPrevious(cut, L.head, L.tail), L.tail, L.head),
                  L.tail, NULL)

Rotate(l) ==
  /\ IsLive(l) /\ ~IsWalked(l)
  /\ LET L == list[l]
     IN  \/ /\ L.length <= 1
            /\ UNCHANGED <<list, node>>
         \/ /\ L.length > 1
            /\ node' = Rotated(L)
            /\ list' = [list EXCEPT ![l] =
                          Ends(L, L.tail, node[L.tail].previous, L.length)]
  /\ UNCHANGED <<iterator, result, allocated>>

SearchKey(l, v) ==
  /\ IsLive(l)
  /\ LET path == Walk(node, list[l].head, FROM_HEAD_TO_TAIL)
         i == SelectInSeq(path, LAMBDA n : node[n].value = v)
     IN  result' = [key |-> v, found |-> IF i = 0 THEN NULL ELSE path[i]]
  /\ UNCHANGED <<list, node, iterator, allocated>>

(* Mutant: the walk goes one node too far.                                 *)
NodeBehind(l, i) ==
  LET path == Walk(node, list[l].head, FROM_HEAD_TO_TAIL)
  IN  IF i \in 0..list[l].length /\ i + 2 <= Len(path) THEN path[i + 2] ELSE NULL

(* The index length_ is in the range that the code tests, and has no node. *)
NodeAt(l, i) ==
  LET path == Walk(node, list[l].head, FROM_HEAD_TO_TAIL)
  IN  IF i \in 0..list[l].length /\ i + 1 <= Len(path) THEN path[i + 1] ELSE NULL

Index(l, i) ==
  /\ IsLive(l)
  /\ result' = [index |-> i, found |-> NodeAt(l, i)]
  /\ UNCHANGED <<list, node, iterator, allocated>>

-----------------------------------------------------------------------------
GetIterator(l, direction) ==
  /\ IsLive(l)
  /\ iterator = NoIterator
  /\ iterator' = [NoIterator EXCEPT
       !.list = l,
       !.next = IF direction = FROM_HEAD_TO_TAIL THEN list[l].head ELSE list[l].tail,
       !.direction = direction,
       !.due = NodesOf(l)]
  /\ UNCHANGED <<list, node, result, allocated>>

(* Mutant: the direction is not looked at.                                 *)
StepForward(n) == node[n].next

(* The pointer that the iterator keeps for its next call: it is read now,  *)
(* before the caller gets the node and may delete it.                      *)
Step(n) == Link(node, n, iterator.direction)

NextIterateNode ==
  /\ iterator.list # NULL
  /\ LET n == iterator.next
     IN  /\ iterator' = IF n = NULL THEN [iterator EXCEPT !.last = NULL]
                        ELSE [iterator EXCEPT
                                !.next = Step(n), !.last = n,
                                !.seen = @ \cup {n}, !.due = @ \ {n}]
  /\ UNCHANGED <<list, node, result, allocated>>

FreeIterator ==
  /\ iterator.list # NULL
  /\ iterator' = NoIterator
  /\ UNCHANGED <<list, node, result, allocated>>

-----------------------------------------------------------------------------
(* The nodes of a copy of the path, in their order, are new.               *)
CopyNodes(path) ==
  {nodes \in [DOMAIN path -> {n \in Node : Fresh(n)}] : IsInjective(nodes)}

(* The heap and the list record after nodes[1], ..., nodes[i] were added   *)
(* to the tail of an empty list with the values of the nodes of path.      *)
CopiedUpTo(path, nodes) ==
  LET copied[i \in 0..Len(path)] ==
        IF i = 0 THEN [heap |-> node, copy |-> NoList("live")]
        ELSE LET c == copied[i - 1]
             IN  [heap |-> TailHeap(c.heap, c.copy, nodes[i], node[path[i]].value),
                  copy |-> TailEnds(c.copy, nodes[i])]
  IN  copied[Len(path)]

Duplicate(l, copy) ==
  /\ HasFree => HasDuplicate
  /\ IsLive(l) /\ list[copy].status = "absent"
  /\ LET path == Walk(node, list[l].head, FROM_HEAD_TO_TAIL)
     IN  \E nodes \in CopyNodes(path) :
           /\ node' = CopiedUpTo(path, nodes).heap
           /\ list' = [list EXCEPT ![copy] = CopiedUpTo(path, nodes).copy]
  /\ result' = copy
  /\ allocated' = Made(allocated, ValuesIn(node, list[l]))
  /\ UNCHANGED iterator

(* Mutant: ListFree() frees the copy, and none of its nodes.               *)
FailedHeapLeaked(c) == c.heap

(* The heap after ListFree() of the copy made so far.                      *)
FailedHeap(c) == FreedNodes(c.heap, c.copy)

(* The Duplicate method returns NULL for the i-th node: the nodes before   *)
(* it were copied; ListFree() frees the copy, its nodes and their values,  *)
(* and the pointer is returned all the same.                               *)
DuplicateFails(l, copy) ==
  /\ HasDuplicate
  /\ IsLive(l) /\ list[copy].status = "absent"
  /\ \E i \in 1..list[l].length :
       LET path == SubSeq(Walk(node, list[l].head, FROM_HEAD_TO_TAIL), 1, i - 1)
           made == [k \in DOMAIN path |-> node[path[k]].value]
       IN  \E nodes \in CopyNodes(path) :
             LET c == CopiedUpTo(path, nodes)
             IN  /\ node' = FailedHeap(c)
                 /\ allocated' = Released(Made(allocated, made), ValuesIn(c.heap, c.copy))
  /\ list' = [list EXCEPT ![copy] = NoList("dangling")]
  /\ result' = copy
  /\ UNCHANGED iterator

-----------------------------------------------------------------------------
Next ==
  \/ \E l \in List : Create(l)
  \/ \E l \in List : Free(l)
  \/ \E l \in List, n \in Node, v \in Value : AddHeadNode(l, n, v)
  \/ \E l \in List, n \in Node, v \in Value : AddTailNode(l, n, v)
  \/ \E l \in List, old, n \in Node, v \in Value, after \in BOOLEAN :
       InsertNode(l, old, n, v, after)
  \/ \E l \in List, n \in Node : DeleteNode(l, n)
  \/ \E l \in List : Rotate(l)
  \/ \E l \in List, v \in Value : SearchKey(l, v)
  \/ \E l \in List, i \in -1..Cardinality(Node) : Index(l, i)
  \/ \E l \in List, direction \in {FROM_HEAD_TO_TAIL, FROM_TAIL_TO_HEAD} :
       GetIterator(l, direction)
  \/ NextIterateNode
  \/ FreeIterator
  \/ \E l, copy \in List : Duplicate(l, copy)
  \/ \E l, copy \in List : DuplicateFails(l, copy)

Spec == Init /\ [][Next]_vars

-----------------------------------------------------------------------------
(* Every variable has its type.                                            *)
TypeOK ==
  /\ list \in [List -> [head : Node \cup {NULL}, tail : Node \cup {NULL},
                        length : Nat, status : {"absent", "live", "dangling"}]]
  /\ node \in [Node -> [previous : Node \cup {NULL}, next : Node \cup {NULL},
                        value : Value \cup {NULL}]]
  /\ iterator \in [list : List \cup {NULL}, next : Node \cup {NULL},
                   direction : {FROM_HEAD_TO_TAIL, FROM_TAIL_TO_HEAD},
                   last : Node \cup {NULL},
                   seen : SUBSET Node, due : SUBSET Node]
  /\ \/ result \in List \cup {NULL}
     \/ result \in [list : List, place : {"head", "tail"}]
     \/ result \in [list : List, place : Node, after : BOOLEAN]
     \/ result \in [key : Value, found : Node \cup {NULL}]
     \/ result \in [index : Int, found : Node \cup {NULL}]
  /\ allocated \in [Value -> Int]

(* The walk from head_ by next_ and the one from tail_ by previous_ meet   *)
(* the same nodes in opposite orders, length_ of them, all of them in the  *)
(* heap: ListFree() trusts length_ and the callers trust both directions.  *)
IsWellLinked(l) ==
  LET forth == Walk(node, list[l].head, FROM_HEAD_TO_TAIL)
      back  == Walk(node, list[l].tail, FROM_TAIL_TO_HEAD)
  IN  /\ forth = Reverse(back)
      /\ Len(forth) = list[l].length
      /\ IsInjective(forth)

ListsAreWellLinked == \A l \in List : IsWellLinked(l)

(* No node is in two lists, and none is left that no list reaches.         *)
NodesAreOwnedOnce ==
  \A n \in Node :
    Cardinality({l \in List : n \in NodesOf(l)}) = IF IsNode(n) THEN 1 ELSE 0

(* A value that a list owns is freed with its node and not otherwise:      *)
(* neither a value whose node has moved, was copied or rotated, nor one of *)
(* a copy that failed half way is freed twice or forgotten.                *)
ValuesAreFreedWithNodes ==
  HasFree =>
    \A v \in Value : allocated[v] = Cardinality({n \in Node : node[n].value = v})

(* "It's valid to remove the returned element using ListDeleteNode(), but  *)
(* not to remove other elements": a caller that keeps to it gets every     *)
(* node that was in the list at first, and gets no node twice, whatever it *)
(* adds or deletes between two calls.                                      *)
IterationMeetsEveryNodeOnce ==
  iterator.list # NULL =>
    LET ahead == Range(Walk(node, iterator.next, iterator.direction))
    IN  /\ ahead \subseteq NodesOf(iterator.list)
        /\ iterator.due \subseteq ahead
        /\ iterator.seen \cap ahead = {}

(* The sequences and the values that the pointers stand for.               *)
Sequence ==
  [l \in List |->
     IF IsLive(l) THEN Walk(node, list[l].head, FROM_HEAD_TO_TAIL) ELSE NULL]

Content == [n \in Node |-> node[n].value]

(* The pointers implement the sequences.                                   *)
NodeSeq == INSTANCE NodeSequences WITH
  sequence <- Sequence, content <- Content, answer <- result

ImplementsNodeSequences == NodeSeq!Spec

(* "Free copy list's nodes and its all memory, and set copy to NULL": the  *)
(* copy that failed is not returned.                                       *)
FailedCopyIsNull == \A l \in List : list[l].status # "dangling"

=============================================================================
