---------------------------- MODULE NodeSequences ----------------------------
(***************************************************************************)
(* What nosql/double_linked_list.h promises: a list is a sequence of nodes *)
(* with values.  Links, tails and lengths are not part of the promise.     *)
(***************************************************************************)
EXTENDS Integers, SequencesExt

CONSTANTS List, Node, Value, NULL

VARIABLES
  sequence,  \* each list's nodes, head first; NULL if there is no list
  content,   \* the value of each node, NULL if there is no node
  answer     \* what the last call returned, with what was asked of it

vars == <<sequence, content, answer>>

Exists(l) == sequence[l] # NULL

Fresh(n) == content[n] = NULL

Init ==
  /\ sequence = [l \in List |-> NULL]
  /\ content = [n \in Node |-> NULL]
  /\ answer = NULL

Create(l) ==
  /\ ~Exists(l)
  /\ sequence' = [sequence EXCEPT ![l] = <<>>]
  /\ answer' = l
  /\ UNCHANGED content

Free(l) ==
  /\ Exists(l)
  /\ sequence' = [sequence EXCEPT ![l] = NULL]
  /\ content' = [n \in Node |-> IF n \in Range(sequence[l]) THEN NULL ELSE content[n]]
  /\ answer' = NULL

(* A new node n with value v becomes the i-th of the list.                 *)
Insert(l, i, n, v) ==
  /\ content' = [content EXCEPT ![n] = v]
  /\ sequence' = [sequence EXCEPT ![l] = InsertAt(@, i, n)]

AddHead(l, n, v) ==
  /\ answer' = [list |-> l, place |-> "head"]
  /\ Exists(l) /\ Fresh(n)
  /\ Insert(l, 1, n, v)

AddTail(l, n, v) ==
  /\ answer' = [list |-> l, place |-> "tail"]
  /\ Exists(l) /\ Fresh(n)
  /\ Insert(l, Len(sequence[l]) + 1, n, v)

(* The new node is before or after an old one.                             *)
InsertNext(l, old, after, n, v) ==
  /\ answer' = [list |-> l, place |-> old, after |-> after]
  /\ Exists(l) /\ Fresh(n)
  /\ \E i \in DOMAIN sequence[l] :
       /\ sequence[l][i] = old
       /\ Insert(l, IF after THEN i + 1 ELSE i, n, v)

Delete(l, n) ==
  /\ answer' = NULL
  /\ ~Fresh(n)
  /\ content' = [content EXCEPT ![n] = NULL]
  /\ Exists(l)
  /\ \E i \in DOMAIN sequence[l] :
       /\ sequence[l][i] = n
       /\ sequence' = [sequence EXCEPT ![l] = RemoveAt(@, i)]

(* The last node becomes the first.                                        *)
Rotate(l) ==
  /\ Exists(l)
  /\ sequence' = [sequence EXCEPT ![l] =
                    IF Len(@) <= 1 THEN @ ELSE <<Last(@)>> \o Front(@)]
  /\ UNCHANGED <<content, answer>>

Search(l, v) ==
  /\ Exists(l)
  /\ LET i == SelectInSeq(sequence[l], LAMBDA n : content[n] = v)
     IN  answer' = [key |-> v, found |-> IF i = 0 THEN NULL ELSE sequence[l][i]]
  /\ UNCHANGED <<sequence, content>>

(* Indexes count from 0.                                                   *)
Index(l, i) ==
  /\ Exists(l)
  /\ answer' = [index |-> i,
                found |-> IF i + 1 \in DOMAIN sequence[l]
                          THEN sequence[l][i + 1] ELSE NULL]
  /\ UNCHANGED <<sequence, content>>

(* A copy has as many nodes, all of them new, with the same values.        *)
Duplicate(l, copy) ==
  /\ Exists(l) /\ ~Exists(copy)
  /\ \E nodes \in [DOMAIN sequence[l] -> {n \in Node : Fresh(n)}] :
       /\ IsInjective(nodes)
       /\ sequence' = [sequence EXCEPT ![copy] = nodes]
       /\ content' = [n \in Node |->
            IF n \in Range(nodes)
            THEN content[sequence[l][CHOOSE i \in DOMAIN nodes : nodes[i] = n]]
            ELSE content[n]]
  /\ answer' = copy

(* The method that copies values fails: the answer is the pointer of a     *)
(* list that is no more.                                                   *)
CopyFails(l, copy) ==
  /\ Exists(l) /\ sequence[l] # <<>>
  /\ ~Exists(copy)
  /\ answer' = copy
  /\ UNCHANGED <<sequence, content>>

Next ==
  \/ \E l \in List : Create(l) \/ Free(l) \/ Rotate(l)
  \/ \E l \in List, v \in Value : Search(l, v)
  \/ \E l \in List, i \in -1..Cardinality(Node) : Index(l, i)
  \/ \E l \in List, n \in Node : Delete(l, n)
  \/ \E l \in List, n \in Node, v \in Value : AddHead(l, n, v) \/ AddTail(l, n, v)
  \/ \E l \in List, old, n \in Node, v \in Value, after \in BOOLEAN :
       InsertNext(l, old, after, n, v)
  \/ \E l, copy \in List : Duplicate(l, copy) \/ CopyFails(l, copy)

Spec == Init /\ [][Next]_vars
=============================================================================
