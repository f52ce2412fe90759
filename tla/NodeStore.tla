------------------------------ MODULE NodeStore ------------------------------
(***************************************************************************)
(* What a dictionary keeps promising in every state its calls can reach: a *)
(* bag of nodes, each a key and a value.  A call changes nodes of its own  *)
(* key only, at most one of them, and says truthfully what it did.  It is  *)
(* not a map: a lookup may miss a key that has a node, and a key may have  *)
(* several.  A call may also break the store (undefined behaviour in C),   *)
(* and nothing happens to a broken store.                                  *)
(***************************************************************************)
EXTENDS Integers

CONSTANTS Key, Value, Unset, NULL

VARIABLES
  status,  \* "absent", "live" or "broken"
  copies,  \* how many nodes there are of each key and value
  result   \* the reply of the last call that takes a key

vars == <<status, copies, result>>

Reply(call, k, returned) == [call |-> call, key |-> k, returned |-> returned]

Node == [key : Key, value : Value \cup {Unset}]

NewNode(k, v) == [key |-> k, value |-> v]

NodesOf(k) == {n \in Node : n.key = k /\ copies[n] > 0}

Nothing == [n \in Node |-> 0]

Plus(c, n) == [c EXCEPT ![n] = @ + 1]

Minus(c, n) == [c EXCEPT ![n] = @ - 1]

Init == status = "absent" /\ copies = Nothing /\ result = NULL

Open ==
  /\ status = "absent"
  /\ status' = "live" /\ copies' = Nothing /\ UNCHANGED result

Close ==
  /\ status = "live" /\ copies = Nothing
  /\ status' = "absent" /\ copies' = Nothing /\ UNCHANGED result

(* A key is refused only if it has a node.                                 *)
Insert(call, k, v, refused) ==
  /\ status = "live"
  /\ \/ /\ result' = Reply(call, k, 1)
        /\ copies' = Plus(copies, NewNode(k, v))
     \/ /\ result' = Reply(call, k, refused)
        /\ NodesOf(k) # {}
        /\ copies' = copies
  /\ UNCHANGED status

(* A value that is returned is a value of the key.                         *)
Lookup(k) ==
  /\ status = "live"
  /\ \E v \in Value \cup {Unset, NULL} :
       /\ result' = Reply("Find", k, v)
       /\ v # NULL => copies[NewNode(k, v)] > 0
  /\ UNCHANGED <<status, copies>>

Put(k, v) ==
  /\ status = "live"
  /\ \/ /\ result' = Reply("Replace", k, 1)
        /\ copies' = Plus(copies, NewNode(k, v))
     \/ /\ result' = Reply("Replace", k, 0)
        /\ \E n \in NodesOf(k) : copies' = Plus(Minus(copies, n), NewNode(k, v))
  /\ UNCHANGED status

Remove(k) ==
  /\ status = "live"
  /\ \/ /\ result' = Reply("Delete", k, 1)
        /\ \E n \in NodesOf(k) : copies' = Minus(copies, n)
     \/ /\ result' = Reply("Delete", k, 0)
        /\ copies' = copies
  /\ UNCHANGED status

Break == status = "live" /\ status' = "broken" /\ copies' = copies

Next ==
  \/ Open
  \/ Close
  \/ \E k \in Key : Insert("AddRaw", k, Unset, NULL)
  \/ \E k \in Key, v \in Value : Insert("Add", k, v, 0)
  \/ \E k \in Key : Lookup(k)
  \/ \E k \in Key, v \in Value : Put(k, v)
  \/ \E k \in Key : Remove(k)
  \/ Break

Spec == Init /\ [][Next]_vars

=============================================================================
