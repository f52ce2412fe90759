----------------------------- MODULE KeyValueMap -----------------------------
(***************************************************************************)
(* The promise of nosql/dictionary.h: an associative array.  contents is a *)
(* function on the keys that are present.                                  *)
(***************************************************************************)
EXTENDS Integers

CONSTANTS Key, Value, Unset, NULL

VARIABLES open, contents, result

vars == <<open, contents, result>>

Reply(call, k, returned) == [call |-> call, key |-> k, returned |-> returned]

Nothing == [k \in {} |-> NULL]

Bind(k, v) ==
  [x \in DOMAIN contents \cup {k} |-> IF x = k THEN v ELSE contents[x]]

Forget(k) == [x \in DOMAIN contents \ {k} |-> contents[x]]

Init == open = FALSE /\ contents = Nothing /\ result = NULL

Open == ~open /\ open' = TRUE /\ contents' = Nothing /\ UNCHANGED result

Close == open /\ open' = FALSE /\ contents' = Nothing /\ UNCHANGED result

Insert(call, k, v, refused) ==
  /\ open
  /\ result' = Reply(call, k, IF k \in DOMAIN contents THEN refused ELSE 1)
  /\ contents' = IF k \in DOMAIN contents THEN contents ELSE Bind(k, v)
  /\ UNCHANGED open

Lookup(k) ==
  /\ open
  /\ result' = Reply("Find", k, IF k \in DOMAIN contents THEN contents[k] ELSE NULL)
  /\ UNCHANGED <<open, contents>>

Put(k, v) ==
  /\ open
  /\ result' = Reply("Replace", k, IF k \in DOMAIN contents THEN 0 ELSE 1)
  /\ contents' = Bind(k, v)
  /\ UNCHANGED open

Remove(k) ==
  /\ open
  /\ result' = Reply("Delete", k, IF k \in DOMAIN contents THEN 1 ELSE 0)
  /\ contents' = Forget(k)
  /\ UNCHANGED open

Next ==
  \/ Open
  \/ Close
  \/ \E k \in Key : Insert("AddRaw", k, Unset, NULL)
  \/ \E k \in Key, v \in Value : Insert("Add", k, v, 0)
  \/ \E k \in Key : Lookup(k)
  \/ \E k \in Key, v \in Value : Put(k, v)
  \/ \E k \in Key : Remove(k)

Spec == Init /\ [][Next]_vars

=============================================================================
