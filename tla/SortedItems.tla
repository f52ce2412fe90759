----------------------------- MODULE SortedItems -----------------------------
(***************************************************************************)
(* What nosql/skip_list.h and object.c promise together: objects in the    *)
(* order of their scores, equal scores by name; and an object lives while  *)
(* someone owns it, the list (once per place) or a caller.                 *)
(***************************************************************************)
EXTENDS Integers, SequencesExt

CONSTANTS Object, Score, Name, NULL, MaxHeld

VARIABLES
  items,  \* the objects with their scores, in order; NULL if no list is
  held,   \* the references of callers
  alive   \* the objects that are not freed

vars == <<items, held, alive>>

Less(a, b) ==
  \/ a.score < b.score
  \/ a.score = b.score /\ Name[a.object] < Name[b.object]

Listed(list) == IF list = NULL THEN {} ELSE {list[i].object : i \in DOMAIN list}

(* Who is left of the owners decides what lives.                           *)
KeepOwned == alive' = {o \in alive : held'[o] > 0 \/ o \in Listed(items')}

Init ==
  /\ items = NULL
  /\ held = [o \in Object |-> 0]
  /\ alive = {}

Create == items = NULL /\ items' = <<>> /\ UNCHANGED <<held, alive>>

(* The new item is put behind all that are less, and before all others.    *)
Insert(o, s) ==
  LET item == [object |-> o, score |-> s]
  IN  /\ items # NULL /\ held[o] > 0
      /\ \E place \in 1..(Len(items) + 1) :
           /\ \A i \in 1..(place - 1) : Less(items[i], item)
           /\ \A i \in place..Len(items) : ~Less(items[i], item)
           /\ items' = InsertAt(items, place, item)
      /\ held' = [held EXCEPT ![o] = @ - 1]
      /\ UNCHANGED alive

Free == items # NULL /\ items' = NULL /\ UNCHANGED held /\ KeepOwned

Make(o) ==
  /\ o \notin alive
  /\ alive' = alive \cup {o}
  /\ held' = [held EXCEPT ![o] = 1]
  /\ UNCHANGED items

Retain(o) ==
  /\ held[o] \in 1..(MaxHeld - 1)
  /\ held' = [held EXCEPT ![o] = @ + 1]
  /\ UNCHANGED <<items, alive>>

Release(o) ==
  /\ held[o] > 0
  /\ held' = [held EXCEPT ![o] = @ - 1]
  /\ UNCHANGED items
  /\ KeepOwned

Next ==
  \/ Create \/ Free
  \/ \E o \in Object, s \in Score : Insert(o, s)
  \/ \E o \in Object : Make(o) \/ Retain(o) \/ Release(o)

Spec == Init /\ [][Next]_vars
=============================================================================
