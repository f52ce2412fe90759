------------------------------- MODULE Objects -------------------------------
(***************************************************************************)
(* The reference counts of nosql/object.c.  The source has the release of  *)
(* a reference only; that objects are made with one reference and can gain *)
(* others is how nosql.h and skip_list.c expect them to be used.           *)
(***************************************************************************)
EXTENDS Integers, FiniteSets

CONSTANTS
  Object,
  Freed,    \* an object that is not allocated
  MaxHeld   \* bound: the references to an object that callers hold

ASSUME ObjectsAssumption == Freed \notin Int /\ MaxHeld \in Nat \ {0}

VARIABLES
  reference_count,  \* reference_count_ of each object, or Freed
  held              \* history: the references that callers hold

objectVars == <<reference_count, held>>

InitObjects ==
  /\ reference_count = [o \in Object |-> Freed]
  /\ held = [o \in Object |-> 0]

(* Mutant: the object is not freed with its last reference.                *)
LeakyDecrease(counts, o) == [counts EXCEPT ![o] = IF @ <= 0 THEN @ ELSE @ - 1]

(* DecreaseReferenceCount(), of an object that is allocated.               *)
DecreaseReferenceCount(counts, o) ==
  [counts EXCEPT ![o] = IF @ <= 0 THEN @ ELSE IF @ = 1 THEN Freed ELSE @ - 1]

(* A caller makes an object and holds it.                                  *)
NewObject(o) ==
  /\ reference_count[o] = Freed
  /\ reference_count' = [reference_count EXCEPT ![o] = 1]
  /\ held' = [held EXCEPT ![o] = 1]

(* A caller that holds an object takes one more reference.                 *)
Retain(o) ==
  /\ held[o] \in 1..(MaxHeld - 1)
  /\ reference_count' = [reference_count EXCEPT ![o] = @ + 1]
  /\ held' = [held EXCEPT ![o] = @ + 1]

(* A caller gives one of its own references back.                          *)
Release(o) ==
  /\ held[o] > 0
  /\ reference_count' = DecreaseReferenceCount(reference_count, o)
  /\ held' = [held EXCEPT ![o] = @ - 1]

=============================================================================
