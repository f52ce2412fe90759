---------------------------- MODULE MCDictionary ----------------------------
(* Instances of Dictionary for TLC.  Keys are ints hashed by their own      *)
(* value, as HashInt() of test/dictionary_test.c does.                      *)
EXTENDS DictionaryClaims

IdentityHash == [k \in Key |-> k]

(* One key is negative and two collide under the first masks.               *)
SmallKeys == {-3, 0, 2}

(* Three keys collide under the code's own first mask, 3.                   *)
CollidingKeys == {-4, 0, 1, 4}

(* One more key than the first table has slots.                             *)
FiveKeys == {0, 1, 2, 3, 4}

(* result is written and never read: states that differ in nothing else are *)
(* one.  TLC still checks each step with the reply it makes.                *)
WithoutReply == <<dictionary, dictionary_can_resize, references>>

=============================================================================
