--------------------------- MODULE MCDynamicString ---------------------------
(* Instances of DynamicString for TLC.                                      *)
EXTENDS StringClaims

(* A NUL, a char, and one that is negative.                                 *)
Bytes == {-1, 0, 97}

ShortSources == BoundedSeq(Bytes, 2)

(* Too many bytes for a string: with header and terminator they are one     *)
(* more than INT_MAX, the 7 of the needs too.                               *)
LongSource == [i \in 1..7 |-> 97]

SomeSources == ShortSources \cup {LongSource}

SomeNeeds == (-1..3) \cup {7}

StringSymmetry == Permutations(String)

(* No call reads what is behind the terminator of a string, and none reads  *)
(* result: states that differ in nothing else are one.                      *)
Visible ==
  <<[s \in String |->
       IF sds[s] = NULL THEN NULL
       ELSE <<sds[s].length, sds[s].free, Len(sds[s].data),
              SubSeq(sds[s].data, 1, Min({sds[s].length + 1, Len(sds[s].data)}))>>],
    status>>

=============================================================================
