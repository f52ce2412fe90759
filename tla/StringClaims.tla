---------------------------- MODULE StringClaims ----------------------------
(***************************************************************************)
(* What the comments of nosql/simple_dynamic_string.c say of two functions *)
(* and the code does not do.                                               *)
(***************************************************************************)
EXTENDS DynamicString

(* "The interval is inclusive, i.e., [begin, end]"                         *)
(* (simple_dynamic_string.c:196): what SDSRange() leaves is that interval, *)
(* the one of a single byte too.                                           *)
RangeIsInclusive ==
  [][\A s \in String, begin, end \in Needs :
       SDSRange(s, begin, end) =>
         Texts'[s] = Strings!Interval(Texts[s], begin, end)]_vars

(* "Return: 1 if s1 > s2, -1 if s1 < s2, 0 if s1 = s2."                    *)
(* (simple_dynamic_string.c:258), where s1 < s2 in the order of a          *)
(* dictionary.                                                             *)
CompareReturnsItsSign ==
  [][\A s1, s2 \in String :
       SDSCompare(s1, s2) =>
         result'.returned =
           CASE Strings!Before(Texts[s1], Texts[s2]) -> -1
             [] Strings!Before(Texts[s2], Texts[s1]) -> 1
             [] OTHER -> 0]_vars

=============================================================================
