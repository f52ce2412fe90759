----------------------------- MODULE ByteStrings -----------------------------
(***************************************************************************)
(* What nosql/simple_dynamic_string.h promises: each string is a sequence  *)
(* of bytes, NULs among them.  Lengths, free room and moves of the memory  *)
(* are not part of the promise; what a caller must not do is.              *)
(***************************************************************************)
EXTENDS Integers, SequencesExt

CONSTANTS
  String, NULL, Sources, Needs,
  SDS_MAX_PREALLOC, SIZEOF_SDS, INT_MAX

VARIABLES
  text,    \* the bytes of each string, NULL if there is none
  status,  \* "defined", or why the last call was not
  result   \* the last call, with what it was asked and what it returned

vars == <<text, status, result>>

NUL == 0

Nulls(n) == [i \in 1..n |-> NUL]

Live(s) == status = "defined" /\ text[s] # NULL

(* p is what a C function reads of the bytes: all that are before a NUL.   *)
IsCString(p, bytes) ==
  /\ NUL \notin ToSet(p)
  /\ IsPrefix(p, bytes)
  /\ p = bytes \/ IsPrefix(Append(p, NUL), bytes)

CString(bytes) == CHOOSE p \in Prefixes(bytes) : IsCString(p, bytes)

Call(name, s) == [call |-> name, string |-> s]
WithBytes(name, s, bytes) == [call |-> name, string |-> s, bytes |-> bytes]
WithNumber(name, s, n) == [call |-> name, string |-> s, number |-> n]
WithString(name, s, t) == [call |-> name, string |-> s, other |-> t]

Init ==
  /\ text = [s \in String |-> NULL]
  /\ status = "defined"
  /\ result = NULL

Become(s, bytes) == text' = [text EXCEPT ![s] = bytes] /\ UNCHANGED status

Fail(why) == status' = why /\ UNCHANGED text

(* n bytes, with what a string needs beside them, do not fit an int.       *)
TooLong(n) == SIZEOF_SDS + n + 1 > INT_MAX

Vacant(s) == status = "defined" /\ text[s] = NULL

Make(s, bytes) ==
  /\ Vacant(s)
  /\ \/ ~TooLong(Len(bytes)) /\ Become(s, bytes)
     \/ TooLong(Len(bytes)) /\ Fail("int_overflow")

Set(s, bytes) == Live(s) /\ Become(s, bytes)

Undefined(s, why) == Live(s) /\ Fail(why)

(* With n bytes the string, grown in advance, does not fit an int any      *)
(* more, unless the room is there already.                                 *)
MayBeTooLong(n) == TooLong(n + SDS_MAX_PREALLOC)

(* A call that has to hold n bytes.                                        *)
Hold(s, n, bytes) ==
  \/ Set(s, bytes)
  \/ MayBeTooLong(n) /\ Undefined(s, "int_overflow")

Extend(s, bytes) == Hold(s, Len(text[s]) + Len(bytes), text[s] \o bytes)

(* An empty string and a duplicate of one that exists always fit.          *)
Create(s) ==
  \/ result' = Call("SDSNewEmpty", s) /\ Vacant(s) /\ Become(s, <<>>)
  \/ \E n \in Needs :
       n >= 0 /\ result' = WithNumber("SDSNewLength", s, n) /\ Make(s, Nulls(n))
  \/ \E bytes \in Sources :
       \/ result' = WithBytes("SDSNewLength", s, bytes) /\ Make(s, bytes)
       \/ result' = WithBytes("SDSNew", s, bytes) /\ Make(s, CString(bytes))
  \/ \E t \in String :
       /\ result' = WithString("SDSDuplicate", s, t)
       /\ Live(t) /\ Vacant(s) /\ Become(s, text[t])

Destroy(s) ==
  \/ result' = Call("SDSFree", s) /\ Set(s, NULL)
  \/ result' = Call("SDSClear", s) /\ Set(s, <<>>)

(* To append a string to itself is allowed only if it has the room.        *)
AppendTo(s) ==
  /\ Live(s)
  /\ \/ \E bytes \in Sources :
          \/ result' = WithBytes("SDSAppendLength", s, bytes) /\ Extend(s, bytes)
          \/ result' = WithBytes("SDSAppend", s, bytes) /\ Extend(s, CString(bytes))
     \/ \E t \in String :
          /\ result' = WithString("SDSAppendSDS", s, t)
          /\ Live(t)
          /\ \/ Extend(s, text[t])
             \/ t = s /\ text[s] # <<>> /\ Undefined(s, "stale_read")

CopyTo(s) ==
  \/ \E bytes \in Sources :
       \/ result' = WithBytes("SDSCopyLength", s, bytes) /\ Hold(s, Len(bytes), bytes)
       \/ /\ result' = WithBytes("SDSCopy", s, bytes)
          /\ Hold(s, Len(CString(bytes)), CString(bytes))
  \/ \E t \in String \ {s} :
       /\ result' = WithString("SDSCopy", s, t)
       /\ Live(t)
       /\ Hold(s, Len(CString(text[t])), CString(text[t]))

(* Room for more bytes changes nothing; a string that is grown gets NULs,  *)
(* and one that is longer already stays as it is.                          *)
Enlarge(s) ==
  /\ Live(s)
  /\ \E n \in Needs :
       \/ /\ result' = WithNumber("SDSAllocateMemory", s, n)
          /\ Hold(s, Len(text[s]) + n, text[s])
       \/ /\ result' = WithNumber("SDSGrowWithNull", s, n)
          /\ \/ n <= Len(text[s]) /\ Set(s, text[s])
             \/ n > Len(text[s]) /\ Extend(s, Nulls(n - Len(text[s])))

(* [begin, end] of the bytes, counted from 0, if both ends are among them. *)
Interval(bytes, begin, end) ==
  IF 0 <= begin /\ end < Len(bytes) THEN SubSeq(bytes, begin + 1, end + 1) ELSE <<>>

(* The interval stays; but for one of a single byte, of which nothing does *)
(* although it is inclusive: that much less than the comment of SDSRange() *)
(* promises is kept here, as in the code.                                  *)
Narrow(s) ==
  /\ Live(s)
  /\ \E begin, end \in Needs :
       /\ result' = [call |-> "SDSRange", string |-> s, begin |-> begin, end |-> end]
       /\ \/ begin = end /\ Set(s, <<>>)
          \/ begin # end /\ Set(s, Interval(text[s], begin, end))

(* The string loses what it starts and ends with of the set, and no more.  *)
(* Neither the set nor the bytes it ends up with at its ends may be        *)
(* negative.                                                               *)
Trim(s) ==
  /\ Live(s)
  /\ \E bytes \in Sources :
       /\ result' = WithBytes("SDSTrim", s, bytes)
       /\ LET set == ToSet(CString(bytes))
          IN  \E before, middle, after \in SubSeqs(text[s]) :
                /\ text[s] = before \o middle \o after
                /\ ToSet(before \o after) \subseteq set
                /\ middle # <<>> => Head(middle) \notin set /\ Last(middle) \notin set
                /\ LET met == set \cup IF middle = <<>> THEN {}
                                       ELSE {Head(middle), Last(middle)}
                   IN  IF \E b \in met : b < 0
                       THEN Undefined(s, "map_out_of_bounds")
                       ELSE Set(s, middle)

(* a is before b in the order of a dictionary, for bytes without sign.     *)
Before(a, b) ==
  \E common \in Prefixes(a) \cap Prefixes(b) :
    LET n == Len(common) + 1
    IN  n \in DOMAIN b /\ (n \in DOMAIN a => a[n] % 256 < b[n] % 256)

(* The sign of the answer is the order.  Its comment promises -1, 0 or 1;  *)
(* that is no part of this specification, for it is not so.                *)
Compare(s) ==
  /\ Live(s)
  /\ result'.call = "SDSCompare" /\ result'.string = s
  /\ \E t \in String :
       /\ result'.other = t /\ Live(t)
       /\ result'.returned < 0 <=> Before(text[s], text[t])
       /\ result'.returned > 0 <=> Before(text[t], text[s])
  /\ UNCHANGED <<text, status>>

Next ==
  \E s \in String :
    \/ Create(s) \/ Destroy(s) \/ AppendTo(s) \/ CopyTo(s)
    \/ Enlarge(s) \/ Narrow(s) \/ Trim(s) \/ Compare(s)

Spec == Init /\ [][Next]_vars
=============================================================================
