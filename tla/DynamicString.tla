---------------------------- MODULE DynamicString ----------------------------
(***************************************************************************)
(* The string of nosql/simple_dynamic_string.c: a header with the bytes    *)
(* used and the bytes free, and behind it the array data_.                 *)
(*                                                                         *)
(* Each function is one action.  malloc() and realloc() never return NULL: *)
(* the handler of memory.c ends the process first.                         *)
(***************************************************************************)
EXTENDS Integers, SequencesExt

CONSTANTS
  String,            \* the pointers that the caller keeps
  Byte,              \* the chars in use, signed as the compiler has them
  NULL,              \* no string
  Junk,              \* what memory holds that nobody has written
  Sources,           \* bound: the bytes that callers pass
  Needs,             \* bound: the room, lengths and indexes callers ask for
  MaxLength,         \* bound: how long a string may become
  SDS_MAX_PREALLOC,
  SIZEOF_SDS,        \* sizeof(SDS), the header
  INT_MAX

NUL == 0

ASSUME DynamicStringAssumption ==
  /\ NUL \in Byte /\ Byte \subseteq -128..127
  /\ Junk \notin Byte
  /\ Sources \subseteq Seq(Byte)
  /\ Needs \subseteq Int
  /\ MaxLength \in Nat /\ SDS_MAX_PREALLOC \in Nat /\ SIZEOF_SDS \in Nat
  /\ INT_MAX \in Nat /\ SIZEOF_SDS + 1 <= INT_MAX

(* The header, with data_ as the bytes that are allocated behind it.       *)
SDS == [length : Nat, free : Nat, data : Seq(Byte \cup {Junk})]

ASSUME NullAssumption == NULL \notin SDS /\ NULL \notin Seq(Byte \cup {Junk})

VARIABLES
  sds,     \* the SDS of each string, NULL if there is none
  status,  \* "defined", or the name of what made the last call undefined
  result   \* the last call, with what it was asked and what it returned

vars == <<sds, status, result>>

-----------------------------------------------------------------------------
(* The bytes a string holds.  The sequence data counts from 1, the array   *)
(* data_ and all offsets into it from 0.                                   *)
Text(r) == SubSeq(r.data, 1, r.length)

FirstNul(bytes) == SelectInSeq(bytes, LAMBDA b : b = NUL)

(* What strlen() makes of a sequence that a NUL follows.                   *)
CString(bytes) ==
  IF FirstNul(bytes) = 0 THEN bytes ELSE SubSeq(bytes, 1, FirstNul(bytes) - 1)

(* memcpy(), memmove() or memset() of the bytes to data_ + at.             *)
Write(data, at, bytes) ==
  [i \in DOMAIN data |->
     IF i - at \in DOMAIN bytes THEN bytes[i - at] ELSE data[i]]

(* realloc() to n + 1 bytes keeps what there is.                           *)
Realloc(data, n) ==
  [i \in 1..(n + 1) |-> IF i \in DOMAIN data THEN data[i] ELSE Junk]

Nulls(n) == [i \in 1..n |-> NUL]

(* The size of a string with room for n bytes, which is passed to Malloc(), *)
(* Calloc() or Realloc() as an int, does not fit into one.                 *)
Overflows(n) == SIZEOF_SDS + n + 1 > INT_MAX

(* SDSNewLength(): nothing is free, and the terminator is the last byte.   *)
NewString(bytes) ==
  [length |-> Len(bytes),
   free   |-> 0,
   data   |-> Append(bytes, NUL)]

(* The bytes at `at` are written, a NUL behind them, and the string ends   *)
(* there.                                                                  *)
Ended(r, at, bytes) ==
  [length |-> at + Len(bytes),
   free   |-> r.length + r.free - (at + Len(bytes)),
   data   |-> Write(r.data, at, Append(bytes, NUL))]

-----------------------------------------------------------------------------
(* SDSAllocateMemory().                                                    *)

NewLength(r, need) ==
  LET least == r.length + need
  IN  IF least < SDS_MAX_PREALLOC THEN 2 * least ELSE least + SDS_MAX_PREALLOC

(* Mutant: what was free already is counted as new.                        *)
ReservedTwice(r, need) ==
  IF r.free >= need THEN r
  ELSE [r EXCEPT !.data = Realloc(@, NewLength(r, need)),
                 !.free = @ + NewLength(r, need) - r.length]

Reserved(r, need) ==
  IF r.free >= need THEN r
  ELSE [r EXCEPT !.data = Realloc(@, NewLength(r, need)),
                 !.free = NewLength(r, need) - r.length]

(* The room that is made in advance does not fit.                          *)
GrowsTooLarge(r, need) == r.free < need /\ Overflows(NewLength(r, need))

-----------------------------------------------------------------------------
(* What the calls make of a string.                                        *)

Cleared(r) == Ended(r, 0, <<>>)

Appended(r, bytes) == Ended(Reserved(r, Len(bytes)), r.length, bytes)

(* The room that is asked for is what the whole string lacks.              *)
Copied(r, bytes) == Ended(Reserved(r, Len(bytes) - r.length), 0, bytes)

(* Mutant: the bytes are filled in without asking for room.                *)
GrownInPlace(r, n) ==
  IF r.length > n THEN r
  ELSE [length |-> n,
        free   |-> r.length + r.free - n,
        data   |-> Write(r.data, r.length, Nulls(n - r.length + 1))]

(* Mutant: only the terminator is written.                                 *)
GrownDirty(r, n) ==
  IF r.length > n THEN r
  ELSE Ended(Reserved(r, n - r.length), n, <<>>)

(* The added bytes are NULs, whatever the room held.                       *)
Grown(r, n) ==
  IF r.length > n THEN r
  ELSE LET room == Reserved(r, n - r.length)
       IN  [length |-> n,
            free   |-> r.length + room.free - n,
            data   |-> Write(room.data, r.length, Nulls(n - r.length + 1))]

(* begin < end, so a range of one byte is empty.                           *)
InRange(r, begin, end) == 0 <= begin /\ begin < end /\ end < r.length

Ranged(r, begin, end) ==
  IF r.length = 0 THEN r
  ELSE Ended(r, 0, IF InRange(r, begin, end)
                   THEN SubSeq(Text(r), begin + 1, end + 1) ELSE <<>>)

(* The places of the bytes that are not in the set: the two loops of       *)
(* SDSTrim() stop at the first and at the last of them.                    *)
Kept(r, set) == {i \in 1..r.length : Text(r)[i] \notin ToSet(set)}

Trimmed(r, set) ==
  Ended(r, 0, IF Kept(r, set) = {} THEN <<>>
              ELSE SubSeq(Text(r), Min(Kept(r, set)), Max(Kept(r, set))))

(* map[] is indexed by a char: by one below 0 if the set has such a char,  *)
(* or if one is where a loop stops.                                        *)
LeavesMap(r, set) ==
  \/ \E b \in ToSet(set) : b < 0
  \/ \E i \in Kept(r, set) : Text(r)[i] < 0 /\ i \in {Min(Kept(r, set)), Max(Kept(r, set))}

(* memcmp() compares unsigned chars up to the end of the shorter string.   *)
(* C promises no more than the sign of what it returns.                    *)
Unsigned(b) == b % 256

Compared(r1, r2) ==
  LET differ == {i \in 1..Min({r1.length, r2.length}) : Text(r1)[i] # Text(r2)[i]}
      i == Min(differ)
  IN  IF differ = {} THEN r1.length - r2.length
      ELSE IF Unsigned(Text(r1)[i]) < Unsigned(Text(r2)[i]) THEN -1 ELSE 1

-----------------------------------------------------------------------------
Live(s) == status = "defined" /\ sds[s] # NULL

(* The calls that functions leave in result: with no more argument than    *)
(* the string, with bytes, a number or another string.                     *)
Call(name, s) == [call |-> name, string |-> s]
WithBytes(name, s, bytes) == [call |-> name, string |-> s, bytes |-> bytes]
WithNumber(name, s, n) == [call |-> name, string |-> s, number |-> n]
WithString(name, s, t) == [call |-> name, string |-> s, other |-> t]

Init ==
  /\ sds = [s \in String |-> NULL]
  /\ status = "defined"
  /\ result = NULL

Become(s, r, reply) ==
  /\ sds' = [sds EXCEPT ![s] = r]
  /\ result' = reply
  /\ UNCHANGED status

Undefined(fault, reply) ==
  status' = fault /\ result' = reply /\ UNCHANGED sds

(* SDSNewLength(), to which the functions that make a string delegate.     *)
Make(s, bytes, reply) ==
  /\ status = "defined" /\ sds[s] = NULL
  /\ \/ Overflows(Len(bytes)) /\ Undefined("int_overflow", reply)
     \/ /\ ~Overflows(Len(bytes))
        /\ Len(bytes) <= MaxLength
        /\ Become(s, NewString(bytes), reply)

(* A call on s that reserves room for `need` bytes and then makes r of it. *)
Reserve(s, need, r, reply) ==
  /\ Live(s)
  /\ \/ GrowsTooLarge(sds[s], need) /\ Undefined("int_overflow", reply)
     \/ /\ ~GrowsTooLarge(sds[s], need)
        /\ sds[s].length + need <= MaxLength
        /\ Become(s, r, reply)

AppendBytes(s, bytes, reply) == Reserve(s, Len(bytes), Appended(sds[s], bytes), reply)

CopyBytes(s, bytes, reply) ==
  Reserve(s, Len(bytes) - sds[s].length, Copied(sds[s], bytes), reply)

SDSNewLength(s, bytes) ==
  Make(s, bytes, WithBytes("SDSNewLength", s, bytes))

(* SDSNewLength(NULL, n), and SDSNew(NULL) with n = 0.                     *)
SDSNewNull(s, n) ==
  n >= 0 /\ Make(s, Nulls(n), WithNumber("SDSNewLength", s, n))

SDSNew(s, bytes) ==
  Make(s, CString(bytes), WithBytes("SDSNew", s, bytes))

SDSNewEmpty(s) == Make(s, <<>>, Call("SDSNewEmpty", s))

SDSFree(s) == Live(s) /\ Become(s, NULL, Call("SDSFree", s))

SDSDuplicate(copy, s) ==
  Live(s) /\ Make(copy, Text(sds[s]), WithString("SDSDuplicate", copy, s))

SDSClear(s) == Live(s) /\ Become(s, Cleared(sds[s]), Call("SDSClear", s))

SDSAllocateMemory(s, need) ==
  Reserve(s, need, Reserved(sds[s], need), WithNumber("SDSAllocateMemory", s, need))

SDSAppendLength(s, bytes) ==
  AppendBytes(s, bytes, WithBytes("SDSAppendLength", s, bytes))

SDSAppend(s, bytes) == AppendBytes(s, CString(bytes), WithBytes("SDSAppend", s, bytes))

SDSAppendSDS(s, append) ==
  /\ Live(append)
  /\ AppendBytes(s, Text(sds[append]), WithString("SDSAppendSDS", s, append))

(* A string is appended to itself and has not the room: realloc() may move *)
(* it, and the bytes are then read where it was.                           *)
SDSAppendItself(s) ==
  /\ Live(s)
  /\ sds[s].free < sds[s].length
  /\ Undefined("stale_read", WithString("SDSAppendSDS", s, s))

SDSCopyLength(s, bytes) ==
  Live(s) /\ CopyBytes(s, bytes, WithBytes("SDSCopyLength", s, bytes))

SDSCopy(s, bytes) ==
  Live(s) /\ CopyBytes(s, CString(bytes), WithBytes("SDSCopy", s, bytes))

(* SDSCopy() of another string; memcpy() forbids the string itself.        *)
SDSCopySDS(s, copy) ==
  /\ s # copy /\ Live(s) /\ Live(copy)
  /\ CopyBytes(s, CString(Text(sds[copy])), WithString("SDSCopy", s, copy))

SDSGrowWithNull(s, n) ==
  /\ Live(s)
  /\ Reserve(s, n - sds[s].length, Grown(sds[s], n), WithNumber("SDSGrowWithNull", s, n))

SDSRange(s, begin, end) ==
  /\ Live(s)
  /\ Become(s, Ranged(sds[s], begin, end),
            [call |-> "SDSRange", string |-> s, begin |-> begin, end |-> end])

SDSTrim(s, bytes) ==
  LET set == CString(bytes)
      reply == WithBytes("SDSTrim", s, bytes)
  IN  /\ Live(s)
      /\ \/ LeavesMap(sds[s], set) /\ Undefined("map_out_of_bounds", reply)
         \/ ~LeavesMap(sds[s], set) /\ Become(s, Trimmed(sds[s], set), reply)

SDSCompare(s1, s2) ==
  /\ Live(s1) /\ Live(s2)
  /\ result' = [call |-> "SDSCompare", string |-> s1, other |-> s2,
                returned |-> Compared(sds[s1], sds[s2])]
  /\ UNCHANGED <<sds, status>>

Next ==
  \/ \E s \in String : SDSNewEmpty(s) \/ SDSFree(s) \/ SDSClear(s) \/ SDSAppendItself(s)
  \/ \E s \in String, bytes \in Sources :
       \/ SDSNewLength(s, bytes) \/ SDSNew(s, bytes)
       \/ SDSAppendLength(s, bytes) \/ SDSAppend(s, bytes)
       \/ SDSCopyLength(s, bytes) \/ SDSCopy(s, bytes)
       \/ SDSTrim(s, bytes)
  \/ \E s \in String, n \in Needs :
       SDSNewNull(s, n) \/ SDSAllocateMemory(s, n) \/ SDSGrowWithNull(s, n)
  \/ \E s \in String, begin, end \in Needs : SDSRange(s, begin, end)
  \/ \E s, t \in String :
       SDSDuplicate(s, t) \/ SDSAppendSDS(s, t) \/ SDSCopySDS(s, t) \/ SDSCompare(s, t)

Spec == Init /\ [][Next]_vars

-----------------------------------------------------------------------------
(* Every variable has its type.                                            *)
TypeOK ==
  /\ DOMAIN sds = String
  /\ \A s \in String : sds[s] = NULL \/ sds[s] \in SDS
  /\ status \in {"defined", "int_overflow", "stale_read", "map_out_of_bounds"}
  /\ result = NULL \/ result.string \in String

(* length_ and free_ add up to the bytes that were really allocated, less  *)
(* one for the NUL that ends the string: no call loses room or promises    *)
(* room that is not there, every terminator is inside the allocation, and  *)
(* the size of the allocation, header included, is an int.                 *)
IsAccounted(r) ==
  /\ Len(r.data) = r.length + r.free + 1
  /\ r.data[r.length + 1] = NUL
  /\ ~Overflows(r.length + r.free)

SizesAddUp == \A s \in String : sds[s] # NULL => IsAccounted(sds[s])

Texts == [s \in String |-> IF sds[s] = NULL THEN NULL ELSE Text(sds[s])]

Strings == INSTANCE ByteStrings WITH text <- Texts

(* Each call is one operation on sequences of bytes, whatever room was     *)
(* left by the calls before it: no byte of another string changes, none is *)
(* lost in a move and none that was never written becomes part of a        *)
(* string.  Only a string appended to itself, a char below 0 in SDSTrim()  *)
(* and sizes near INT_MAX are undefined; a duplicate never is.             *)
(* ByteStrings says where SDSRange() and SDSCompare() do less than their   *)
(* comments promise; StringClaims states those promises.                   *)
ImplementsByteStrings == Strings!Spec

=============================================================================
