------------------------- MODULE DynamicStringProofs -------------------------
(***************************************************************************)
(* The sizes of every string add up to its allocation, and every function  *)
(* is one operation on a sequence of bytes, whatever the calls, the bytes  *)
(* and the constants.                                                      *)
(*                                                                         *)
(* What of a string holds the bytes is shown of each array the functions   *)
(* make (Holds), then what ByteStrings says of bytes without an array:     *)
(* that strlen() finds the one part before a NUL, that a trim keeps one    *)
(* part of three, that memcmp() stops at the first difference.             *)
(***************************************************************************)
EXTENDS DynamicString, NaturalLemmas, SequenceTheorems

Cell == Byte \cup {Junk}

(* What the calls preserve of one string: it has its type, its sizes are   *)
(* those of its array, and all its bytes have been written.                *)
IsSound(r) ==
  /\ r \in SDS
  /\ Len(r.data) = r.length + r.free + 1
  /\ r.data[r.length + 1] = NUL
  /\ \A i \in 1..r.length : r.data[i] \in Byte

(* The size that was passed to malloc() or realloc() is an int.            *)
Fits(r) == ~Overflows(r.length + r.free)

(* A string that holds these bytes.                                        *)
Holds(r, bytes) == IsSound(r) /\ Text(r) = bytes

Inv ==
  /\ sds = [s \in String |-> sds[s]]
  /\ \A s \in String : sds[s] = NULL \/ (IsSound(sds[s]) /\ Fits(sds[s]))
  /\ status \in {"defined", "int_overflow", "stale_read", "map_out_of_bounds"}
  /\ result = NULL \/ result.string \in String

-----------------------------------------------------------------------------
(* Sequences of bytes.                                                     *)

LEMMA SoundParts ==
  ASSUME NEW r, IsSound(r)
  PROVE  /\ r.length \in Nat /\ r.free \in Nat /\ r.data \in Seq(Cell)
         /\ r = [length |-> r.length, free |-> r.free, data |-> r.data]
BY DEF IsSound, SDS, Cell

(* The bytes of a string are a sequence as long as the string.             *)
LEMMA TextIsSequence ==
  ASSUME NEW r, IsSound(r)
  PROVE  /\ Text(r) \in Seq(Byte) /\ Len(Text(r)) = r.length
         /\ \A i \in 1..r.length : Text(r)[i] = r.data[i]
<1>1. r.length \in Nat
  BY SoundParts
<1>2. \A i \in 1..r.length : r.data[i] \in Byte
  BY DEF IsSound
<1>3. 1 \in Int /\ r.length \in Int
  BY <1>1
<1>4. /\ SubSeq(r.data, 1, r.length) \in Seq(Byte)
      /\ Len(SubSeq(r.data, 1, r.length)) = IF 1 <= r.length THEN r.length - 1 + 1 ELSE 0
      /\ \A i \in 1..(r.length - 1 + 1) : SubSeq(r.data, 1, r.length)[i] = r.data[1 + i - 1]
  BY <1>2, <1>3, SubSeqProperties
<1>5. \A i \in 1..r.length : i \in 1..(r.length - 1 + 1) /\ 1 + i - 1 = i
  BY <1>1
<1>6. QED BY <1>1, <1>4, <1>5 DEF Text

LEMMA NullsAreBytes ==
  ASSUME NEW n \in Nat
  PROVE  /\ Nulls(n) \in Seq(Byte) /\ Len(Nulls(n)) = n
         /\ Append(Nulls(n), NUL) = Nulls(n + 1)
<1>1. NUL \in Byte
  BY DynamicStringAssumption
<1>2. \A k \in Nat : Nulls(k) \in Seq(Byte) /\ Len(Nulls(k)) = k
  BY <1>1 DEF Nulls
<1>3. /\ Append(Nulls(n), NUL) \in Seq(Byte) /\ Nulls(n + 1) \in Seq(Byte)
      /\ Len(Append(Nulls(n), NUL)) = n + 1 /\ Len(Nulls(n + 1)) = n + 1
  BY <1>1, <1>2
<1>4. \A i \in 1..(n + 1) : Append(Nulls(n), NUL)[i] = Nulls(n + 1)[i]
  BY <1>2 DEF Nulls
<1>5. QED BY <1>2, <1>3, <1>4, SeqEqual

(* A part of a sequence is not longer than the sequence.                   *)
LEMMA PartOf ==
  ASSUME NEW s \in Seq(Byte), NEW m \in 1..(Len(s) + 1), NEW n \in 0..Len(s)
  PROVE  /\ SubSeq(s, m, n) \in Seq(Byte)
         /\ Len(SubSeq(s, m, n)) = (IF m <= n THEN n - m + 1 ELSE 0)
         /\ Len(SubSeq(s, m, n)) <= Len(s)
         /\ \A i \in 1..(n - m + 1) : SubSeq(s, m, n)[i] = s[m + i - 1]
<1>1. \A i \in m..n : s[i] \in Byte
  OBVIOUS
<1>2. m \in Int /\ n \in Int /\ Len(s) \in Nat
  OBVIOUS
<1>3. /\ SubSeq(s, m, n) \in Seq(Byte)
      /\ Len(SubSeq(s, m, n)) = (IF m <= n THEN n - m + 1 ELSE 0)
      /\ \A i \in 1..(n - m + 1) : SubSeq(s, m, n)[i] = s[m + i - 1]
  BY <1>1, <1>2, SubSeqProperties
<1>4. (IF m <= n THEN n - m + 1 ELSE 0) <= Len(s)
  BY <1>2
<1>5. QED BY <1>3, <1>4

(* Where strlen() stops.                                                   *)
StopsAt(bytes, n) ==
  /\ \A i \in 1..n : bytes[i] # NUL
  /\ n = Len(bytes) \/ bytes[n + 1] = NUL

LEMMA CStringIsPart ==
  ASSUME NEW bytes \in Seq(Byte)
  PROVE  \E n \in 0..Len(bytes) : StopsAt(bytes, n) /\ CString(bytes) = SubSeq(bytes, 1, n)
<1> DEFINE I == {i \in 1..Len(bytes) : bytes[i] = NUL}
<1> HIDE DEF I
<1>1. FirstNul(bytes) = IF I # {} THEN Min(I) ELSE 0
  BY DEF FirstNul, SelectInSeq, I
<1>2. CASE I = {}
  <2>1. CString(bytes) = bytes
    BY <1>1, <1>2 DEF CString
  <2>2. SubSeq(bytes, 1, Len(bytes)) = bytes
    BY SubSeqFull
  <2>3. \A i \in 1..Len(bytes) : bytes[i] # NUL
    BY <1>2 DEF I
  <2>4. Len(bytes) \in 0..Len(bytes) /\ StopsAt(bytes, Len(bytes))
    BY <2>3 DEF StopsAt
  <2>5. CString(bytes) = SubSeq(bytes, 1, Len(bytes))
    BY <2>1, <2>2
  <2>6. QED BY <2>4, <2>5
<1>3. CASE I # {}
  <2>1. I \in SUBSET Nat /\ I \subseteq 1..Len(bytes)
    BY DEF I
  <2>2. Min(I) \in I /\ \A y \in I : Min(I) <= y
    BY <1>3, <2>1, MinIsLeast
  <2>3. PICK m \in 1..Len(bytes) : m = Min(I)
    BY <2>1, <2>2
  <2>4. CString(bytes) = SubSeq(bytes, 1, m - 1)
    <3>1. FirstNul(bytes) = m /\ m # 0
      BY <1>1, <1>3, <2>3
    <3>2. QED BY <3>1 DEF CString
  <2>5. \A i \in 1..(m - 1) : bytes[i] # NUL
    <3>1. ASSUME NEW i \in 1..(m - 1) PROVE i \in 1..Len(bytes) /\ ~(m <= i)
      BY <2>3
    <3>2. \A i \in 1..Len(bytes) : bytes[i] = NUL => m <= i
      BY <2>2, <2>3 DEF I
    <3>3. QED BY <3>1, <3>2
  <2>6. m - 1 \in 0..Len(bytes) /\ (m - 1) + 1 = m
    BY <2>3
  <2>7. bytes[m] = NUL
    BY <2>2, <2>3 DEF I
  <2>8. StopsAt(bytes, m - 1)
    BY <2>5, <2>6, <2>7 DEF StopsAt
  <2>9. QED BY <2>4, <2>6, <2>8
<1>4. QED
  BY <1>2, <1>3

LEMMA CStringIsBytes ==
  ASSUME NEW bytes \in Seq(Byte)
  PROVE  CString(bytes) \in Seq(Byte) /\ Len(CString(bytes)) <= Len(bytes)
<1>1. PICK n \in 0..Len(bytes) : CString(bytes) = SubSeq(bytes, 1, n)
  BY CStringIsPart
<1>2. 1 \in 1..(Len(bytes) + 1)
  OBVIOUS
<1>3. QED BY <1>1, <1>2, PartOf

-----------------------------------------------------------------------------
(* What the calls are made of.                                             *)

LEMMA WriteKeepsArray ==
  ASSUME NEW data \in Seq(Cell), NEW at \in Nat, NEW bytes \in Seq(Cell)
  PROVE  /\ Write(data, at, bytes) \in Seq(Cell)
         /\ Len(Write(data, at, bytes)) = Len(data)
         /\ \A i \in 1..Len(data) :
              Write(data, at, bytes)[i] =
                IF i - at \in 1..Len(bytes) THEN bytes[i - at] ELSE data[i]
<1>1. DOMAIN data = 1..Len(data) /\ DOMAIN bytes = 1..Len(bytes) /\ Len(data) \in Nat
  OBVIOUS
<1>2. \A i \in 1..Len(data) :
        (IF i - at \in 1..Len(bytes) THEN bytes[i - at] ELSE data[i]) \in Cell
  OBVIOUS
<1>3. Write(data, at, bytes) =
        [i \in 1..Len(data) |-> IF i - at \in 1..Len(bytes) THEN bytes[i - at] ELSE data[i]]
  BY <1>1 DEF Write
<1>4. QED BY <1>1, <1>2, <1>3

LEMMA NewStringHolds ==
  ASSUME NEW bytes \in Seq(Byte)
  PROVE  Holds(NewString(bytes), bytes)
<1> DEFINE r == NewString(bytes)
<1>1. r.length = Len(bytes) /\ r.free = 0 /\ r.data = Append(bytes, NUL)
  BY DEF NewString
<1>2. NUL \in Cell /\ Byte \subseteq Cell
  BY DynamicStringAssumption DEF Cell
<1>3. /\ Append(bytes, NUL) \in Seq(Cell) /\ Len(Append(bytes, NUL)) = Len(bytes) + 1
      /\ Append(bytes, NUL)[Len(bytes) + 1] = NUL
      /\ \A i \in 1..Len(bytes) : Append(bytes, NUL)[i] = bytes[i] /\ bytes[i] \in Byte
  BY <1>2
<1>4. r \in SDS
  BY <1>3 DEF NewString, SDS, Cell
<1>5. Len(bytes) \in Nat
  OBVIOUS
<1>6. IsSound(r)
  BY <1>1, <1>3, <1>4, <1>5 DEF IsSound
<1> HIDE DEF r
<1>7. Text(r) \in Seq(Byte) /\ Len(Text(r)) = Len(bytes)
      /\ \A i \in 1..Len(bytes) : Text(r)[i] = bytes[i]
  <2>1. /\ Text(r) \in Seq(Byte) /\ Len(Text(r)) = r.length
        /\ \A i \in 1..r.length : Text(r)[i] = r.data[i]
    BY <1>6, TextIsSequence
  <2>2. QED BY <1>1, <1>3, <2>1
<1>8. Text(r) = bytes
  BY <1>7, SeqEqual
<1>9. QED BY <1>6, <1>8 DEF Holds, r

(* The bytes up to `at`, those written behind them and the terminator.     *)
LEMMA Offsets ==
  ASSUME NEW n \in Nat, NEW m \in Nat, NEW f \in Nat, NEW at \in Nat,
         at <= n, at + m <= n + f
  PROVE  /\ \A i \in 1..m : i + at \in 1..(n + f + 1) /\ (i + at) - at = i /\ i \in 1..(m + 1)
         /\ \A i \in 1..at : i \in 1..(n + f + 1) /\ ~(i - at \in 1..(m + 1)) /\ i \in 1..n
         /\ at + m \in Nat /\ n + f - (at + m) \in Nat
         /\ at + m + 1 \in 1..(n + f + 1)
         /\ (at + m + 1) - at = m + 1 /\ m + 1 \in 1..(m + 1)
         /\ n + f + 1 = (at + m) + (n + f - (at + m)) + 1
OBVIOUS

(* Bytes that fit into the room leave the sizes right, and the string has  *)
(* them behind what it had up to there.                                    *)
LEMMA EndedHolds ==
  ASSUME NEW r, IsSound(r), NEW at \in Nat, at <= r.length, NEW bytes \in Seq(Byte),
         at + Len(bytes) <= r.length + r.free
  PROVE  Holds(Ended(r, at, bytes), SubSeq(Text(r), 1, at) \o bytes)
<1> DEFINE all == Append(bytes, NUL)
           e == Ended(r, at, bytes)
<1>1. NUL \in Cell /\ Byte \subseteq Cell
  BY DynamicStringAssumption DEF Cell
<1>2. /\ all \in Seq(Cell) /\ Len(all) = Len(bytes) + 1 /\ all[Len(bytes) + 1] = NUL
      /\ \A i \in 1..Len(bytes) : all[i] = bytes[i] /\ bytes[i] \in Byte
  BY <1>1
<1>3. PICK n \in Nat, m \in Nat, f \in Nat :
        /\ n = r.length /\ m = Len(bytes) /\ f = r.free /\ at <= n /\ at + m <= n + f
        /\ Len(r.data) = n + f + 1 /\ r.data \in Seq(Cell)
  <2>1. r.length \in Nat /\ r.free \in Nat /\ r.data \in Seq(Cell) /\ Len(bytes) \in Nat
    BY SoundParts
  <2>2. Len(r.data) = r.length + r.free + 1
    BY DEF IsSound
  <2>3. QED BY <2>1, <2>2
<1>4. e.length = at + m /\ e.free = n + f - (at + m) /\ e.data = Write(r.data, at, all)
  BY <1>3 DEF Ended
<1> HIDE DEF all
<1>5. /\ e.data \in Seq(Cell) /\ Len(e.data) = n + f + 1
      /\ \A i \in 1..(n + f + 1) :
           e.data[i] = IF i - at \in 1..(m + 1) THEN all[i - at] ELSE r.data[i]
  <2>0. r.data \in Seq(Cell) /\ all \in Seq(Cell)
    BY <1>2, <1>3
  <2>1. /\ Write(r.data, at, all) \in Seq(Cell)
        /\ Len(Write(r.data, at, all)) = Len(r.data)
        /\ \A i \in 1..Len(r.data) :
             Write(r.data, at, all)[i] =
               IF i - at \in 1..Len(all) THEN all[i - at] ELSE r.data[i]
    BY <2>0, WriteKeepsArray
  <2>2. QED BY <1>2, <1>3, <1>4, <2>1
<1>6. \A i \in 1..m : i + at \in 1..(n + f + 1) /\ (i + at) - at = i /\ i \in 1..(m + 1)
  BY <1>3, Offsets
<1>7. \A i \in 1..at : i \in 1..(n + f + 1) /\ ~(i - at \in 1..(m + 1)) /\ i \in 1..n
  BY <1>3, Offsets
<1>8. ASSUME NEW i \in 1..m PROVE e.data[i + at] = bytes[i] /\ e.data[i + at] \in Byte
  <2> HIDE DEF e
  <2>1. e.data[i + at] = all[i]
    BY <1>5, <1>6
  <2>2. QED BY <1>2, <1>3, <2>1
<1>9. \A i \in 1..at : e.data[i] = r.data[i] /\ e.data[i] \in Byte
  BY <1>3, <1>5, <1>7 DEF IsSound
<1>10. IsSound(e)
  <2>1. e \in SDS
    <3>1. at + m \in Nat /\ n + f - (at + m) \in Nat
      BY <1>3, Offsets
    <3>2. e = [length |-> e.length, free |-> e.free, data |-> e.data]
      BY DEF Ended
    <3> HIDE DEF e
    <3>3. QED BY <1>4, <1>5, <3>1, <3>2 DEF SDS, Cell
  <2> HIDE DEF e
  <2>2. Len(e.data) = e.length + e.free + 1
    BY <1>3, <1>4, <1>5, Offsets
  <2>3. e.data[e.length + 1] = NUL
    <3>1. at + m + 1 \in 1..(n + f + 1) /\ (at + m + 1) - at = m + 1 /\ m + 1 \in 1..(m + 1)
      BY <1>3, Offsets
    <3>2. QED BY <1>2, <1>3, <1>4, <1>5, <3>1
  <2>4. ASSUME NEW i \in 1..e.length PROVE e.data[i] \in Byte
    <3>1. CASE i \in 1..at
      BY <1>9, <3>1
    <3>2. CASE ~(i \in 1..at)
      <4>1. i - at \in 1..m /\ (i - at) + at = i
        BY <1>3, <1>4, <2>4, <3>2
      <4>2. QED BY <1>8, <4>1
    <3>3. QED BY <3>1, <3>2
  <2>5. QED BY <2>1, <2>2, <2>3, <2>4 DEF IsSound
<1> HIDE DEF e
<1>11. Text(e) = SubSeq(Text(r), 1, at) \o bytes
  <2>1. /\ Text(e) \in Seq(Byte) /\ Len(Text(e)) = at + m
        /\ \A i \in 1..(at + m) : Text(e)[i] = e.data[i]
    BY <1>4, <1>10, TextIsSequence
  <2>2. /\ Text(r) \in Seq(Byte) /\ Len(Text(r)) = n
        /\ \A i \in 1..n : Text(r)[i] = r.data[i]
    BY <1>3, TextIsSequence
  <2>3. PICK head \in Seq(Byte) :
          /\ head = SubSeq(Text(r), 1, at) /\ Len(head) = at
          /\ \A i \in 1..at : head[i] = r.data[i]
    <3>1. 1 \in 1..(n + 1) /\ at \in 0..n
      BY <1>3
    <3>2. /\ SubSeq(Text(r), 1, at) \in Seq(Byte)
          /\ Len(SubSeq(Text(r), 1, at)) = (IF 1 <= at THEN at - 1 + 1 ELSE 0)
          /\ \A i \in 1..(at - 1 + 1) : SubSeq(Text(r), 1, at)[i] = Text(r)[1 + i - 1]
      BY <2>2, <3>1, PartOf
    <3>3. \A i \in 1..at : i \in 1..(at - 1 + 1) /\ 1 + i - 1 = i /\ i \in 1..n
      BY <3>1
    <3>4. (IF 1 <= at THEN at - 1 + 1 ELSE 0) = at
      BY <3>1
    <3>5. Len(SubSeq(Text(r), 1, at)) = at
      BY <3>2, <3>4
    <3>6. \A i \in 1..at : SubSeq(Text(r), 1, at)[i] = r.data[i]
      BY <2>2, <3>2, <3>3
    <3>7. QED BY <3>2, <3>5, <3>6
  <2>4. /\ head \o bytes \in Seq(Byte) /\ Len(head \o bytes) = at + m
        /\ \A i \in 1..(at + m) : (head \o bytes)[i] = IF i <= at THEN head[i] ELSE bytes[i - at]
    BY <1>3, <2>3, ConcatProperties
  <2>5. ASSUME NEW i \in 1..(at + m) PROVE Text(e)[i] = (head \o bytes)[i]
    <3>1. CASE i <= at
      <4>1. i \in 1..at
        BY <3>1
      <4>2. QED BY <1>9, <2>1, <2>3, <2>4, <3>1, <4>1
    <3>2. CASE ~(i <= at)
      <4>1. i - at \in 1..m /\ (i - at) + at = i
        BY <1>3, <3>2
      <4>2. e.data[i] = bytes[i - at]
        BY <1>8, <4>1
      <4>3. QED BY <2>1, <2>4, <3>2, <4>2
    <3>3. QED BY <3>1, <3>2
  <2>6. QED BY <2>1, <2>3, <2>4, <2>5, SeqEqual
<1>12. QED BY <1>10, <1>11 DEF Holds, e

(* Nothing but the bytes.                                                  *)
LEMMA EndedAtStart ==
  ASSUME NEW r, IsSound(r), NEW bytes \in Seq(Byte), Len(bytes) <= r.length + r.free
  PROVE  Holds(Ended(r, 0, bytes), bytes)
<1>1. r.length \in Nat /\ r.free \in Nat /\ Len(bytes) \in Nat
  BY SoundParts
<1>2. 0 \in Nat /\ 0 <= r.length /\ 0 + Len(bytes) <= r.length + r.free
  BY <1>1
<1>3. Holds(Ended(r, 0, bytes), SubSeq(Text(r), 1, 0) \o bytes)
  BY <1>2, EndedHolds
<1>4. SubSeq(Text(r), 1, 0) = <<>>
  BY SubSeqEmpty
<1>5. <<>> \o bytes = bytes
  BY ConcatEmptySeq
<1>6. QED BY <1>3, <1>4, <1>5

(* The bytes behind what the string had.                                   *)
LEMMA EndedAtEnd ==
  ASSUME NEW r, IsSound(r), NEW bytes \in Seq(Byte), Len(bytes) <= r.free
  PROVE  Holds(Ended(r, r.length, bytes), Text(r) \o bytes)
<1>1. r.length \in Nat /\ r.free \in Nat /\ Len(bytes) \in Nat
  BY SoundParts
<1>2. r.length <= r.length /\ r.length + Len(bytes) <= r.length + r.free
  BY <1>1
<1>3. Holds(Ended(r, r.length, bytes), SubSeq(Text(r), 1, r.length) \o bytes)
  BY <1>1, <1>2, EndedHolds
<1>4. SubSeq(Text(r), 1, r.length) = Text(r)
  BY TextIsSequence, SubSeqFull
<1>5. QED BY <1>3, <1>4

(* SDSAllocateMemory() makes the room, and keeps the string.               *)
LEMMA ReservedHolds ==
  ASSUME NEW r, IsSound(r), NEW need \in Int
  PROVE  /\ Holds(Reserved(r, need), Text(r))
         /\ Reserved(r, need).length = r.length
         /\ Reserved(r, need).free >= need
<1> DEFINE n == NewLength(r, need)
<1>0. r.data \in Seq(Cell)
  BY SoundParts
<1>1. r.length \in Nat /\ r.free \in Nat
  BY SoundParts
<1>2. CASE r.free >= need
  BY <1>2 DEF Reserved, Holds
<1>3. CASE ~(r.free >= need)
  <2>1. n \in Nat /\ n - r.length \in Nat /\ n - r.length >= need
    <3> DEFINE least == r.length + need
    <3>1. least \in Nat /\ least - r.length = need /\ need > 0
      BY <1>1, <1>3
    <3>2. SDS_MAX_PREALLOC \in Nat
      BY DynamicStringAssumption
    <3>3. n = IF least < SDS_MAX_PREALLOC THEN 2 * least ELSE least + SDS_MAX_PREALLOC
      BY DEF NewLength
    <3> HIDE DEF least, n
    <3>4. n \in Nat /\ n >= least
      BY <3>1, <3>2, <3>3
    <3>5. QED BY <1>1, <3>1, <3>4
  <2>2. Reserved(r, need) =
          [length |-> r.length, free |-> n - r.length, data |-> Realloc(r.data, n)]
    <3>1. r = [length |-> r.length, free |-> r.free, data |-> r.data]
      BY SoundParts
    <3>2. Reserved(r, need) = [r EXCEPT !.data = Realloc(@, n), !.free = n - r.length]
      BY <1>3 DEF Reserved
    <3> HIDE DEF n
    <3>3. QED BY <3>1, <3>2
  <2> HIDE DEF n
  <2>3. /\ Realloc(r.data, n) \in Seq(Cell) /\ Len(Realloc(r.data, n)) = n + 1
        /\ \A i \in 1..(n + 1) : i \in 1..Len(r.data) => Realloc(r.data, n)[i] = r.data[i]
    <3>1. DOMAIN r.data = 1..Len(r.data) /\ \A i \in 1..Len(r.data) : r.data[i] \in Cell
      BY <1>0
    <3>2. \A i \in 1..(n + 1) : (IF i \in DOMAIN r.data THEN r.data[i] ELSE Junk) \in Cell
      BY <3>1 DEF Cell
    <3>3. QED BY <2>1, <3>1, <3>2 DEF Realloc
  <2>4. \A i \in 1..(r.length + 1) : i \in 1..(n + 1) /\ i \in 1..Len(r.data)
    <3>1. PICK k \in Nat, f \in Nat : k = r.length /\ f = r.free
      BY <1>1
    <3>2. Len(r.data) = k + f + 1
      BY <3>1 DEF IsSound
    <3>3. n - k \in Nat
      BY <2>1, <3>1
    <3>4. \A i \in 1..(k + 1) : i \in 1..(n + 1) /\ i \in 1..(k + f + 1)
      BY <2>1, <3>3
    <3>5. QED BY <3>1, <3>2, <3>4
  <2>5. \A i \in 1..(r.length + 1) : Realloc(r.data, n)[i] = r.data[i]
    BY <2>3, <2>4
  <2> DEFINE e == Reserved(r, need)
  <2>6. e.length = r.length /\ e.free = n - r.length /\ e.data = Realloc(r.data, n)
    BY <2>2
  <2>7. IsSound(e)
    <3>1. e \in SDS
      BY <1>1, <2>1, <2>2, <2>3 DEF SDS, Cell
    <3> HIDE DEF e
    <3>2. Len(e.data) = e.length + e.free + 1
      <4>1. n + 1 = r.length + (n - r.length) + 1
        BY <1>1, <2>1
      <4>2. QED BY <2>3, <2>6, <4>1
    <3>3. e.data[e.length + 1] = NUL
      <4>1. r.length + 1 \in 1..(r.length + 1)
        BY <1>1
      <4>2. r.data[r.length + 1] = NUL
        BY DEF IsSound
      <4>3. QED BY <2>5, <2>6, <4>1, <4>2
    <3>4. \A i \in 1..e.length : e.data[i] \in Byte
      <4>1. \A i \in 1..r.length : i \in 1..(r.length + 1) /\ r.data[i] \in Byte
        BY <1>1 DEF IsSound
      <4>2. QED BY <2>5, <2>6, <4>1
    <3>5. QED BY <3>1, <3>2, <3>3, <3>4 DEF IsSound
  <2> HIDE DEF e
  <2>8. Text(e) = Text(r)
    <3>1. /\ Text(e) \in Seq(Byte) /\ Len(Text(e)) = r.length
          /\ \A i \in 1..r.length : Text(e)[i] = e.data[i]
      BY <2>6, <2>7, TextIsSequence
    <3>2. /\ Text(r) \in Seq(Byte) /\ Len(Text(r)) = r.length
          /\ \A i \in 1..r.length : Text(r)[i] = r.data[i]
      BY TextIsSequence
    <3>3. \A i \in 1..r.length : i \in 1..(r.length + 1)
      BY <1>1
    <3>4. \A i \in 1..r.length : Text(e)[i] = Text(r)[i]
      BY <2>5, <2>6, <3>1, <3>2, <3>3
    <3>5. QED BY <3>1, <3>2, <3>4, SeqEqual
  <2>9. e.free >= need
    BY <2>1, <2>6
  <2>10. QED BY <2>6, <2>7, <2>8, <2>9 DEF Holds, e
<1>4. QED
  BY <1>2, <1>3

-----------------------------------------------------------------------------
(* What the calls make of a string.                                        *)

LEMMA AppendedHolds ==
  ASSUME NEW r, IsSound(r), NEW bytes \in Seq(Byte)
  PROVE  Holds(Appended(r, bytes), Text(r) \o bytes)
<1>1. PICK room : room = Reserved(r, Len(bytes))
  OBVIOUS
<1>2. /\ IsSound(room) /\ Text(room) = Text(r)
      /\ room.length = r.length /\ room.free >= Len(bytes)
  <2>1. Len(bytes) \in Int
    OBVIOUS
  <2>2. QED BY <1>1, <2>1, ReservedHolds DEF Holds
<1>3. Len(bytes) <= room.free
  <2>1. Len(bytes) \in Nat /\ room.free \in Nat
    BY <1>2, SoundParts
  <2>2. QED BY <1>2, <2>1
<1>4. Holds(Ended(room, room.length, bytes), Text(room) \o bytes)
  BY <1>2, <1>3, EndedAtEnd
<1>5. QED
  BY <1>1, <1>2, <1>4 DEF Appended

LEMMA CopiedHolds ==
  ASSUME NEW r, IsSound(r), NEW bytes \in Seq(Byte)
  PROVE  Holds(Copied(r, bytes), bytes)
<1>1. Len(bytes) \in Nat /\ r.length \in Nat
  BY SoundParts
<1>2. PICK room : room = Reserved(r, Len(bytes) - r.length)
  OBVIOUS
<1>3. IsSound(room) /\ room.length = r.length /\ room.free >= Len(bytes) - r.length
  <2>1. Len(bytes) - r.length \in Int
    BY <1>1
  <2>2. QED BY <1>2, <2>1, ReservedHolds DEF Holds
<1>4. Len(bytes) <= room.length + room.free
  <2>1. room.free \in Nat
    BY <1>3, SoundParts
  <2>2. QED BY <1>1, <1>3, <2>1
<1>5. Holds(Ended(room, 0, bytes), bytes)
  BY <1>3, <1>4, EndedAtStart
<1>6. QED
  BY <1>2, <1>5 DEF Copied

(* A string that is not longer gets NULs up to n; free_ is what is left of *)
(* the room, for all that line 190 adds and subtracts.                     *)
LEMMA GrownHolds ==
  ASSUME NEW r, IsSound(r), NEW n \in Int, ~(r.length > n)
  PROVE  Holds(Grown(r, n), Text(r) \o Nulls(n - r.length))
<1>0. r.length \in Nat
  BY SoundParts
<1>1. PICK k \in Nat, m \in Nat : m = r.length /\ k = n - r.length /\ n = m + k
  BY <1>0
<1>2. PICK room : room = Reserved(r, n - r.length)
  OBVIOUS
<1>3. /\ IsSound(room) /\ Text(room) = Text(r)
      /\ room.length = m /\ room.free >= k
  <2>1. n - r.length \in Int
    BY <1>1
  <2>2. QED BY <1>1, <1>2, <2>1, ReservedHolds DEF Holds
<1>4. Nulls(k) \in Seq(Byte) /\ Len(Nulls(k)) = k /\ Append(Nulls(k), NUL) = Nulls(k + 1)
  BY NullsAreBytes
<1>5. room.free \in Nat /\ k <= room.free
  BY <1>3, SoundParts
<1>6. Holds(Ended(room, m, Nulls(k)), Text(r) \o Nulls(k))
  BY <1>3, <1>4, <1>5, EndedAtEnd
<1>7. Grown(r, n) = [length |-> n, free |-> m + room.free - n,
                     data |-> Write(room.data, m, Nulls(k + 1))]
  BY <1>1, <1>2 DEF Grown
<1>8. Ended(room, m, Nulls(k)) = [length |-> m + k, free |-> m + room.free - (m + k),
                                  data |-> Write(room.data, m, Nulls(k + 1))]
  BY <1>3, <1>4 DEF Ended
<1>9. Grown(r, n) = Ended(room, m, Nulls(k))
  BY <1>1, <1>7, <1>8
<1>10. QED
  BY <1>1, <1>6, <1>9

(* A part of the string moved to its start.                                *)
LEMMA EndedWithPart ==
  ASSUME NEW r, IsSound(r), NEW m \in 1..r.length, NEW n \in 0..r.length
  PROVE  Holds(Ended(r, 0, SubSeq(Text(r), m, n)), SubSeq(Text(r), m, n))
<1>1. Text(r) \in Seq(Byte) /\ Len(Text(r)) = r.length
  BY TextIsSequence
<1>2. r.length \in Nat /\ r.free \in Nat
  BY SoundParts
<1>3. m \in 1..(r.length + 1)
  BY <1>2
<1>4. PICK part : part = SubSeq(Text(r), m, n)
  OBVIOUS
<1>5. part \in Seq(Byte) /\ Len(part) <= r.length
  <2>1. /\ SubSeq(Text(r), m, n) \in Seq(Byte)
        /\ Len(SubSeq(Text(r), m, n)) <= Len(Text(r))
    BY <1>1, <1>3, PartOf
  <2>2. QED BY <1>1, <1>4, <2>1
<1>6. Len(part) <= r.length + r.free
  <2>1. Len(part) \in Nat /\ Len(part) <= r.length
    BY <1>5
  <2>2. QED BY <1>2, <2>1
<1>7. Holds(Ended(r, 0, part), part)
  BY <1>6, <1>5, EndedAtStart
<1>8. QED
  BY <1>4, <1>7

LEMMA ClearedHolds ==
  ASSUME NEW r, IsSound(r)
  PROVE  Holds(Ended(r, 0, <<>>), <<>>)
<1>1. <<>> \in Seq(Byte) /\ Len(<<>>) = 0
  OBVIOUS
<1>2. Len(<<>>) <= r.length + r.free
  BY <1>1, SoundParts
<1>3. QED
  BY <1>1, <1>2, EndedAtStart

(* SDSRange() of more than one byte of the string, and of anything else.   *)
LEMMA RangedHolds ==
  ASSUME NEW r, IsSound(r), NEW begin \in Int, NEW end \in Int
  PROVE  Holds(Ranged(r, begin, end),
               IF InRange(r, begin, end) THEN SubSeq(Text(r), begin + 1, end + 1) ELSE <<>>)
<1>1. CASE r.length = 0
  <2>1. ~InRange(r, begin, end)
    BY <1>1 DEF InRange
  <2>2. Text(r) = <<>>
    <3>1. Text(r) \in Seq(Byte) /\ Len(Text(r)) = 0
      BY <1>1, TextIsSequence
    <3>2. QED BY <3>1
  <2>3. QED BY <1>1, <2>1, <2>2 DEF Ranged, Holds
<1>2. CASE r.length # 0 /\ ~InRange(r, begin, end)
  BY <1>2, ClearedHolds DEF Ranged
<1>3. CASE r.length # 0 /\ InRange(r, begin, end)
  <2>1. begin + 1 \in 1..r.length /\ end + 1 \in 0..r.length
    BY <1>3, SoundParts DEF InRange
  <2>2. Holds(Ended(r, 0, SubSeq(Text(r), begin + 1, end + 1)),
              SubSeq(Text(r), begin + 1, end + 1))
    BY <2>1, EndedWithPart
  <2>3. QED BY <1>3, <2>2 DEF Ranged
<1>4. QED
  BY <1>1, <1>2, <1>3

(* What SDSTrim() leaves goes from the first byte that is not in the set   *)
(* to the last.                                                            *)
LEMMA TrimmedHolds ==
  ASSUME NEW r, IsSound(r), NEW set
  PROVE  \/ /\ Kept(r, set) = {}
            /\ Holds(Trimmed(r, set), <<>>)
         \/ \E a \in 1..r.length : \E b \in a..r.length :
              /\ a = Min(Kept(r, set)) /\ b = Max(Kept(r, set))
              /\ a \in Kept(r, set) /\ b \in Kept(r, set)
              /\ \A i \in Kept(r, set) : a <= i /\ i <= b
              /\ Holds(Trimmed(r, set), SubSeq(Text(r), a, b))
<1>1. PICK K : K = Kept(r, set)
  OBVIOUS
<1>2. PICK n \in Nat : n = r.length
  BY SoundParts
<1>3. K \subseteq 1..n /\ K \in SUBSET Nat /\ K \in SUBSET (0..n)
  BY <1>1, <1>2 DEF Kept
<1>4. CASE K = {}
  BY <1>1, <1>4, ClearedHolds DEF Trimmed
<1>5. CASE K # {}
  <2>1. Min(K) \in K /\ \A y \in K : Min(K) <= y
    BY <1>3, <1>5, MinIsLeast
  <2>2. Max(K) \in K /\ \A y \in K : y <= Max(K)
    BY <1>3, <1>5, MaxIsGreatest
  <2>3. PICK a \in 1..n : a = Min(K)
    BY <1>3, <2>1
  <2>4. PICK b \in a..n : b = Max(K)
    <3>1. a <= Max(K) /\ Max(K) \in 1..n
      BY <1>3, <2>1, <2>2, <2>3
    <3>2. QED BY <3>1
  <2>5. a \in 1..r.length /\ b \in 0..r.length /\ b \in a..r.length
    BY <1>2
  <2>6. Holds(Ended(r, 0, SubSeq(Text(r), a, b)), SubSeq(Text(r), a, b))
    BY <2>5, EndedWithPart
  <2>7. Trimmed(r, set) = Ended(r, 0, SubSeq(Text(r), a, b))
    BY <1>1, <1>5, <2>3, <2>4 DEF Trimmed
  <2>8. a \in K /\ b \in K /\ \A i \in K : a <= i /\ i <= b
    BY <2>1, <2>2, <2>3, <2>4
  <2>9. Holds(Trimmed(r, set), SubSeq(Text(r), a, b))
    BY <2>6, <2>7
  <2>10. QED BY <1>1, <2>3, <2>4, <2>5, <2>8, <2>9
<1>6. QED
  BY <1>4, <1>5

-----------------------------------------------------------------------------
(* The sizes of the allocations: only what asks for room changes them, and *)
(* it asks for no more than an int can say.                                *)

LEMMA NewStringFits ==
  ASSUME NEW bytes \in Seq(Byte), ~Overflows(Len(bytes))
  PROVE  Fits(NewString(bytes))
<1>1. NewString(bytes).length = Len(bytes) /\ NewString(bytes).free = 0
  BY DEF NewString
<1>2. Len(bytes) \in Nat /\ Len(bytes) + 0 = Len(bytes)
  OBVIOUS
<1>3. QED BY <1>1, <1>2 DEF Fits

LEMMA EndedFits ==
  ASSUME NEW r, IsSound(r), Fits(r), NEW at \in Nat, NEW bytes \in Seq(Byte)
  PROVE  Fits(Ended(r, at, bytes))
<1>1. PICK n \in Nat, f \in Nat, m \in Nat : n = r.length /\ f = r.free /\ m = Len(bytes)
  <2>1. r.length \in Nat /\ r.free \in Nat /\ Len(bytes) \in Nat
    BY SoundParts
  <2>2. QED BY <2>1
<1>2. /\ Ended(r, at, bytes).length = at + m
      /\ Ended(r, at, bytes).free = n + f - (at + m)
  BY <1>1 DEF Ended
<1>3. (at + m) + (n + f - (at + m)) = n + f
  OBVIOUS
<1>4. QED BY <1>1, <1>2, <1>3 DEF Fits

LEMMA ReservedFits ==
  ASSUME NEW r, IsSound(r), Fits(r), NEW need \in Int, ~GrowsTooLarge(r, need)
  PROVE  Fits(Reserved(r, need))
<1>1. PICK n \in Nat, f \in Nat : n = r.length /\ f = r.free
  BY SoundParts
<1>2. CASE f >= need
  BY <1>1, <1>2 DEF Reserved
<1>3. CASE ~(f >= need)
  <2>1. ~Overflows(NewLength(r, need))
    BY <1>1, <1>3 DEF GrowsTooLarge
  <2>2. NewLength(r, need) \in Int
    <3>1. SDS_MAX_PREALLOC \in Nat
      BY DynamicStringAssumption
    <3>2. QED BY <1>1, <3>1 DEF NewLength
  <2>3. PICK k \in Int : k = NewLength(r, need)
    BY <2>2
  <2>4. r = [length |-> n, free |-> f, data |-> r.data]
    BY <1>1, SoundParts
  <2>5. Reserved(r, need) = [r EXCEPT !.data = Realloc(@, k), !.free = k - n]
    BY <1>1, <1>3, <2>3 DEF Reserved
  <2>6. Reserved(r, need).length = n /\ Reserved(r, need).free = k - n
    BY <2>4, <2>5
  <2>7. n + (k - n) = k
    OBVIOUS
  <2>8. QED BY <2>1, <2>3, <2>6, <2>7 DEF Fits
<1>4. QED BY <1>2, <1>3

LEMMA AppendedFits ==
  ASSUME NEW r, IsSound(r), Fits(r), NEW bytes \in Seq(Byte), ~GrowsTooLarge(r, Len(bytes))
  PROVE  Fits(Appended(r, bytes))
<1>1. Len(bytes) \in Int /\ r.length \in Nat
  BY SoundParts
<1>2. IsSound(Reserved(r, Len(bytes))) /\ Fits(Reserved(r, Len(bytes)))
  BY <1>1, ReservedHolds, ReservedFits DEF Holds
<1>3. QED BY <1>1, <1>2, EndedFits DEF Appended

LEMMA CopiedFits ==
  ASSUME NEW r, IsSound(r), Fits(r), NEW bytes \in Seq(Byte),
         ~GrowsTooLarge(r, Len(bytes) - r.length)
  PROVE  Fits(Copied(r, bytes))
<1>1. Len(bytes) - r.length \in Int /\ 0 \in Nat
  <2>1. Len(bytes) \in Nat /\ r.length \in Nat
    BY SoundParts
  <2>2. QED BY <2>1
<1>2. PICK room : room = Reserved(r, Len(bytes) - r.length)
  OBVIOUS
<1>3. IsSound(room) /\ Fits(room)
  BY <1>1, <1>2, ReservedHolds, ReservedFits DEF Holds
<1>4. QED BY <1>1, <1>2, <1>3, EndedFits DEF Copied

LEMMA GrownFits ==
  ASSUME NEW r, IsSound(r), Fits(r), NEW n \in Int, ~GrowsTooLarge(r, n - r.length)
  PROVE  Fits(Grown(r, n))
<1>1. CASE r.length > n
  BY <1>1 DEF Grown
<1>2. CASE ~(r.length > n)
  <2>1. n - r.length \in Int
    BY SoundParts
  <2>2. PICK room : room = Reserved(r, n - r.length)
    OBVIOUS
  <2>3. IsSound(room) /\ Fits(room) /\ room.length = r.length
    BY <2>1, <2>2, ReservedHolds, ReservedFits DEF Holds
  <2>4. PICK m \in Nat, f \in Nat : m = room.length /\ f = room.free /\ m = r.length
    BY <2>3, SoundParts
  <2>5. Grown(r, n).length = n /\ Grown(r, n).free = m + f - n
    BY <1>2, <2>2, <2>4 DEF Grown
  <2>6. n + (m + f - n) = m + f
    OBVIOUS
  <2>7. QED BY <2>3, <2>4, <2>5, <2>6 DEF Fits
<1>3. QED BY <1>1, <1>2

LEMMA RangedFits ==
  ASSUME NEW r, IsSound(r), Fits(r), NEW begin \in Int, NEW end \in Int
  PROVE  Fits(Ranged(r, begin, end))
<1>1. CASE r.length = 0
  BY <1>1 DEF Ranged
<1>2. CASE r.length # 0
  <2>1. PICK part : /\ Ranged(r, begin, end) = Ended(r, 0, part)
                    /\ part = IF InRange(r, begin, end)
                              THEN SubSeq(Text(r), begin + 1, end + 1) ELSE <<>>
    BY <1>2 DEF Ranged
  <2>2. part \in Seq(Byte)
    <3>1. CASE InRange(r, begin, end)
      <4>1. PICK t \in Seq(Byte), n \in Nat : t = Text(r) /\ n = r.length /\ n = Len(t)
        BY SoundParts, TextIsSequence
      <4>2. begin + 1 \in 1..(n + 1) /\ end + 1 \in 0..n
        BY <3>1, <4>1 DEF InRange
      <4>3. SubSeq(t, begin + 1, end + 1) \in Seq(Byte)
        BY <4>1, <4>2, PartOf
      <4>4. QED BY <2>1, <3>1, <4>1, <4>3
    <3>2. CASE ~InRange(r, begin, end)
      BY <2>1, <3>2
    <3>3. QED BY <3>1, <3>2
  <2>3. 0 \in Nat
    OBVIOUS
  <2>4. QED BY <2>1, <2>2, <2>3, EndedFits
<1>3. QED BY <1>1, <1>2

LEMMA TrimmedFits ==
  ASSUME NEW r, IsSound(r), Fits(r), NEW set
  PROVE  Fits(Trimmed(r, set))
<1>1. PICK part : /\ Trimmed(r, set) = Ended(r, 0, part)
                  /\ part = IF Kept(r, set) = {} THEN <<>>
                            ELSE SubSeq(Text(r), Min(Kept(r, set)), Max(Kept(r, set)))
  BY DEF Trimmed
<1>2. part \in Seq(Byte)
  <2>1. CASE Kept(r, set) = {}
    BY <1>1, <2>1
  <2>2. CASE Kept(r, set) # {}
    <3>1. PICK t \in Seq(Byte), n \in Nat : t = Text(r) /\ n = r.length /\ n = Len(t)
      BY SoundParts, TextIsSequence
    <3>2. PICK a \in 1..n, b \in 1..n : a = Min(Kept(r, set)) /\ b = Max(Kept(r, set))
      <4>1. PICK a \in 1..n : \E b \in a..n :
              a = Min(Kept(r, set)) /\ b = Max(Kept(r, set))
        BY <2>2, <3>1, TrimmedHolds
      <4>2. PICK b \in a..n : a = Min(Kept(r, set)) /\ b = Max(Kept(r, set))
        BY <4>1
      <4>3. b \in 1..n
        OBVIOUS
      <4>4. QED BY <4>2, <4>3
    <3>3. a \in 1..(n + 1) /\ b \in 0..n
      OBVIOUS
    <3>4. SubSeq(t, a, b) \in Seq(Byte)
      BY <3>1, <3>3, PartOf
    <3>5. QED BY <1>1, <2>2, <3>1, <3>2, <3>4
  <2>3. QED BY <2>1, <2>2
<1>3. 0 \in Nat
  OBVIOUS
<1>4. QED BY <1>1, <1>2, <1>3, EndedFits

-----------------------------------------------------------------------------
(* The bytes that functions read up to a NUL.                              *)

(* ByteStrings has the operators on sequences under names of its own.      *)
LEMMA SameOperators ==
  /\ \A s : /\ Strings!ToSet(s) = ToSet(s) /\ Strings!Prefixes(s) = Prefixes(s)
            /\ Strings!SubSeqs(s) = SubSeqs(s) /\ Strings!Last(s) = Last(s)
            /\ Strings!Cardinality(s) = Cardinality(s)
  /\ \A s, t : Strings!IsPrefix(s, t) <=> IsPrefix(s, t)
<1>1. \A s : Strings!ToSet(s) = ToSet(s)
  BY DEF Strings!ToSet, ToSet
<1>2. \A s : Strings!Prefixes(s) = Prefixes(s)
  BY DEF Strings!Prefixes, Prefixes
<1>3. \A s : Strings!SubSeqs(s) = SubSeqs(s)
  BY DEF Strings!SubSeqs, SubSeqs
<1>4. \A s : Strings!Last(s) = Last(s)
  BY DEF Strings!Last, Last
<1>5. \A s, t : Strings!IsPrefix(s, t) <=> IsPrefix(s, t)
  BY DEF Strings!IsPrefix, IsPrefix
<1>6. \A s : Strings!Cardinality(s) = Cardinality(s)
  BY DEF Strings!Cardinality, Cardinality
<1>7. QED BY <1>1, <1>2, <1>3, <1>4, <1>5, <1>6

LEMMA PrefixIsCString ==
  ASSUME NEW bytes \in Seq(Byte), NEW n \in 0..Len(bytes)
  PROVE  Strings!IsCString(SubSeq(bytes, 1, n), bytes) <=> StopsAt(bytes, n)
<1>0. PICK p : p = SubSeq(bytes, 1, n)
  OBVIOUS
<1>1. /\ p \in Seq(Byte) /\ Len(p) = n
      /\ \A i \in 1..n : p[i] = bytes[i]
  <2>1. 1 \in 1..(Len(bytes) + 1)
    OBVIOUS
  <2>2. /\ SubSeq(bytes, 1, n) \in Seq(Byte)
        /\ Len(SubSeq(bytes, 1, n)) = (IF 1 <= n THEN n - 1 + 1 ELSE 0)
        /\ \A i \in 1..(n - 1 + 1) : SubSeq(bytes, 1, n)[i] = bytes[1 + i - 1]
    BY <2>1, PartOf
  <2>3. /\ (IF 1 <= n THEN n - 1 + 1 ELSE 0) = n
        /\ \A i \in 1..n : i \in 1..(n - 1 + 1) /\ 1 + i - 1 = i
    OBVIOUS
  <2>4. QED BY <1>0, <2>2, <2>3
<1>2. ToSet(p) = {bytes[i] : i \in 1..n}
  BY <1>1 DEF ToSet
<1>3. IsPrefix(p, bytes)
  <2>1. SubSeq(p, 1, n) = p
    BY <1>1, SubSeqFull
  <2>2. QED BY <1>0, <1>1, <2>1 DEF IsPrefix
<1>4. p = bytes <=> n = Len(bytes)
  <2>1. SubSeq(bytes, 1, Len(bytes)) = bytes
    BY SubSeqFull
  <2>2. n = Len(bytes) => p = bytes
    BY <1>0, <2>1
  <2>3. p = bytes => n = Len(bytes)
    BY <1>1
  <2>4. QED BY <2>2, <2>3
<1>5. PICK q : q = Append(p, NUL)
  OBVIOUS
<1>6. /\ q \in Seq(Byte) /\ Len(q) = n + 1 /\ q[n + 1] = NUL
      /\ \A i \in 1..n : q[i] = bytes[i]
  BY <1>1, <1>5, DynamicStringAssumption
<1>7. IsPrefix(q, bytes) <=> n + 1 <= Len(bytes) /\ bytes[n + 1] = NUL
  <2>1. SubSeq(q, 1, n + 1) = q
    BY <1>6, SubSeqFull
  <2>2. IsPrefix(q, bytes) <=> n + 1 <= Len(bytes) /\ q = SubSeq(bytes, 1, n + 1)
    BY <1>6, <2>1 DEF IsPrefix
  <2>3. ASSUME n + 1 <= Len(bytes)
        PROVE  q = SubSeq(bytes, 1, n + 1) <=> bytes[n + 1] = NUL
    <3>1. PICK t : t = SubSeq(bytes, 1, n + 1)
      OBVIOUS
    <3>2. /\ t \in Seq(Byte) /\ Len(t) = n + 1
          /\ \A i \in 1..(n + 1) : t[i] = bytes[i]
      <4>1. 1 \in 1..(Len(bytes) + 1) /\ n + 1 \in 0..Len(bytes)
        BY <2>3
      <4>2. /\ SubSeq(bytes, 1, n + 1) \in Seq(Byte)
            /\ Len(SubSeq(bytes, 1, n + 1)) = (IF 1 <= n + 1 THEN (n + 1) - 1 + 1 ELSE 0)
            /\ \A i \in 1..((n + 1) - 1 + 1) : SubSeq(bytes, 1, n + 1)[i] = bytes[1 + i - 1]
        BY <4>1, PartOf
      <4>3. /\ (IF 1 <= n + 1 THEN (n + 1) - 1 + 1 ELSE 0) = n + 1
            /\ \A i \in 1..(n + 1) : i \in 1..((n + 1) - 1 + 1) /\ 1 + i - 1 = i
        OBVIOUS
      <4>4. QED BY <3>1, <4>2, <4>3
    <3>3. n + 1 \in 1..(n + 1)
      OBVIOUS
    <3>4. q = t => bytes[n + 1] = NUL
      BY <1>6, <3>2, <3>3
    <3>5. ASSUME bytes[n + 1] = NUL PROVE q = t
      <4>1. ASSUME NEW i \in 1..(n + 1) PROVE q[i] = t[i]
        <5>1. i \in 1..n \/ i = n + 1
          OBVIOUS
        <5>2. QED BY <1>6, <3>2, <3>5, <5>1
      <4>2. QED BY <1>6, <3>2, <4>1, SeqEqual
    <3>6. QED BY <3>1, <3>4, <3>5
  <2>4. QED BY <2>2, <2>3
<1>8. Strings!NUL = NUL
  BY DEF Strings!NUL, NUL
<1>9. n # Len(bytes) => n + 1 <= Len(bytes)
  OBVIOUS
<1>10. NUL \notin ToSet(p) <=> \A i \in 1..n : bytes[i] # NUL
  BY <1>2
<1>11. Strings!IsCString(p, bytes) <=>
         /\ NUL \notin ToSet(p) /\ IsPrefix(p, bytes)
         /\ p = bytes \/ IsPrefix(q, bytes)
  BY <1>5, <1>8, SameOperators DEF Strings!IsCString
<1>12. QED BY <1>0, <1>3, <1>4, <1>7, <1>9, <1>10, <1>11 DEF StopsAt

(* There is one such part of the bytes.                                    *)
LEMMA CStringsAgree ==
  ASSUME NEW bytes \in Seq(Byte)
  PROVE  Strings!CString(bytes) = CString(bytes)
<1>1. PICK n \in 0..Len(bytes) : StopsAt(bytes, n) /\ CString(bytes) = SubSeq(bytes, 1, n)
  BY CStringIsPart
<1>2. ASSUME NEW p \in Prefixes(bytes), Strings!IsCString(p, bytes)
      PROVE  p = CString(bytes)
  <2>1. PICK m \in 0..Len(bytes) : p = SubSeq(bytes, 1, m)
    BY DEF Prefixes
  <2>2. StopsAt(bytes, m)
    BY <1>2, <2>1, PrefixIsCString
  <2>3. PICK len \in Nat : len = Len(bytes)
    OBVIOUS
  <2>4. ~(m < n)
    <3>1. SUFFICES ASSUME m < n PROVE FALSE
      OBVIOUS
    <3>2. m # len /\ m + 1 \in 1..n
      BY <2>3, <3>1
    <3>3. QED BY <1>1, <2>2, <2>3, <3>2 DEF StopsAt
  <2>5. ~(n < m)
    <3>1. SUFFICES ASSUME n < m PROVE FALSE
      OBVIOUS
    <3>2. n # len /\ n + 1 \in 1..m
      BY <2>3, <3>1
    <3>3. QED BY <1>1, <2>2, <2>3, <3>2 DEF StopsAt
  <2>6. m = n
    BY <2>3, <2>4, <2>5
  <2>7. QED BY <1>1, <2>1, <2>6
<1>3. CString(bytes) \in Prefixes(bytes) /\ Strings!IsCString(CString(bytes), bytes)
  BY <1>1, PrefixIsCString DEF Prefixes
<1>4. Strings!CString(bytes) = CHOOSE p \in Prefixes(bytes) : Strings!IsCString(p, bytes)
  BY SameOperators DEF Strings!CString
<1>5. QED BY <1>2, <1>3, <1>4

-----------------------------------------------------------------------------
(* The calls: each is one of ByteStrings, on the bytes of the strings.     *)

LEMMA TextIsNotNull ==
  ASSUME NEW bytes \in Seq(Byte)
  PROVE  bytes # NULL
<1>1. bytes \in Seq(Byte \cup {Junk})
  BY SeqMonotonic
<1>2. QED BY <1>1, NullAssumption

LEMMA LiveIsSound ==
  ASSUME Inv, NEW s \in String
  PROVE  /\ Strings!Live(s) <=> Live(s)
         /\ Live(s) => /\ IsSound(sds[s]) /\ Fits(sds[s]) /\ Texts[s] = Text(sds[s])
                       /\ Texts[s] \in Seq(Byte) /\ Len(Texts[s]) = sds[s].length
         /\ Texts[s] = NULL <=> sds[s] = NULL
<1>1. sds[s] # NULL => IsSound(sds[s]) /\ Fits(sds[s])
  BY DEF Inv
<1>2. sds[s] # NULL => Text(sds[s]) \in Seq(Byte) /\ Len(Text(sds[s])) = sds[s].length
  BY <1>1, TextIsSequence
<1>3. sds[s] # NULL => Text(sds[s]) # NULL
  BY <1>2, TextIsNotNull
<1>4. Texts[s] = IF sds[s] = NULL THEN NULL ELSE Text(sds[s])
  BY DEF Texts
<1>5. QED BY <1>1, <1>2, <1>3, <1>4 DEF Live, Strings!Live

(* A call that makes a string of these bytes.                              *)
LEMMA BecomeSets ==
  ASSUME Inv, NEW s \in String, NEW STATE r, NEW STATE bytes, Holds(r, bytes), Fits(r),
         NEW STATE reply, reply.string \in String, Become(s, r, reply)
  PROVE  Inv' /\ Strings!Become(s, bytes)
<1>1. sds' = [sds EXCEPT ![s] = r] /\ result' = reply /\ status' = status
  BY DEF Become
<1>2. sds' = [t \in String |-> IF t = s THEN r ELSE sds[t]]
  BY <1>1 DEF Inv
<1>3. IsSound(r) /\ r # NULL /\ Text(r) = bytes
  <2>1. r \in SDS
    BY DEF Holds, IsSound
  <2>2. QED BY <2>1, NullAssumption DEF Holds
<1>4. \A t \in String : sds'[t] = NULL \/ (IsSound(sds'[t]) /\ Fits(sds'[t]))
  BY <1>2, <1>3 DEF Inv
<1>5. sds' = [t \in String |-> sds'[t]]
  BY <1>2
<1>6. Inv'
  BY <1>1, <1>4, <1>5 DEF Inv
<1>7. Texts' = [Texts EXCEPT ![s] = bytes]
  BY <1>2, <1>3 DEF Texts
<1>8. QED BY <1>1, <1>6, <1>7 DEF Strings!Become

LEMMA FreeSets ==
  ASSUME Inv, NEW s \in String, NEW STATE reply, reply.string \in String,
         Become(s, NULL, reply)
  PROVE  Inv' /\ Strings!Become(s, NULL)
<1>1. sds' = [sds EXCEPT ![s] = NULL] /\ result' = reply /\ status' = status
  BY DEF Become
<1>2. sds' = [t \in String |-> IF t = s THEN NULL ELSE sds[t]]
  BY <1>1 DEF Inv
<1>3. Inv'
  BY <1>1, <1>2 DEF Inv
<1>4. Texts' = [Texts EXCEPT ![s] = NULL]
  BY <1>2 DEF Texts
<1>5. QED BY <1>1, <1>3, <1>4 DEF Strings!Become

(* An undefined call changes no string.                                    *)
LEMMA UndefinedFails ==
  ASSUME Inv, NEW why \in {"int_overflow", "stale_read", "map_out_of_bounds"},
         NEW STATE reply, reply.string \in String, Undefined(why, reply)
  PROVE  Inv' /\ Strings!Fail(why) /\ result' = reply
<1>1. status' = why /\ result' = reply /\ sds' = sds
  BY DEF Undefined
<1>2. Texts' = Texts
  BY <1>1 DEF Texts
<1>3. Inv'
  BY <1>1 DEF Inv
<1>4. QED BY <1>1, <1>2, <1>3 DEF Strings!Fail

LEMMA UndefinedIsSo ==
  ASSUME Inv, NEW s \in String, Live(s),
         NEW why \in {"int_overflow", "stale_read", "map_out_of_bounds"},
         NEW STATE reply, reply.string \in String, Undefined(why, reply)
  PROVE  Inv' /\ Strings!Undefined(s, why) /\ result' = reply
BY UndefinedFails, LiveIsSound DEF Strings!Undefined

(* A new string has its bytes, unless they are too many.                   *)
LEMMA MakeMakes ==
  ASSUME Inv, NEW s \in String, NEW STATE bytes, bytes \in Seq(Byte),
         NEW STATE reply, reply.string \in String, Make(s, bytes, reply)
  PROVE  /\ Inv' /\ Strings!Make(s, bytes) /\ result' = reply
         /\ ~Overflows(Len(bytes)) => Strings!Vacant(s) /\ Strings!Become(s, bytes)
<1>1. /\ status = "defined" /\ sds[s] = NULL
      /\ \/ Overflows(Len(bytes)) /\ Undefined("int_overflow", reply)
         \/ ~Overflows(Len(bytes)) /\ Become(s, NewString(bytes), reply)
  BY DEF Make
<1>2. Strings!Vacant(s)
  BY <1>1, LiveIsSound DEF Strings!Vacant
<1>3. Strings!TooLong(Len(bytes)) <=> Overflows(Len(bytes))
  BY DEF Strings!TooLong, Overflows
<1>4. CASE Overflows(Len(bytes))
  <2>1. Inv' /\ Strings!Fail("int_overflow") /\ result' = reply
    BY <1>1, <1>4, UndefinedFails
  <2>2. QED BY <1>2, <1>3, <1>4, <2>1 DEF Strings!Make
<1>5. CASE ~Overflows(Len(bytes))
  <2>1. Holds(NewString(bytes), bytes) /\ Fits(NewString(bytes))
    BY <1>5, NewStringHolds, NewStringFits
  <2>2. Inv' /\ Strings!Become(s, bytes)
    BY <1>1, <1>5, <2>1, BecomeSets
  <2>3. QED BY <1>1, <1>2, <1>3, <1>5, <2>2 DEF Strings!Make, Become
<1>6. QED BY <1>4, <1>5

(* A call that asks for room has it, or may need more than an int holds.   *)
LEMMA ReserveHolds ==
  ASSUME Inv, NEW s \in String, NEW STATE need, need \in Int, NEW STATE r, NEW STATE bytes,
         Live(s) => Holds(r, bytes),
         Live(s) /\ ~GrowsTooLarge(sds[s], need) => Fits(r),
         NEW STATE reply, reply.string \in String, Reserve(s, need, r, reply)
  PROVE  /\ Inv' /\ result' = reply /\ Live(s)
         /\ Strings!Hold(s, Len(Texts[s]) + need, bytes)
         /\ need <= 0 => Strings!Set(s, bytes)
<1>1. /\ Live(s)
      /\ \/ GrowsTooLarge(sds[s], need) /\ Undefined("int_overflow", reply)
         \/ ~GrowsTooLarge(sds[s], need) /\ Become(s, r, reply)
  BY DEF Reserve
<1>2. CASE GrowsTooLarge(sds[s], need) /\ Undefined("int_overflow", reply)
  <2>1. Inv' /\ Strings!Undefined(s, "int_overflow") /\ result' = reply
    BY <1>1, <1>2, UndefinedIsSo
  <2>2. PICK n \in Nat, f \in Nat : n = sds[s].length /\ f = sds[s].free /\ Len(Texts[s]) = n
    BY <1>1, LiveIsSound, SoundParts
  <2>3. f < need /\ SIZEOF_SDS + NewLength(sds[s], need) + 1 > INT_MAX
    BY <1>2, <2>2 DEF GrowsTooLarge, Overflows
  <2>4. Strings!MayBeTooLong(n + need) /\ ~(need <= 0)
    <3>1. SIZEOF_SDS \in Nat /\ SDS_MAX_PREALLOC \in Nat /\ INT_MAX \in Nat
      BY DynamicStringAssumption
    <3>2. PICK least \in Nat : least = n + need
      BY <2>2, <2>3
    <3>3. NewLength(sds[s], need) =
            IF least < SDS_MAX_PREALLOC THEN 2 * least ELSE least + SDS_MAX_PREALLOC
      BY <2>2, <3>2 DEF NewLength
    <3>4. PICK m \in Nat : m = NewLength(sds[s], need) /\ m <= least + SDS_MAX_PREALLOC
      BY <3>1, <3>3
    <3>5. SIZEOF_SDS + least + SDS_MAX_PREALLOC + 1 > INT_MAX
      BY <2>3, <3>1, <3>4
    <3>6. SIZEOF_SDS + (least + SDS_MAX_PREALLOC) + 1 > INT_MAX
      BY <3>1, <3>5
    <3>7. QED BY <2>2, <2>3, <3>2, <3>6 DEF Strings!MayBeTooLong, Strings!TooLong
  <2>5. QED BY <1>1, <2>1, <2>2, <2>4 DEF Strings!Hold
<1>3. CASE ~GrowsTooLarge(sds[s], need) /\ Become(s, r, reply)
  <2>1. Inv' /\ Strings!Become(s, bytes)
    BY <1>1, <1>3, BecomeSets
  <2>2. Strings!Set(s, bytes)
    BY <1>1, <2>1, LiveIsSound DEF Strings!Set
  <2>3. QED BY <1>1, <1>3, <2>1, <2>2 DEF Strings!Hold, Become
<1>4. QED
  BY <1>1, <1>2, <1>3

-----------------------------------------------------------------------------
(* What SDSRange(), SDSTrim() and SDSCompare() promise of the bytes.       *)

(* What a range keeps is the interval, but for one of a single byte.       *)
LEMMA RangedIsInterval ==
  ASSUME NEW r, IsSound(r), NEW begin \in Int, NEW end \in Int
  PROVE  Holds(Ranged(r, begin, end),
               IF begin = end THEN <<>> ELSE Strings!Interval(Text(r), begin, end))
<1>1. PICK t \in Seq(Byte), n \in Nat : t = Text(r) /\ n = r.length /\ Len(t) = n
  BY SoundParts, TextIsSequence
<1>2. Holds(Ranged(r, begin, end),
            IF InRange(r, begin, end) THEN SubSeq(t, begin + 1, end + 1) ELSE <<>>)
  BY <1>1, RangedHolds
<1>3. InRange(r, begin, end) <=> 0 <= begin /\ begin < end /\ end < n
  BY <1>1 DEF InRange
<1>4. CASE begin = end
  BY <1>2, <1>3, <1>4
<1>5. CASE begin < end
  BY <1>1, <1>2, <1>3, <1>5 DEF Strings!Interval
<1>6. CASE begin > end
  <2>1. Holds(Ranged(r, begin, end), <<>>)
    BY <1>2, <1>3, <1>6
  <2>2. SubSeq(t, begin + 1, end + 1) = <<>>
    <3>1. begin + 1 > end + 1 /\ begin + 1 \in Int /\ end + 1 \in Int
      BY <1>6
    <3>2. QED BY <3>1, SubSeqEmpty
  <2>3. Strings!Interval(t, begin, end) = <<>>
    BY <2>2 DEF Strings!Interval
  <2>4. begin # end
    BY <1>6
  <2>5. QED BY <1>1, <2>1, <2>3, <2>4
<1>7. QED BY <1>4, <1>5, <1>6

(* A sequence is what is before, in and behind a part of it.               *)
LEMMA InThreeParts ==
  ASSUME NEW t \in Seq(Byte), NEW a \in 1..Len(t), NEW b \in a..Len(t)
  PROVE  \E before, middle, after \in SubSeqs(t) :
           /\ t = before \o middle \o after /\ middle = SubSeq(t, a, b)
           /\ ToSet(before \o after) = {t[i] : i \in 1..(a - 1) \cup (b + 1)..Len(t)}
           /\ middle # <<>> /\ Head(middle) = t[a] /\ Last(middle) = t[b]
<1>1. PICK n \in Nat, x \in Nat, y \in Nat : n = Len(t) /\ x = a - 1 /\ y = b /\ a = x + 1
  OBVIOUS
<1>2. x < y /\ y <= n /\ x \in 0..n /\ y \in 0..n /\ 0 \in 0..n /\ n \in 0..n
  BY <1>1
<1>3. PICK before, middle, after :
        before = SubSeq(t, 1, x) /\ middle = SubSeq(t, x + 1, y) /\ after = SubSeq(t, y + 1, n)
  OBVIOUS
<1>4. before \in SubSeqs(t) /\ middle \in SubSeqs(t) /\ after \in SubSeqs(t)
  <2>1. \A i, j \in 0..n : SubSeq(t, i + 1, j) \in SubSeqs(t)
    BY <1>1 DEF SubSeqs
  <2>2. before = SubSeq(t, 0 + 1, x)
    BY <1>3
  <2>3. before \in SubSeqs(t)
    BY <1>2, <2>1, <2>2
  <2>4. middle \in SubSeqs(t) /\ after \in SubSeqs(t)
    BY <1>2, <1>3, <2>1
  <2>5. QED BY <2>3, <2>4
<1>5. /\ before \in Seq(Byte) /\ Len(before) = x
      /\ \A i \in 1..x : before[i] = t[i]
  <2>1. 1 \in 1..(n + 1)
    OBVIOUS
  <2>2. /\ before \in Seq(Byte) /\ Len(before) = (IF 1 <= x THEN x - 1 + 1 ELSE 0)
        /\ \A i \in 1..(x - 1 + 1) : before[i] = t[1 + i - 1]
    BY <1>1, <1>2, <1>3, <2>1, PartOf
  <2>3. /\ (IF 1 <= x THEN x - 1 + 1 ELSE 0) = x
        /\ \A i \in 1..x : i \in 1..(x - 1 + 1) /\ 1 + i - 1 = i
    OBVIOUS
  <2>4. QED BY <2>2, <2>3
<1>6. /\ middle \in Seq(Byte) /\ Len(middle) = y - x
      /\ \A i \in 1..(y - x) : middle[i] = t[x + i]
  <2>1. x + 1 \in 1..(n + 1)
    BY <1>2
  <2>2. /\ middle \in Seq(Byte) /\ Len(middle) = (IF x + 1 <= y THEN y - (x + 1) + 1 ELSE 0)
        /\ \A i \in 1..(y - (x + 1) + 1) : middle[i] = t[(x + 1) + i - 1]
    BY <1>1, <1>2, <1>3, <2>1, PartOf
  <2>3. /\ (IF x + 1 <= y THEN y - (x + 1) + 1 ELSE 0) = y - x
        /\ \A i \in 1..(y - x) : i \in 1..(y - (x + 1) + 1) /\ (x + 1) + i - 1 = x + i
    BY <1>2
  <2>4. QED BY <2>2, <2>3
<1>7. /\ after \in Seq(Byte) /\ Len(after) = n - y
      /\ \A i \in 1..(n - y) : after[i] = t[y + i]
  <2>1. y + 1 \in 1..(n + 1)
    BY <1>2
  <2>2. /\ after \in Seq(Byte) /\ Len(after) = (IF y + 1 <= n THEN n - (y + 1) + 1 ELSE 0)
        /\ \A i \in 1..(n - (y + 1) + 1) : after[i] = t[(y + 1) + i - 1]
    BY <1>1, <1>2, <1>3, <2>1, PartOf
  <2>3. /\ (IF y + 1 <= n THEN n - (y + 1) + 1 ELSE 0) = n - y
        /\ \A i \in 1..(n - y) : i \in 1..(n - (y + 1) + 1) /\ (y + 1) + i - 1 = y + i
    BY <1>2
  <2>4. QED BY <2>2, <2>3
<1>8. t = before \o middle \o after
  <2>1. before \o middle = SubSeq(t, 1, y)
    <3>1. 1 \in 1..(Len(t) + 1) /\ x \in (1 - 1)..Len(t) /\ y \in x..Len(t)
      BY <1>1, <1>2
    <3>2. QED BY <1>3, <3>1, ConcatAdjacentSubSeq
  <2>2. SubSeq(t, 1, y) \o after = SubSeq(t, 1, n)
    <3>1. 1 \in 1..(Len(t) + 1) /\ y \in (1 - 1)..Len(t) /\ n \in y..Len(t)
      BY <1>1, <1>2
    <3>2. QED BY <1>3, <3>1, ConcatAdjacentSubSeq
  <2>3. SubSeq(t, 1, n) = t
    BY <1>1, SubSeqFull
  <2>4. QED BY <2>1, <2>2, <2>3
<1>9. middle # <<>> /\ Head(middle) = t[a] /\ Last(middle) = t[b]
  <2>1. 1 \in 1..(y - x) /\ y - x \in 1..(y - x) /\ x + (y - x) = y
    BY <1>2
  <2>2. middle[1] = t[x + 1] /\ middle[y - x] = t[y]
    BY <1>6, <2>1
  <2>3. middle # <<>>
    BY <1>6, <2>1
  <2>4. Head(middle) = middle[1]
    BY <1>6, <2>3
  <2>5. Last(middle) = middle[y - x]
    BY <1>6 DEF Last
  <2>6. QED BY <1>1, <2>2, <2>3, <2>4, <2>5
<1>10. ToSet(before \o after) = {t[i] : i \in 1..x \cup (y + 1)..n}
  <2>0. PICK q : q = before \o after
    OBVIOUS
  <2>1. /\ q \in Seq(Byte) /\ Len(q) = x + (n - y)
        /\ \A i \in 1..(x + (n - y)) :
             q[i] = IF i <= x THEN before[i] ELSE after[i - x]
    <3>1. /\ before \o after \in Seq(Byte)
          /\ Len(before \o after) = Len(before) + Len(after)
          /\ \A i \in 1..(Len(before) + Len(after)) :
               (before \o after)[i] =
                 IF i <= Len(before) THEN before[i] ELSE after[i - Len(before)]
      BY <1>5, <1>7, ConcatProperties
    <3>2. QED BY <1>5, <1>7, <2>0, <3>1
  <2>2. ToSet(q) = {q[i] : i \in 1..(x + (n - y))}
    <3>1. DOMAIN q = 1..(x + (n - y))
      BY <2>1
    <3>2. QED BY <3>1 DEF ToSet
  <2>3. ASSUME NEW i \in 1..(x + (n - y))
        PROVE  \E j \in 1..x \cup (y + 1)..n : q[i] = t[j]
    <3>1. CASE i <= x
      <4>1. i \in 1..x
        BY <3>1
      <4>2. QED BY <1>5, <2>1, <3>1, <4>1
    <3>2. CASE ~(i <= x)
      <4>1. i - x \in 1..(n - y) /\ y + (i - x) \in (y + 1)..n
        BY <1>2, <3>2
      <4>2. q[i] = t[y + (i - x)]
        BY <1>7, <2>1, <3>2, <4>1
      <4>3. QED BY <4>1, <4>2
    <3>3. QED BY <3>1, <3>2
  <2>4. ASSUME NEW j \in 1..x \cup (y + 1)..n
        PROVE  \E i \in 1..(x + (n - y)) : q[i] = t[j]
    <3>1. CASE j \in 1..x
      <4>1. j \in 1..(x + (n - y)) /\ j <= x
        BY <1>2, <3>1
      <4>2. QED BY <1>5, <2>1, <3>1, <4>1
    <3>2. CASE j \in (y + 1)..n
      <4>1. PICK i \in Nat : i = x + (j - y)
        BY <1>2, <3>2
      <4>2. /\ i \in 1..(x + (n - y)) /\ ~(i <= x)
            /\ i - x \in 1..(n - y) /\ y + (i - x) = j
        BY <1>2, <3>2, <4>1
      <4>3. q[i] = t[j]
        BY <1>7, <2>1, <4>2
      <4>4. QED BY <4>2, <4>3
    <3>3. QED BY <3>1, <3>2
  <2>5. {q[i] : i \in 1..(x + (n - y))} = {t[i] : i \in 1..x \cup (y + 1)..n}
    <3>1. PICK I, J : I = 1..(x + (n - y)) /\ J = 1..x \cup (y + 1)..n
      OBVIOUS
    <3>2. /\ \A i \in I : \E j \in J : q[i] = t[j]
          /\ \A j \in J : \E i \in I : q[i] = t[j]
      BY <2>3, <2>4, <3>1
    <3>3. {q[i] : i \in I} = {t[i] : i \in J}
      BY <3>2
    <3>4. QED BY <3>1, <3>3
  <2>6. QED BY <2>0, <2>2, <2>5
<1>11. x = a - 1 /\ y = b /\ n = Len(t) /\ middle = SubSeq(t, a, b)
  BY <1>1, <1>3
<1>12. QED BY <1>4, <1>8, <1>9, <1>10, <1>11

(* SDSTrim() loses what the string starts and ends with of the set, and    *)
(* indexes map[] by nothing below 0 unless it meets such a byte.           *)
TrimsTo(r, set, before, middle, after) ==
  LET S == ToSet(set)
  IN  /\ Text(r) = before \o middle \o after
      /\ ToSet(before \o after) \subseteq S
      /\ middle # <<>> => Head(middle) \notin S /\ Last(middle) \notin S
      /\ LeavesMap(r, set) <=>
           \E b \in S \cup (IF middle = <<>> THEN {} ELSE {Head(middle), Last(middle)}) : b < 0
      /\ Holds(Trimmed(r, set), middle)

LEMMA TrimParts ==
  ASSUME NEW r, IsSound(r), NEW set
  PROVE  \E before, middle, after \in SubSeqs(Text(r)) : TrimsTo(r, set, before, middle, after)
<1>. PICK t, S : t = Text(r) /\ S = ToSet(set)
  OBVIOUS
<1>1. t \in Seq(Byte) /\ Len(t) = r.length
  BY TextIsSequence
<1>2. PICK n \in Nat : n = r.length /\ Len(t) = n
  BY <1>1, SoundParts
<1>3. PICK K : K = Kept(r, set) /\ K = {i \in 1..n : t[i] \notin S}
  BY <1>2 DEF Kept
<1>4. LeavesMap(r, set) <=>
        \/ \E b \in S : b < 0
        \/ \E i \in K : t[i] < 0 /\ i \in {Min(K), Max(K)}
  BY <1>3 DEF LeavesMap
<1>5. CASE K = {}
  <2>1. Holds(Trimmed(r, set), <<>>)
    BY <1>3, <1>5, TrimmedHolds
  <2>2. t \in SubSeqs(t) /\ <<>> \in SubSeqs(t)
    <3>1. \A i, j \in 0..n : SubSeq(t, i + 1, j) \in SubSeqs(t)
      BY <1>2 DEF SubSeqs
    <3>2. 0 \in 0..n /\ n \in 0..n
      OBVIOUS
    <3>3. SubSeq(t, 0 + 1, n) = t
      BY <1>1, <1>2, SubSeqFull
    <3>4. SubSeq(t, 0 + 1, 0) = <<>>
      BY SubSeqEmpty
    <3>5. QED BY <3>1, <3>2, <3>3, <3>4
  <2>3. t \o <<>> = t /\ t \o <<>> \o <<>> = t
    BY <1>1, ConcatEmptySeq
  <2>4. ToSet(t) \subseteq S
    <3>1. DOMAIN t = 1..n
      BY <1>1, <1>2
    <3>2. QED BY <1>3, <1>5, <3>1 DEF ToSet
  <2>5. PICK middle : middle = <<>>
    OBVIOUS
  <2>6. LeavesMap(r, set) <=>
          \E b \in S \cup (IF middle = <<>> THEN {} ELSE {Head(middle), Last(middle)}) : b < 0
    BY <1>4, <1>5, <2>5
  <2>7. TrimsTo(r, set, t, middle, <<>>)
    BY <2>1, <2>3, <2>4, <2>5, <2>6 DEF TrimsTo
  <2>8. QED BY <2>2, <2>5, <2>7
<1>6. CASE K # {}
  <2>1. PICK a \in 1..n : \E b \in a..n :
          /\ a = Min(K) /\ b = Max(K) /\ a \in K /\ b \in K
          /\ \A i \in K : a <= i /\ i <= b
          /\ Holds(Trimmed(r, set), SubSeq(t, a, b))
    BY <1>2, <1>3, <1>6, TrimmedHolds
  <2>2. PICK b \in a..n :
          /\ a = Min(K) /\ b = Max(K) /\ a \in K /\ b \in K
          /\ \A i \in K : a <= i /\ i <= b
          /\ Holds(Trimmed(r, set), SubSeq(t, a, b))
    BY <2>1
  <2>3. PICK before, middle, after \in SubSeqs(t) :
          /\ t = before \o middle \o after /\ middle = SubSeq(t, a, b)
          /\ ToSet(before \o after) = {t[i] : i \in 1..(a - 1) \cup (b + 1)..Len(t)}
          /\ middle # <<>> /\ Head(middle) = t[a] /\ Last(middle) = t[b]
    <3>1. a \in 1..Len(t) /\ b \in a..Len(t)
      BY <1>2
    <3>2. QED BY <1>1, <3>1, InThreeParts
  <2>4. \A i \in 1..(a - 1) \cup (b + 1)..n : t[i] \in S
    <3>1. ASSUME NEW i \in 1..(a - 1) \cup (b + 1)..n
          PROVE  i \in 1..n /\ ~(a <= i /\ i <= b)
      OBVIOUS
    <3>2. \A i \in 1..n : t[i] \notin S => a <= i /\ i <= b
      BY <1>3, <2>2
    <3>3. QED BY <3>1, <3>2
  <2>5. ToSet(before \o after) \subseteq S
    BY <1>2, <2>3, <2>4
  <2>6. Head(middle) \notin S /\ Last(middle) \notin S
    <3>1. a \in K /\ b \in K
      BY <2>2
    <3>2. t[a] \notin S /\ t[b] \notin S
      BY <1>3, <3>1
    <3>3. QED BY <2>3, <3>2
  <2>7. (\E i \in K : t[i] < 0 /\ i \in {Min(K), Max(K)}) <=> t[a] < 0 \/ t[b] < 0
    BY <2>2
  <2>8. LeavesMap(r, set) <=>
          \E c \in S \cup (IF middle = <<>> THEN {} ELSE {Head(middle), Last(middle)}) : c < 0
    BY <1>4, <2>3, <2>7
  <2>9. Holds(Trimmed(r, set), middle)
    BY <2>2, <2>3
  <2>10. TrimsTo(r, set, before, middle, after)
    BY <2>3, <2>5, <2>6, <2>8, <2>9 DEF TrimsTo
  <2>11. QED BY <2>3, <2>10
<1>7. QED BY <1>5, <1>6

(* a is before b because of what follows their first n bytes.              *)
BeforeAt(a, b, n) ==
  /\ n <= Len(a) /\ n + 1 <= Len(b)
  /\ \A j \in 1..n : a[j] = b[j]
  /\ n + 1 <= Len(a) => Unsigned(a[n + 1]) < Unsigned(b[n + 1])

LEMMA BeforeIsAt ==
  ASSUME NEW a \in Seq(Byte), NEW b \in Seq(Byte)
  PROVE  Strings!Before(a, b) <=> \E n \in Nat : BeforeAt(a, b, n)
<1>1. PICK x \in Nat, y \in Nat :
        x = Len(a) /\ y = Len(b) /\ DOMAIN a = 1..x /\ DOMAIN b = 1..y
  OBVIOUS
<1>2. ASSUME NEW s \in Seq(Byte), NEW n \in 0..Len(s)
      PROVE  /\ SubSeq(s, 1, n) \in Seq(Byte) /\ Len(SubSeq(s, 1, n)) = n
             /\ \A j \in 1..n : SubSeq(s, 1, n)[j] = s[j]
  <2>1. 1 \in 1..(Len(s) + 1)
    OBVIOUS
  <2>2. /\ SubSeq(s, 1, n) \in Seq(Byte)
        /\ Len(SubSeq(s, 1, n)) = (IF 1 <= n THEN n - 1 + 1 ELSE 0)
        /\ \A i \in 1..(n - 1 + 1) : SubSeq(s, 1, n)[i] = s[1 + i - 1]
    BY <2>1, PartOf
  <2>3. /\ (IF 1 <= n THEN n - 1 + 1 ELSE 0) = n
        /\ \A i \in 1..n : i \in 1..(n - 1 + 1) /\ 1 + i - 1 = i
    OBVIOUS
  <2>4. QED BY <2>2, <2>3
<1>3. Strings!Before(a, b) <=>
        \E p \in Prefixes(a) \cap Prefixes(b) :
          /\ Len(p) + 1 \in 1..y
          /\ Len(p) + 1 \in 1..x => a[Len(p) + 1] % 256 < b[Len(p) + 1] % 256
  BY <1>1, SameOperators DEF Strings!Before
<1>4. ASSUME NEW p \in Prefixes(a) \cap Prefixes(b), Len(p) + 1 \in 1..y,
             Len(p) + 1 \in 1..x => a[Len(p) + 1] % 256 < b[Len(p) + 1] % 256
      PROVE  \E n \in Nat : BeforeAt(a, b, n)
  <2>1. PICK n \in 0..x : p = SubSeq(a, 1, n)
    BY <1>1 DEF Prefixes
  <2>2. PICK m \in 0..y : p = SubSeq(b, 1, m)
    BY <1>1 DEF Prefixes
  <2>3. Len(p) = n /\ \A j \in 1..n : p[j] = a[j]
    BY <1>1, <1>2, <2>1
  <2>4. Len(p) = m /\ \A j \in 1..m : p[j] = b[j]
    BY <1>1, <1>2, <2>2
  <2>5. n <= x /\ n + 1 <= y /\ n \in Nat /\ (n + 1 <= x => n + 1 \in 1..x)
    BY <1>4, <2>3
  <2>6. BeforeAt(a, b, n)
    BY <1>1, <1>4, <2>3, <2>4, <2>5 DEF BeforeAt, Unsigned
  <2>7. QED BY <2>5, <2>6
<1>5. ASSUME NEW n \in Nat, BeforeAt(a, b, n)
      PROVE  \E p \in Prefixes(a) \cap Prefixes(b) :
               /\ Len(p) + 1 \in 1..y
               /\ Len(p) + 1 \in 1..x => a[Len(p) + 1] % 256 < b[Len(p) + 1] % 256
  <2>1. n \in 0..x /\ n \in 0..y /\ n + 1 \in 1..y /\ (n + 1 \in 1..x => n + 1 <= x)
    BY <1>1, <1>5 DEF BeforeAt
  <2>2. PICK p, q : p = SubSeq(a, 1, n) /\ q = SubSeq(b, 1, n)
    OBVIOUS
  <2>3. p \in Prefixes(a) /\ q \in Prefixes(b)
    BY <1>1, <2>1, <2>2 DEF Prefixes
  <2>4. p \in Seq(Byte) /\ Len(p) = n /\ \A j \in 1..n : p[j] = a[j]
    BY <1>1, <1>2, <2>1, <2>2
  <2>5. q \in Seq(Byte) /\ Len(q) = n /\ \A j \in 1..n : q[j] = b[j]
    BY <1>1, <1>2, <2>1, <2>2
  <2>6. \A j \in 1..n : p[j] = q[j]
    BY <1>5, <2>4, <2>5 DEF BeforeAt
  <2>7. p = q
    BY <2>4, <2>5, <2>6, SeqEqual
  <2>8. n + 1 \in 1..x => a[n + 1] % 256 < b[n + 1] % 256
    BY <1>1, <1>5, <2>1 DEF BeforeAt, Unsigned
  <2>9. QED BY <2>1, <2>3, <2>4, <2>7, <2>8
<1>6. QED BY <1>3, <1>4, <1>5

(* Bytes that differ do so without their signs.                            *)
LEMMA UnsignedByte ==
  ASSUME NEW x \in Byte
  PROVE  x \in Int /\ Unsigned(x) = (IF x < 0 THEN x + 256 ELSE x)
         /\ Unsigned(x) \in 0..255 /\ Unsigned(x) \in Nat
<1>1. PICK b \in -128..127 : b = x
  BY DynamicStringAssumption
<1>2. b % 256 = IF b < 0 THEN b + 256 ELSE b
  OBVIOUS
<1>3. /\ (IF b < 0 THEN b + 256 ELSE b) \in 0..255
      /\ (IF b < 0 THEN b + 256 ELSE b) \in Nat
  OBVIOUS
<1>4. QED BY <1>1, <1>2, <1>3 DEF Unsigned

LEMMA UnsignedIsInjective ==
  ASSUME NEW x \in Byte, NEW y \in Byte, x # y
  PROVE  /\ Unsigned(x) \in Nat /\ Unsigned(y) \in Nat /\ Unsigned(x) # Unsigned(y)
<1>1. x \in -128..127 /\ y \in -128..127
  BY DynamicStringAssumption
<1>2. /\ Unsigned(x) = (IF x < 0 THEN x + 256 ELSE x)
      /\ Unsigned(y) = (IF y < 0 THEN y + 256 ELSE y)
  BY UnsignedByte
<1>3. (IF x < 0 THEN x + 256 ELSE x) # (IF y < 0 THEN y + 256 ELSE y)
  BY <1>1
<1>4. Unsigned(x) \in Nat /\ Unsigned(y) \in Nat
  BY UnsignedByte
<1>5. QED BY <1>2, <1>3, <1>4

(* The first difference decides, and the lengths if there is none.         *)
LEMMA FirstDifference ==
  ASSUME NEW a \in Seq(Byte), NEW b \in Seq(Byte), NEW i \in Nat \ {0},
         i <= Len(a), i <= Len(b), a[i] # b[i], \A j \in 1..(i - 1) : a[j] = b[j]
  PROVE  Strings!Before(a, b) <=> Unsigned(a[i]) < Unsigned(b[i])
<1>1. PICK x \in Nat, y \in Nat : x = Len(a) /\ y = Len(b) /\ i <= x /\ i <= y
  OBVIOUS
<1>2. i \in 1..x /\ i \in 1..y /\ a[i] \in Byte /\ b[i] \in Byte
  BY <1>1
<1>3. ASSUME NEW n \in Nat, BeforeAt(a, b, n) PROVE Unsigned(a[i]) < Unsigned(b[i])
  <2>1. /\ n <= x /\ n + 1 <= y /\ \A j \in 1..n : a[j] = b[j]
        /\ n + 1 <= x => Unsigned(a[n + 1]) < Unsigned(b[n + 1])
    BY <1>1, <1>3 DEF BeforeAt
  <2>2. ~(i <= n)
    <3>1. i <= n => i \in 1..n
      OBVIOUS
    <3>2. QED BY <2>1, <3>1
  <2>3. ~(n + 1 < i)
    <3>1. SUFFICES ASSUME n + 1 < i PROVE FALSE
      OBVIOUS
    <3>2. n + 1 \in 1..(i - 1) /\ n + 1 <= x /\ n + 1 \in 1..x /\ n + 1 \in 1..y
      BY <1>1, <3>1
    <3>3. a[n + 1] = b[n + 1] /\ a[n + 1] \in Byte
      BY <1>1, <3>2
    <3>4. PICK u \in Nat : u = Unsigned(a[n + 1])
      <4>1. PICK x0 \in Byte : x0 = a[n + 1]
        BY <3>3
      <4>2. Unsigned(x0) \in Nat
        BY UnsignedByte
      <4>3. QED BY <4>1, <4>2
    <3>5. u < u
      BY <2>1, <3>2, <3>3, <3>4
    <3>6. QED BY <3>5
  <2>4. n + 1 = i
    BY <2>2, <2>3
  <2>5. QED BY <1>1, <2>1, <2>4
<1>4. ASSUME Unsigned(a[i]) < Unsigned(b[i]) PROVE \E n \in Nat : BeforeAt(a, b, n)
  <2>1. PICK n \in Nat : n + 1 = i /\ n = i - 1
    OBVIOUS
  <2>2. n <= x /\ n + 1 <= y
    BY <1>1, <2>1
  <2>3. BeforeAt(a, b, n)
    BY <1>1, <1>4, <2>1, <2>2 DEF BeforeAt
  <2>4. QED BY <2>3
<1>5. QED BY <1>3, <1>4, BeforeIsAt

LEMMA NoDifference ==
  ASSUME NEW a \in Seq(Byte), NEW b \in Seq(Byte),
         \A j \in Nat \ {0} : j <= Len(a) /\ j <= Len(b) => a[j] = b[j]
  PROVE  Strings!Before(a, b) <=> Len(a) < Len(b)
<1>1. PICK x \in Nat, y \in Nat : x = Len(a) /\ y = Len(b)
  OBVIOUS
<1>2. ASSUME NEW n \in Nat, BeforeAt(a, b, n) PROVE x < y
  <2>1. /\ n <= x /\ n + 1 <= y
        /\ n + 1 <= x => Unsigned(a[n + 1]) < Unsigned(b[n + 1])
    BY <1>1, <1>2 DEF BeforeAt
  <2>2. ~(n + 1 <= x)
    <3>1. SUFFICES ASSUME n + 1 <= x PROVE FALSE
      OBVIOUS
    <3>2. n + 1 \in Nat \ {0} /\ n + 1 \in 1..x
      BY <3>1
    <3>3. a[n + 1] = b[n + 1] /\ a[n + 1] \in Byte
      BY <1>1, <2>1, <3>1, <3>2
    <3>4. PICK u \in Nat : u = Unsigned(a[n + 1])
      <4>1. PICK x0 \in Byte : x0 = a[n + 1]
        BY <3>3
      <4>2. Unsigned(x0) \in Nat
        BY UnsignedByte
      <4>3. QED BY <4>1, <4>2
    <3>5. u < u
      BY <2>1, <3>1, <3>3, <3>4
    <3>6. QED BY <3>5
  <2>3. QED BY <2>1, <2>2
<1>3. ASSUME x < y PROVE BeforeAt(a, b, x)
  <2>1. \A j \in 1..x : j \in Nat \ {0} /\ j <= x /\ j <= y
    BY <1>3
  <2>2. x <= x /\ x + 1 <= y /\ ~(x + 1 <= x)
    BY <1>3
  <2>3. QED BY <1>1, <2>1, <2>2 DEF BeforeAt
<1>4. QED BY <1>1, <1>2, <1>3, BeforeIsAt

(* The sign of what SDSCompare() returns is the order of the bytes.        *)
LEMMA ComparedIsBefore ==
  ASSUME NEW r1, IsSound(r1), NEW r2, IsSound(r2)
  PROVE  /\ Compared(r1, r2) < 0 <=> Strings!Before(Text(r1), Text(r2))
         /\ Compared(r1, r2) > 0 <=> Strings!Before(Text(r2), Text(r1))
<1>1. PICK a \in Seq(Byte), b \in Seq(Byte) : a = Text(r1) /\ b = Text(r2)
  BY TextIsSequence
<1>2. PICK x \in Nat, y \in Nat :
        /\ x = r1.length /\ y = r2.length /\ x = Len(a) /\ y = Len(b)
  BY <1>1, TextIsSequence, SoundParts
<1>3. PICK m \in Nat : m = Min({x, y}) /\ m <= x /\ m <= y /\ (m = x \/ m = y)
  <2>1. {x, y} \in SUBSET Nat /\ {x, y} # {}
    OBVIOUS
  <2>2. Min({x, y}) \in {x, y} /\ \A z \in {x, y} : Min({x, y}) <= z
    BY <2>1, MinIsLeast
  <2>3. QED BY <2>2
<1>4. PICK D : D = {j \in 1..m : a[j] # b[j]}
  OBVIOUS
<1>5. Compared(r1, r2) = IF D = {} THEN x - y
                         ELSE IF Unsigned(a[Min(D)]) < Unsigned(b[Min(D)]) THEN -1 ELSE 1
  BY <1>1, <1>2, <1>3, <1>4 DEF Compared
<1>6. CASE D = {}
  <2>1. \A j \in Nat \ {0} : j <= x /\ j <= y => a[j] = b[j]
    <3>1. \A j \in Nat \ {0} : j <= x /\ j <= y => j \in 1..m
      BY <1>3
    <3>2. QED BY <1>4, <1>6, <3>1
  <2>2. Strings!Before(a, b) <=> x < y
    BY <1>2, <2>1, NoDifference
  <2>3. Strings!Before(b, a) <=> y < x
    <3>1. \A j \in Nat \ {0} : j <= Len(b) /\ j <= Len(a) => b[j] = a[j]
      BY <1>2, <2>1
    <3>2. QED BY <1>2, <3>1, NoDifference
  <2>4. Compared(r1, r2) = x - y
    BY <1>5, <1>6
  <2>5. (x - y < 0 <=> x < y) /\ (x - y > 0 <=> y < x)
    OBVIOUS
  <2>6. QED BY <1>1, <2>2, <2>3, <2>4, <2>5
<1>7. CASE D # {}
  <2>1. D \in SUBSET Nat
    BY <1>4
  <2>2. Min(D) \in D /\ \A z \in D : Min(D) <= z
    BY <1>7, <2>1, MinIsLeast
  <2>3. PICK i \in 1..m : i = Min(D) /\ a[i] # b[i]
    BY <1>4, <2>2
  <2>4. \A j \in 1..(i - 1) : a[j] = b[j]
    <3>1. ASSUME NEW j \in 1..(i - 1) PROVE j \in 1..m /\ ~(i <= j)
      OBVIOUS
    <3>2. \A j \in 1..m : a[j] # b[j] => i <= j
      BY <1>4, <2>2, <2>3
    <3>3. QED BY <3>1, <3>2
  <2>5. i \in Nat \ {0} /\ i <= x /\ i <= y /\ i \in 1..x /\ i \in 1..y
    BY <1>3
  <2>6. Strings!Before(a, b) <=> Unsigned(a[i]) < Unsigned(b[i])
    BY <1>2, <2>3, <2>4, <2>5, FirstDifference
  <2>7. Strings!Before(b, a) <=> Unsigned(b[i]) < Unsigned(a[i])
    <3>1. b[i] # a[i] /\ \A j \in 1..(i - 1) : b[j] = a[j]
      BY <2>3, <2>4
    <3>2. QED BY <1>2, <2>5, <3>1, FirstDifference
  <2>8. PICK u \in Nat, v \in Nat : u = Unsigned(a[i]) /\ v = Unsigned(b[i]) /\ u # v
    <3>1. a[i] \in Byte /\ b[i] \in Byte
      BY <1>2, <2>5
    <3>2. QED BY <2>3, <3>1, UnsignedIsInjective
  <2>9. Compared(r1, r2) = IF u < v THEN -1 ELSE 1
    BY <1>5, <1>7, <2>3, <2>8
  <2>10. (Compared(r1, r2) < 0 <=> u < v) /\ (Compared(r1, r2) > 0 <=> v < u)
    BY <2>8, <2>9
  <2>11. QED BY <1>1, <2>6, <2>7, <2>8, <2>10
<1>8. QED BY <1>6, <1>7

-----------------------------------------------------------------------------
(* Each function, as an operation of ByteStrings.                          *)

LEMMA SameCalls ==
  /\ \A name, s : Strings!Call(name, s) = Call(name, s)
  /\ \A name, s, x : /\ Strings!WithBytes(name, s, x) = WithBytes(name, s, x)
                     /\ Strings!WithNumber(name, s, x) = WithNumber(name, s, x)
                     /\ Strings!WithString(name, s, x) = WithString(name, s, x)
BY DEF Call, WithBytes, WithNumber, WithString,
       Strings!Call, Strings!WithBytes, Strings!WithNumber, Strings!WithString

LEMMA CallsHaveStrings ==
  ASSUME NEW s \in String
  PROVE  /\ \A name : Call(name, s).string \in String
         /\ \A name, x : /\ WithBytes(name, s, x).string \in String
                         /\ WithNumber(name, s, x).string \in String
                         /\ WithString(name, s, x).string \in String
BY DEF Call, WithBytes, WithNumber, WithString

(* What callers pass.                                                      *)
LEMMA SourcesAreBytes ==
  ASSUME NEW bytes \in Sources
  PROVE  /\ bytes \in Seq(Byte) /\ CString(bytes) \in Seq(Byte)
         /\ Strings!CString(bytes) = CString(bytes)
<1>1. bytes \in Seq(Byte)
  BY DynamicStringAssumption
<1>2. QED BY <1>1, CStringIsBytes, CStringsAgree

(* The functions that make strings.                                        *)
LEMMA NewEmptyCreates ==
  ASSUME Inv, NEW s \in String, SDSNewEmpty(s)
  PROVE  Inv' /\ Strings!Create(s)
<1>1. <<>> \in Seq(Byte) /\ Len(<<>>) = 0
  OBVIOUS
<1>2. ~Overflows(Len(<<>>))
  BY <1>1, DynamicStringAssumption DEF Overflows
<1>3. Make(s, <<>>, Call("SDSNewEmpty", s))
  BY DEF SDSNewEmpty
<1>4. /\ Inv' /\ Strings!Vacant(s) /\ Strings!Become(s, <<>>)
      /\ result' = Call("SDSNewEmpty", s)
  BY <1>1, <1>2, <1>3, CallsHaveStrings, MakeMakes
<1>5. QED BY <1>4, SameCalls DEF Strings!Create

LEMMA NewLengthCreates ==
  ASSUME Inv, NEW s \in String, NEW bytes \in Sources, SDSNewLength(s, bytes)
  PROVE  Inv' /\ Strings!Create(s)
<1>1. bytes \in Seq(Byte)
  BY SourcesAreBytes
<1>2. Make(s, bytes, WithBytes("SDSNewLength", s, bytes))
  BY DEF SDSNewLength
<1>3. Inv' /\ Strings!Make(s, bytes) /\ result' = WithBytes("SDSNewLength", s, bytes)
  BY <1>1, <1>2, CallsHaveStrings, MakeMakes
<1>4. QED BY <1>3, SameCalls DEF Strings!Create

LEMMA NewCreates ==
  ASSUME Inv, NEW s \in String, NEW bytes \in Sources, SDSNew(s, bytes)
  PROVE  Inv' /\ Strings!Create(s)
<1>1. CString(bytes) \in Seq(Byte)
  BY SourcesAreBytes
<1>2. Make(s, CString(bytes), WithBytes("SDSNew", s, bytes))
  BY DEF SDSNew
<1>3. Inv' /\ Strings!Make(s, CString(bytes)) /\ result' = WithBytes("SDSNew", s, bytes)
  BY <1>1, <1>2, CallsHaveStrings, MakeMakes
<1>4. Strings!Make(s, Strings!CString(bytes))
  BY <1>3, SourcesAreBytes
<1>5. QED BY <1>3, <1>4, SameCalls DEF Strings!Create

LEMMA NewNullCreates ==
  ASSUME Inv, NEW s \in String, NEW n \in Needs, SDSNewNull(s, n)
  PROVE  Inv' /\ Strings!Create(s)
<1>1. n >= 0 /\ n \in Nat
  BY DynamicStringAssumption DEF SDSNewNull
<1>2. Nulls(n) \in Seq(Byte)
  BY <1>1, NullsAreBytes
<1>3. Make(s, Nulls(n), WithNumber("SDSNewLength", s, n))
  BY DEF SDSNewNull
<1>4. Inv' /\ Strings!Make(s, Nulls(n)) /\ result' = WithNumber("SDSNewLength", s, n)
  BY <1>2, <1>3, CallsHaveStrings, MakeMakes
<1>5. Strings!Make(s, Strings!Nulls(n))
  BY <1>4 DEF Nulls, NUL, Strings!Nulls, Strings!NUL
<1>6. QED BY <1>1, <1>4, <1>5, SameCalls DEF Strings!Create

(* What fits in the original fits in a duplicate, which has nothing free.  *)
LEMMA DuplicateCreates ==
  ASSUME Inv, NEW s \in String, NEW t \in String, SDSDuplicate(s, t)
  PROVE  Inv' /\ Strings!Create(s)
<1>1. Live(t) /\ Make(s, Text(sds[t]), WithString("SDSDuplicate", s, t))
  BY DEF SDSDuplicate
<1>2. /\ Strings!Live(t) /\ Texts[t] = Text(sds[t]) /\ Text(sds[t]) \in Seq(Byte)
      /\ IsSound(sds[t]) /\ Fits(sds[t]) /\ Len(Text(sds[t])) = sds[t].length
  BY <1>1, LiveIsSound
<1>3. ~Overflows(Len(Text(sds[t])))
  <2>1. PICK n \in Nat, f \in Nat : n = sds[t].length /\ f = sds[t].free
    BY <1>2, SoundParts
  <2>2. SIZEOF_SDS \in Nat /\ INT_MAX \in Nat
    BY DynamicStringAssumption
  <2>3. ~(SIZEOF_SDS + (n + f) + 1 > INT_MAX)
    BY <1>2, <2>1 DEF Fits, Overflows
  <2>4. ~(SIZEOF_SDS + n + 1 > INT_MAX)
    BY <2>2, <2>3
  <2>5. QED BY <1>2, <2>1, <2>4 DEF Overflows
<1>4. /\ Inv' /\ Strings!Vacant(s) /\ Strings!Become(s, Texts[t])
      /\ result' = WithString("SDSDuplicate", s, t)
  BY <1>1, <1>2, <1>3, CallsHaveStrings, MakeMakes
<1>5. QED BY <1>2, <1>4, SameCalls DEF Strings!Create

(* Those that leave a string without bytes, or none.                       *)
LEMMA FreeDestroys ==
  ASSUME Inv, NEW s \in String, SDSFree(s)
  PROVE  Inv' /\ Strings!Destroy(s)
<1>1. Live(s) /\ Become(s, NULL, Call("SDSFree", s))
  BY DEF SDSFree
<1>2. Inv' /\ Strings!Become(s, NULL)
  BY <1>1, CallsHaveStrings, FreeSets
<1>3. result' = Call("SDSFree", s) /\ Strings!Set(s, NULL)
  BY <1>1, <1>2, LiveIsSound DEF Become, Strings!Set
<1>4. QED BY <1>2, <1>3, SameCalls DEF Strings!Destroy

LEMMA ClearDestroys ==
  ASSUME Inv, NEW s \in String, SDSClear(s)
  PROVE  Inv' /\ Strings!Destroy(s)
<1>1. Live(s) /\ Become(s, Cleared(sds[s]), Call("SDSClear", s))
  BY DEF SDSClear
<1>2. Holds(Cleared(sds[s]), <<>>) /\ Fits(Cleared(sds[s]))
  <2>1. IsSound(sds[s]) /\ Fits(sds[s]) /\ 0 \in Nat /\ <<>> \in Seq(Byte)
    BY <1>1, LiveIsSound
  <2>2. QED BY <2>1, ClearedHolds, EndedFits DEF Cleared
<1>3. Inv' /\ Strings!Become(s, <<>>)
  BY <1>1, <1>2, CallsHaveStrings, BecomeSets
<1>4. result' = Call("SDSClear", s) /\ Strings!Set(s, <<>>)
  BY <1>1, <1>3, LiveIsSound DEF Become, Strings!Set
<1>5. QED BY <1>3, <1>4, SameCalls DEF Strings!Destroy

(* Those that append.                                                      *)
LEMMA AppendExtends ==
  ASSUME Inv, NEW s \in String, NEW STATE bytes, bytes \in Seq(Byte),
         NEW STATE reply, reply.string \in String, AppendBytes(s, bytes, reply)
  PROVE  Inv' /\ result' = reply /\ Strings!Live(s) /\ Strings!Extend(s, bytes)
<1>1. Reserve(s, Len(bytes), Appended(sds[s], bytes), reply)
  BY DEF AppendBytes
<1>2. Live(s)
  BY <1>1 DEF Reserve
<1>3. Strings!Live(s) /\ IsSound(sds[s]) /\ Fits(sds[s]) /\ Texts[s] = Text(sds[s])
  BY <1>2, LiveIsSound
<1>4. /\ Holds(Appended(sds[s], bytes), Texts[s] \o bytes)
      /\ ~GrowsTooLarge(sds[s], Len(bytes)) => Fits(Appended(sds[s], bytes))
  BY <1>3, AppendedHolds, AppendedFits
<1>5. Len(bytes) \in Int
  OBVIOUS
<1>6. /\ Inv' /\ result' = reply
      /\ Strings!Hold(s, Len(Texts[s]) + Len(bytes), Texts[s] \o bytes)
  BY <1>1, <1>4, <1>5, ReserveHolds
<1>7. QED BY <1>3, <1>6 DEF Strings!Extend

LEMMA AppendLengthAppends ==
  ASSUME Inv, NEW s \in String, NEW bytes \in Sources, SDSAppendLength(s, bytes)
  PROVE  Inv' /\ Strings!AppendTo(s)
<1>1. bytes \in Seq(Byte)
  BY SourcesAreBytes
<1>2. AppendBytes(s, bytes, WithBytes("SDSAppendLength", s, bytes))
  BY DEF SDSAppendLength
<1>3. /\ Inv' /\ result' = WithBytes("SDSAppendLength", s, bytes)
      /\ Strings!Live(s) /\ Strings!Extend(s, bytes)
  BY <1>1, <1>2, CallsHaveStrings, AppendExtends
<1>4. QED BY <1>3, SameCalls DEF Strings!AppendTo

LEMMA AppendAppends ==
  ASSUME Inv, NEW s \in String, NEW bytes \in Sources, SDSAppend(s, bytes)
  PROVE  Inv' /\ Strings!AppendTo(s)
<1>1. CString(bytes) \in Seq(Byte)
  BY SourcesAreBytes
<1>2. AppendBytes(s, CString(bytes), WithBytes("SDSAppend", s, bytes))
  BY DEF SDSAppend
<1>3. /\ Inv' /\ result' = WithBytes("SDSAppend", s, bytes)
      /\ Strings!Live(s) /\ Strings!Extend(s, CString(bytes))
  BY <1>1, <1>2, CallsHaveStrings, AppendExtends
<1>4. Strings!Extend(s, Strings!CString(bytes))
  BY <1>3, SourcesAreBytes
<1>5. QED BY <1>3, <1>4, SameCalls DEF Strings!AppendTo

LEMMA AppendSDSAppends ==
  ASSUME Inv, NEW s \in String, NEW t \in String, SDSAppendSDS(s, t)
  PROVE  Inv' /\ Strings!AppendTo(s)
<1>1. Live(t) /\ AppendBytes(s, Text(sds[t]), WithString("SDSAppendSDS", s, t))
  BY DEF SDSAppendSDS
<1>2. Strings!Live(t) /\ Texts[t] = Text(sds[t]) /\ Text(sds[t]) \in Seq(Byte)
  BY <1>1, LiveIsSound
<1>3. /\ Inv' /\ result' = WithString("SDSAppendSDS", s, t)
      /\ Strings!Live(s) /\ Strings!Extend(s, Text(sds[t]))
  BY <1>1, <1>2, CallsHaveStrings, AppendExtends
<1>4. Strings!Extend(s, Texts[t])
  BY <1>2, <1>3
<1>5. QED BY <1>2, <1>3, <1>4, SameCalls DEF Strings!AppendTo

(* A string without room for itself has bytes, which are read too late.    *)
LEMMA AppendItselfIsUndefined ==
  ASSUME Inv, NEW s \in String, SDSAppendItself(s)
  PROVE  Inv' /\ Strings!AppendTo(s)
<1>1. /\ Live(s) /\ sds[s].free < sds[s].length
      /\ Undefined("stale_read", WithString("SDSAppendSDS", s, s))
  BY DEF SDSAppendItself
<1>2. Strings!Live(s) /\ IsSound(sds[s]) /\ Len(Texts[s]) = sds[s].length
  BY <1>1, LiveIsSound
<1>3. Texts[s] # <<>>
  <2>1. PICK m \in Nat, n \in Nat : m = sds[s].free /\ n = sds[s].length
    BY <1>2, SoundParts
  <2>2. n # 0
    BY <1>1, <2>1
  <2>3. Len(<<>>) = 0
    OBVIOUS
  <2>4. QED BY <1>2, <2>1, <2>2, <2>3
<1>4. /\ Inv' /\ Strings!Undefined(s, "stale_read")
      /\ result' = WithString("SDSAppendSDS", s, s)
  BY <1>1, CallsHaveStrings, UndefinedIsSo
<1>5. QED BY <1>2, <1>3, <1>4, SameCalls DEF Strings!AppendTo

(* Those that copy.                                                        *)
LEMMA CopyReplaces ==
  ASSUME Inv, NEW s \in String, NEW STATE bytes, bytes \in Seq(Byte), Live(s),
         NEW STATE reply, reply.string \in String, CopyBytes(s, bytes, reply)
  PROVE  Inv' /\ result' = reply /\ Strings!Hold(s, Len(bytes), bytes)
<1>1. Reserve(s, Len(bytes) - sds[s].length, Copied(sds[s], bytes), reply)
  BY DEF CopyBytes
<1>2. IsSound(sds[s]) /\ Fits(sds[s]) /\ Len(Texts[s]) = sds[s].length
  BY LiveIsSound
<1>3. PICK m \in Nat, n \in Nat : m = Len(bytes) /\ n = sds[s].length
  BY <1>2, SoundParts
<1>4. /\ Holds(Copied(sds[s], bytes), bytes)
      /\ ~GrowsTooLarge(sds[s], Len(bytes) - sds[s].length) => Fits(Copied(sds[s], bytes))
  BY <1>2, CopiedHolds, CopiedFits
<1>5. Len(bytes) - sds[s].length \in Int
  BY <1>3
<1>6. /\ Inv' /\ result' = reply
      /\ Strings!Hold(s, Len(Texts[s]) + (Len(bytes) - sds[s].length), bytes)
  BY <1>1, <1>4, <1>5, ReserveHolds
<1>7. Len(Texts[s]) + (Len(bytes) - sds[s].length) = Len(bytes)
  <2>1. n + (m - n) = m
    OBVIOUS
  <2>2. QED BY <1>2, <1>3, <2>1
<1>8. QED BY <1>6, <1>7

LEMMA CopyLengthCopies ==
  ASSUME Inv, NEW s \in String, NEW bytes \in Sources, SDSCopyLength(s, bytes)
  PROVE  Inv' /\ Strings!CopyTo(s)
<1>1. bytes \in Seq(Byte)
  BY SourcesAreBytes
<1>2. Live(s) /\ CopyBytes(s, bytes, WithBytes("SDSCopyLength", s, bytes))
  BY DEF SDSCopyLength
<1>3. /\ Inv' /\ result' = WithBytes("SDSCopyLength", s, bytes)
      /\ Strings!Hold(s, Len(bytes), bytes)
  BY <1>1, <1>2, CallsHaveStrings, CopyReplaces
<1>4. QED BY <1>3, SameCalls DEF Strings!CopyTo

LEMMA CopyCopies ==
  ASSUME Inv, NEW s \in String, NEW bytes \in Sources, SDSCopy(s, bytes)
  PROVE  Inv' /\ Strings!CopyTo(s)
<1>1. CString(bytes) \in Seq(Byte)
  BY SourcesAreBytes
<1>2. Live(s) /\ CopyBytes(s, CString(bytes), WithBytes("SDSCopy", s, bytes))
  BY DEF SDSCopy
<1>3. /\ Inv' /\ result' = WithBytes("SDSCopy", s, bytes)
      /\ Strings!Hold(s, Len(CString(bytes)), CString(bytes))
  BY <1>1, <1>2, CallsHaveStrings, CopyReplaces
<1>4. Strings!Hold(s, Len(Strings!CString(bytes)), Strings!CString(bytes))
  BY <1>3, SourcesAreBytes
<1>5. QED BY <1>3, <1>4, SameCalls DEF Strings!CopyTo

LEMMA CopySDSCopies ==
  ASSUME Inv, NEW s \in String, NEW t \in String, SDSCopySDS(s, t)
  PROVE  Inv' /\ Strings!CopyTo(s)
<1>1. /\ s # t /\ Live(s) /\ Live(t)
      /\ CopyBytes(s, CString(Text(sds[t])), WithString("SDSCopy", s, t))
  BY DEF SDSCopySDS
<1>2. Strings!Live(t) /\ Texts[t] = Text(sds[t]) /\ Text(sds[t]) \in Seq(Byte)
  BY <1>1, LiveIsSound
<1>3. /\ CString(Text(sds[t])) \in Seq(Byte)
      /\ Strings!CString(Texts[t]) = CString(Text(sds[t]))
  BY <1>2, CStringIsBytes, CStringsAgree
<1>4. /\ Inv' /\ result' = WithString("SDSCopy", s, t)
      /\ Strings!Hold(s, Len(CString(Text(sds[t]))), CString(Text(sds[t])))
  BY <1>1, <1>3, CallsHaveStrings, CopyReplaces
<1>5. Strings!Hold(s, Len(Strings!CString(Texts[t])), Strings!CString(Texts[t]))
  BY <1>3, <1>4
<1>6. t \in String \ {s}
  BY <1>1
<1>7. QED BY <1>2, <1>4, <1>5, <1>6, SameCalls DEF Strings!CopyTo

(* Those that ask for room.                                                *)
LEMMA AllocateMemoryEnlarges ==
  ASSUME Inv, NEW s \in String, NEW n \in Needs, SDSAllocateMemory(s, n)
  PROVE  Inv' /\ Strings!Enlarge(s)
<1>1. Reserve(s, n, Reserved(sds[s], n), WithNumber("SDSAllocateMemory", s, n))
  BY DEF SDSAllocateMemory
<1>2. Live(s) /\ n \in Int
  BY <1>1, DynamicStringAssumption DEF Reserve
<1>3. Strings!Live(s) /\ IsSound(sds[s]) /\ Fits(sds[s]) /\ Texts[s] = Text(sds[s])
  BY <1>2, LiveIsSound
<1>4. /\ Holds(Reserved(sds[s], n), Texts[s])
      /\ ~GrowsTooLarge(sds[s], n) => Fits(Reserved(sds[s], n))
  BY <1>2, <1>3, ReservedHolds, ReservedFits
<1>5. /\ Inv' /\ result' = WithNumber("SDSAllocateMemory", s, n)
      /\ Strings!Hold(s, Len(Texts[s]) + n, Texts[s])
  BY <1>1, <1>2, <1>4, CallsHaveStrings, ReserveHolds
<1>6. QED BY <1>3, <1>5, SameCalls DEF Strings!Enlarge

LEMMA GrowWithNullEnlarges ==
  ASSUME Inv, NEW s \in String, NEW n \in Needs, SDSGrowWithNull(s, n)
  PROVE  Inv' /\ Strings!Enlarge(s)
<1>1. /\ Live(s)
      /\ Reserve(s, n - sds[s].length, Grown(sds[s], n),
                 WithNumber("SDSGrowWithNull", s, n))
  BY DEF SDSGrowWithNull
<1>2. /\ Strings!Live(s) /\ IsSound(sds[s]) /\ Fits(sds[s]) /\ Texts[s] = Text(sds[s])
      /\ Texts[s] \in Seq(Byte) /\ Len(Texts[s]) = sds[s].length
  BY <1>1, LiveIsSound
<1>3. n \in Int
  BY DynamicStringAssumption
<1>4. PICK m \in Nat : m = sds[s].length /\ m = Len(Texts[s])
  BY <1>2, SoundParts
<1>5. n - sds[s].length \in Int
  BY <1>3, <1>4
<1>6. ~GrowsTooLarge(sds[s], n - sds[s].length) => Fits(Grown(sds[s], n))
  BY <1>2, <1>3, GrownFits
<1>7. CASE n <= m
  <2>1. Holds(Grown(sds[s], n), Texts[s])
    <3>1. CASE m > n
      <4>1. Grown(sds[s], n) = sds[s]
        BY <1>4, <3>1 DEF Grown
      <4>2. QED BY <1>2, <4>1 DEF Holds
    <3>2. CASE n = m
      <4>1. ~(sds[s].length > n) /\ n - sds[s].length = 0
        BY <1>4, <3>2
      <4>2. Holds(Grown(sds[s], n), Texts[s] \o Nulls(0))
        BY <1>2, <1>3, <4>1, GrownHolds
      <4>3. Nulls(0) = <<>>
        BY DEF Nulls
      <4>4. Texts[s] \o <<>> = Texts[s]
        BY <1>2
      <4>5. QED BY <4>2, <4>3, <4>4
    <3>3. QED BY <1>3, <1>7, <3>1, <3>2
  <2>2. n - sds[s].length <= 0
    BY <1>3, <1>4, <1>7
  <2>3. /\ Inv' /\ result' = WithNumber("SDSGrowWithNull", s, n)
        /\ Strings!Set(s, Texts[s])
    BY <1>1, <1>5, <1>6, <2>1, <2>2, CallsHaveStrings, ReserveHolds
  <2>4. n <= Len(Texts[s])
    BY <1>4, <1>7
  <2>5. QED BY <1>2, <2>3, <2>4, SameCalls DEF Strings!Enlarge
<1>8. CASE n > m
  <2>1. ~(sds[s].length > n) /\ n - m \in Nat /\ n > Len(Texts[s])
    BY <1>3, <1>4, <1>8
  <2>2. Holds(Grown(sds[s], n), Texts[s] \o Nulls(n - m))
    BY <1>2, <1>3, <1>4, <2>1, GrownHolds
  <2>3. /\ Inv' /\ result' = WithNumber("SDSGrowWithNull", s, n)
        /\ Strings!Hold(s, Len(Texts[s]) + (n - m), Texts[s] \o Nulls(n - m))
    BY <1>1, <1>4, <1>5, <1>6, <2>2, CallsHaveStrings, ReserveHolds
  <2>4. Len(Nulls(n - m)) = n - m
    BY <2>1, NullsAreBytes
  <2>5. Strings!Nulls(n - Len(Texts[s])) = Nulls(n - m)
    BY <1>4 DEF Nulls, NUL, Strings!Nulls, Strings!NUL
  <2>6. Strings!Extend(s, Strings!Nulls(n - Len(Texts[s])))
    BY <2>3, <2>4, <2>5 DEF Strings!Extend
  <2>7. QED BY <1>2, <2>1, <2>3, <2>6, SameCalls DEF Strings!Enlarge
<1>9. QED BY <1>3, <1>4, <1>7, <1>8

(* Those that keep a part.                                                 *)
LEMMA RangeNarrows ==
  ASSUME Inv, NEW s \in String, NEW begin \in Needs, NEW end \in Needs,
         SDSRange(s, begin, end)
  PROVE  Inv' /\ Strings!Narrow(s)
<1>1. PICK reply :
        reply = [call |-> "SDSRange", string |-> s, begin |-> begin, end |-> end]
  OBVIOUS
<1>2. Live(s) /\ Become(s, Ranged(sds[s], begin, end), reply) /\ reply.string \in String
  BY <1>1 DEF SDSRange
<1>3. Strings!Live(s) /\ IsSound(sds[s]) /\ Fits(sds[s]) /\ Texts[s] = Text(sds[s])
  BY <1>2, LiveIsSound
<1>4. begin \in Int /\ end \in Int
  BY DynamicStringAssumption
<1>5. PICK bytes :
        bytes = IF begin = end THEN <<>> ELSE Strings!Interval(Texts[s], begin, end)
  OBVIOUS
<1>6. Holds(Ranged(sds[s], begin, end), bytes)
  BY <1>3, <1>4, <1>5, RangedIsInterval
<1>7. Fits(Ranged(sds[s], begin, end))
  BY <1>3, <1>4, RangedFits
<1>8. Inv' /\ Strings!Become(s, bytes) /\ result' = reply
  BY <1>2, <1>6, <1>7, BecomeSets DEF Become
<1>9. Strings!Set(s, bytes)
  BY <1>3, <1>8 DEF Strings!Set
<1>10. \/ begin = end /\ Strings!Set(s, <<>>)
       \/ begin # end /\ Strings!Set(s, Strings!Interval(Texts[s], begin, end))
  BY <1>5, <1>9
<1>11. QED BY <1>1, <1>3, <1>8, <1>10 DEF Strings!Narrow

LEMMA TrimTrims ==
  ASSUME Inv, NEW s \in String, NEW bytes \in Sources, SDSTrim(s, bytes)
  PROVE  Inv' /\ Strings!Trim(s)
<1>1. PICK set : set = CString(bytes)
  OBVIOUS
<1>2. /\ Live(s) /\ Strings!Live(s) /\ IsSound(sds[s]) /\ Texts[s] = Text(sds[s])
      /\ Fits(Trimmed(sds[s], set))
  BY LiveIsSound, TrimmedFits DEF SDSTrim
<1>3. \/ /\ LeavesMap(sds[s], set)
         /\ Undefined("map_out_of_bounds", WithBytes("SDSTrim", s, bytes))
      \/ /\ ~LeavesMap(sds[s], set)
         /\ Become(s, Trimmed(sds[s], set), WithBytes("SDSTrim", s, bytes))
  BY <1>1 DEF SDSTrim
<1>4. PICK S : S = ToSet(set)
  OBVIOUS
<1>5. PICK before \in SubSeqs(Texts[s]), middle \in SubSeqs(Texts[s]),
           after \in SubSeqs(Texts[s]) : TrimsTo(sds[s], set, before, middle, after)
  BY <1>2, TrimParts
<1>6. /\ Texts[s] = before \o middle \o after
      /\ ToSet(before \o after) \subseteq S
      /\ middle # <<>> => Head(middle) \notin S /\ Last(middle) \notin S
      /\ LeavesMap(sds[s], set) <=>
           \E b \in S \cup (IF middle = <<>> THEN {} ELSE {Head(middle), Last(middle)}) : b < 0
      /\ Holds(Trimmed(sds[s], set), middle)
  BY <1>2, <1>4, <1>5 DEF TrimsTo
<1>7. S = Strings!ToSet(Strings!CString(bytes))
  BY <1>1, <1>4, SourcesAreBytes, SameOperators
<1>8. /\ before \in Strings!SubSeqs(Texts[s]) /\ middle \in Strings!SubSeqs(Texts[s])
      /\ after \in Strings!SubSeqs(Texts[s])
      /\ Strings!ToSet(before \o after) = ToSet(before \o after)
      /\ Strings!Last(middle) = Last(middle)
  BY SameOperators
<1>9. /\ Inv' /\ result' = WithBytes("SDSTrim", s, bytes)
      /\ IF LeavesMap(sds[s], set) THEN Strings!Undefined(s, "map_out_of_bounds")
         ELSE Strings!Set(s, middle)
  <2>1. CASE LeavesMap(sds[s], set)
    BY <1>2, <1>3, <2>1, CallsHaveStrings, UndefinedIsSo
  <2>2. CASE ~LeavesMap(sds[s], set)
    <3>1. Become(s, Trimmed(sds[s], set), WithBytes("SDSTrim", s, bytes))
      BY <1>3, <2>2
    <3>2. Inv' /\ Strings!Become(s, middle)
      BY <1>2, <1>6, <3>1, CallsHaveStrings, BecomeSets
    <3>3. QED BY <1>2, <2>2, <3>1, <3>2 DEF Become, Strings!Set
  <2>3. QED BY <2>1, <2>2
<1>10. IF \E b \in S \cup (IF middle = <<>> THEN {} ELSE {Head(middle), Strings!Last(middle)}) : b < 0
      THEN Strings!Undefined(s, "map_out_of_bounds") ELSE Strings!Set(s, middle)
  BY <1>6, <1>8, <1>9
<1>11. result' = Strings!WithBytes("SDSTrim", s, bytes)
  BY <1>9, SameCalls
<1>12. \E before_, middle_, after_ \in Strings!SubSeqs(Texts[s]) :
         /\ Texts[s] = before_ \o middle_ \o after_
         /\ Strings!ToSet(before_ \o after_) \subseteq S
         /\ middle_ # <<>> => Head(middle_) \notin S /\ Strings!Last(middle_) \notin S
         /\ IF \E b \in S \cup (IF middle_ = <<>> THEN {}
                                ELSE {Head(middle_), Strings!Last(middle_)}) : b < 0
            THEN Strings!Undefined(s, "map_out_of_bounds") ELSE Strings!Set(s, middle_)
  <2>1. Strings!ToSet(before \o after) \subseteq S
    BY <1>6, <1>8
  <2>2. middle # <<>> => Head(middle) \notin S /\ Strings!Last(middle) \notin S
    BY <1>6, <1>8
  <2> USE <1>8
  <2>3. WITNESS before \in Strings!SubSeqs(Texts[s]), middle \in Strings!SubSeqs(Texts[s]),
                after \in Strings!SubSeqs(Texts[s])
  <2>4. QED BY <1>6, <1>10, <2>1, <2>2
<1>13. QED BY <1>2, <1>7, <1>9, <1>11, <1>12 DEF Strings!Trim

(* The one that changes nothing.                                           *)
LEMMA CompareCompares ==
  ASSUME Inv, NEW s \in String, NEW t \in String, SDSCompare(s, t)
  PROVE  Inv' /\ Strings!Compare(s)
<1>1. /\ Live(s) /\ Live(t) /\ UNCHANGED <<sds, status>>
      /\ result' = [call |-> "SDSCompare", string |-> s, other |-> t,
                    returned |-> Compared(sds[s], sds[t])]
  BY DEF SDSCompare
<1>2. /\ Strings!Live(s) /\ IsSound(sds[s]) /\ Texts[s] = Text(sds[s])
      /\ Strings!Live(t) /\ IsSound(sds[t]) /\ Texts[t] = Text(sds[t])
  BY <1>1, LiveIsSound
<1>3. /\ Compared(sds[s], sds[t]) < 0 <=> Strings!Before(Texts[s], Texts[t])
      /\ Compared(sds[s], sds[t]) > 0 <=> Strings!Before(Texts[t], Texts[s])
  BY <1>2, ComparedIsBefore
<1>4. /\ result'.call = "SDSCompare" /\ result'.string = s /\ result'.other = t
      /\ result'.returned = Compared(sds[s], sds[t])
  BY <1>1
<1>5. Texts' = Texts /\ status' = status
  BY <1>1 DEF Texts
<1>6. Inv'
  BY <1>1, <1>4 DEF Inv
<1>7. /\ result'.returned < 0 <=> Strings!Before(Texts[s], Texts[t])
      /\ result'.returned > 0 <=> Strings!Before(Texts[t], Texts[s])
  BY <1>3, <1>4
<1>8. QED BY <1>2, <1>4, <1>5, <1>6, <1>7 DEF Strings!Compare

-----------------------------------------------------------------------------
(* All steps.                                                              *)

LEMMA InvInit == Init => Inv /\ Strings!Init
<1> SUFFICES ASSUME Init PROVE Inv /\ Strings!Init
  OBVIOUS
<1>1. Inv
  BY DEF Init, Inv
<1>2. Texts = [s \in String |-> NULL]
  BY DEF Init, Texts
<1>3. QED BY <1>1, <1>2 DEF Init, Strings!Init

LEMMA InvNext == Inv /\ [Next]_vars => Inv' /\ [Strings!Next]_Strings!vars
<1> SUFFICES ASSUME Inv, [Next]_vars PROVE Inv' /\ [Strings!Next]_Strings!vars
  OBVIOUS
<1>1. CASE UNCHANGED vars
  <2>1. Inv'
    BY <1>1 DEF vars, Inv
  <2>2. UNCHANGED Strings!vars
    BY <1>1 DEF vars, Strings!vars, Texts
  <2>3. QED BY <2>1, <2>2
<1>2. ASSUME NEW s \in String,
             SDSNewEmpty(s) \/ SDSFree(s) \/ SDSClear(s) \/ SDSAppendItself(s)
      PROVE  Inv' /\ Strings!Next
  BY <1>2, NewEmptyCreates, FreeDestroys, ClearDestroys, AppendItselfIsUndefined
     DEF Strings!Next
<1>3. ASSUME NEW s \in String, NEW bytes \in Sources,
             \/ SDSNewLength(s, bytes) \/ SDSNew(s, bytes)
             \/ SDSAppendLength(s, bytes) \/ SDSAppend(s, bytes)
             \/ SDSCopyLength(s, bytes) \/ SDSCopy(s, bytes)
             \/ SDSTrim(s, bytes)
      PROVE  Inv' /\ Strings!Next
  BY <1>3, NewLengthCreates, NewCreates, AppendLengthAppends, AppendAppends,
     CopyLengthCopies, CopyCopies, TrimTrims DEF Strings!Next
<1>4. ASSUME NEW s \in String, NEW n \in Needs,
             SDSNewNull(s, n) \/ SDSAllocateMemory(s, n) \/ SDSGrowWithNull(s, n)
      PROVE  Inv' /\ Strings!Next
  BY <1>4, NewNullCreates, AllocateMemoryEnlarges, GrowWithNullEnlarges DEF Strings!Next
<1>5. ASSUME NEW s \in String, NEW begin \in Needs, NEW end \in Needs,
             SDSRange(s, begin, end)
      PROVE  Inv' /\ Strings!Next
  BY <1>5, RangeNarrows DEF Strings!Next
<1>6. ASSUME NEW s \in String, NEW t \in String,
             SDSDuplicate(s, t) \/ SDSAppendSDS(s, t) \/ SDSCopySDS(s, t) \/ SDSCompare(s, t)
      PROVE  Inv' /\ Strings!Next
  BY <1>6, DuplicateCreates, AppendSDSAppends, CopySDSCopies, CompareCompares
     DEF Strings!Next
<1>7. QED BY <1>1, <1>2, <1>3, <1>4, <1>5, <1>6 DEF Next

LEMMA InvAlways == Spec => []Inv
BY InvInit, InvNext, PTL DEF Spec

(* Every SDS has its type, and every call leaves its name behind.          *)
THEOREM TypeCorrectness == Spec => []TypeOK
<1>1. Inv => TypeOK
  BY DEF Inv, TypeOK, IsSound
<1>2. QED BY <1>1, InvAlways, PTL

(* length_, free_ and the terminator agree with the allocation, for every  *)
(* set of bytes, every argument and every SDS_MAX_PREALLOC.                *)
THEOREM AllocationIsAccounted == Spec => []SizesAddUp
<1>1. Inv => SizesAddUp
  BY DEF Inv, SizesAddUp, IsSound, Fits, IsAccounted
<1>2. QED BY <1>1, InvAlways, PTL

(* Every function does to the arrays one operation of ByteStrings on the   *)
(* bytes, in every state and for every argument: sequences of bytes cannot *)
(* be told from the SDS by the calls, and the only undefined calls are     *)
(* those that ByteStrings names, sizes beyond INT_MAX among them.  Of two  *)
(* comments ByteStrings promises less than they say; StringClaims has the  *)
(* rest, which does not hold.                                              *)
THEOREM StringsAreBytes == Spec => ImplementsByteStrings
<1>1. Init => Strings!Init
  BY InvInit
<1>2. Inv /\ [Next]_vars => [Strings!Next]_Strings!vars
  BY InvNext
<1>3. QED BY <1>1, <1>2, InvAlways, PTL DEF Spec, ImplementsByteStrings, Strings!Spec
=============================================================================
