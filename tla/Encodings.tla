------------------------------- MODULE Encodings -------------------------------
(***************************************************************************)
(* Store/DataOutput.h and Store/DataInput.h: how numbers and strings become *)
(* bytes in a GrowableByteArrayDataOutput and numbers again in a           *)
(* ByteArrayReferenceDataInput over its array, or in a buffered input that *)
(* reads at a position; Util/Numeric.h: the numbers that sort as bytes;    *)
(* Util/Bytes.cpp: the comparison of bytes.                                *)
(*                                                                         *)
(* A number of 16, 32 or 64 bits is the set of the places where it has a   *)
(* one, negative if the last is among them; a byte is a set of 0 to 7; a   *)
(* string is a sequence of bytes.  The host is little-endian.              *)
(*                                                                         *)
(* Positions and lengths are uint32_t and are not checked: an output that  *)
(* comes near 2^32 bytes has them wrap, and then it stores outside its     *)
(* array.  The specification ends before that (Fits).                      *)
(*                                                                         *)
(* The specification has EncodingsInit and so on for names so that one     *)
(* module can extend this one and CloseableThreadLocal.                    *)
(***************************************************************************)
EXTENDS Integers, Sequences, FiniteSetsExt, SequencesExt
CONSTANTS
  Inputs,       (* kind -> what is written as that kind                     *)
  Capacities,   (* of a new output, or of one that grew before its Reset    *)
  MaxEntries,   (* bound: how much is written before it is read             *)
  Word,         (* 2^32: where positions and lengths wrap                   *)
  Junk          (* what is in a part of an array that nobody has written    *)

Widths == [Int16 |-> 16, Int32 |-> 32, Int64 |-> 64, VInt32 |-> 32, ZInt32 |-> 32,
           VInt64 |-> 64, ZInt64 |-> 64, SortableInt |-> 32, SortableLong |-> 64,
           SortableFloat |-> 32, SortableDouble |-> 64]
Kinds == DOMAIN Widths \cup {"String"}
Fixed == {"Int16", "Int32", "Int64"}
VariableLength == {"VInt32", "ZInt32", "VInt64", "ZInt64"}
Floating == {"SortableFloat", "SortableDouble"}
Sortable == {"SortableInt", "SortableLong"} \cup Floating

Bytes == SUBSET (0..7)
MaxInt32 == 2147483647
Domain(k) ==
  IF k = "String" THEN {s \in Seq(Bytes) : Len(s) <= MaxInt32} ELSE SUBSET (0..Widths[k] - 1)

(* A string that is longer cannot be written: its length becomes an int32_t. *)
ASSUME EncodingsAssumption ==
  /\ DOMAIN Inputs = Kinds
  /\ \A k \in Kinds : \A x \in Inputs[k] : x \in Domain(k)
  /\ Word \in Nat /\ Capacities \subseteq 0..Word - 1
  /\ \A byte \in Bytes : byte # Junk

VARIABLES
  out,      \* [bytes, length], as in GrowableByteArrayDataOutput
  entries,  \* what was written, and where it is
  phase,    \* "writing", "reading", or "stopped" by a call that failed
  pos,      \* of the input
  read,     \* how many of the entries have been read in order
  got       \* what the last read gave, and for which entry

encodings_vars == <<out, entries, phase, pos, read, got>>

--------------------------------------------------------------------------------
(* Numbers. *)
Bits(x, from, n) == {b - from : b \in {c \in x : from <= c /\ c < from + n}}
Shifted(x, n) == {b + n : b \in x}
ByteNumber(x) ==
  LET Bit(b) == IF b \in x THEN 2^b ELSE 0
  IN  Bit(0) + Bit(1) + Bit(2) + Bit(3) + Bit(4) + Bit(5) + Bit(6) + Bit(7)
Number(x) ==
  ByteNumber(Bits(x, 0, 8)) + 2^8 * ByteNumber(Bits(x, 8, 8))
  + 2^16 * ByteNumber(Bits(x, 16, 8)) + 2^24 * ByteNumber(Bits(x, 24, 8))
Binary(n) == {b \in 0..30 : (n \div 2^b) % 2 = 1}
Xor(x, y) == (x \ y) \cup (y \ x)
Not(x, w) == (0..w - 1) \ x
Negative(x, w) == w - 1 \in x
ToInt32(x) == Bits(x, 0, 32)
ToInt64(x) == IF Negative(x, 32) THEN x \cup 32..63 ELSE x

BigEndian(x, w) == [i \in 1..w \div 8 |-> Bits(x, w - 8 * i, 8)]
FromBigEndian(bytes) ==
  UNION {Shifted(bytes[i], 8 * (Len(bytes) - i)) : i \in DOMAIN bytes}

(* WriteSignedVInt64 of a number that is not negative: seven bits to a byte,
   the lowest first, and a mark on all but the last. *)
GroupsOf(x) == IF x = {} THEN 1 ELSE Max(x) \div 7 + 1
Groups(x) ==
  [i \in 1..GroupsOf(x) |-> Bits(x, 7 * (i - 1), 7) \cup {b \in {7} : i < GroupsOf(x)}]

(* The loop of WriteVInt32 tests for i > 127: a negative number leaves it at
   once, and its lowest byte is written. *)
VInt32(x) == IF Negative(x, 32) THEN <<Bits(x, 0, 8)>> ELSE Groups(x)

(* (i >> 31) ^ (i << 1): the left part is all ones or none. *)
ZigZagEncode(x) ==
  LET left == ToInt32(Shifted(x, 1)) IN IF Negative(x, 32) THEN Not(left, 32) ELSE left

(* (i >> 1) ^ -(i & 1), where the shift keeps the sign. *)
ZigZagDecode(x, w) ==
  LET right == {b - 1 : b \in x \ {0}} \cup (x \cap {w - 1})
  IN  IF 0 \in x THEN Not(right, w) ELSE right

(* WriteZInt64 gives its number to ZigZagEncode, whose argument has 32 bits. *)
ZigZagged64(x) == ToInt64(ZigZagEncode(ToInt32(x)))

(* Mutant: the magnitude of a negative number is left as it is. *)
SortableUnflipped(x, w) == x

(* SortableFloatBits and SortableDoubleBits, their own inverses. *)
SortableBits(x, w) == IF Negative(x, w) THEN Not(x, w) \cup {w - 1} ELSE x

(* FloatToIntBits and DoubleToLongBits: of a NaN, whose exponent is all ones and
   whose mantissa is not zero, the bits are those of one NaN. *)
Mantissa(w) == IF w = 32 THEN 23 ELSE 52
IsNaN(x, w) == Mantissa(w)..w - 2 \subseteq x /\ x \cap 0..Mantissa(w) - 1 # {}
ToBits(x, w) == IF IsNaN(x, w) THEN Mantissa(w) - 1..w - 2 ELSE x

(* IntToSortableBytes, LongToSortableBytes, and back. *)
Flipped(x, w) == Xor(x, {w - 1})

--------------------------------------------------------------------------------
(* The output. *)
Oversize(n) == n + (IF n \div 8 < 3 THEN 3 ELSE n \div 8)

(* Mutant: the new array is not filled from the old one. *)
CopyNothing(array, n, m) == [i \in 1..m |-> Junk]

(* memcpy of n into a new array of m, where the old one may have less than n. *)
CopyOf(array, n, m) ==
  [i \in 1..m |-> IF i <= n /\ i <= Len(array) THEN array[i] ELSE Junk]

Grow(array, n, min) == IF n < min THEN CopyOf(array, n, Oversize(min)) ELSE array

(* A store to an array; what is behind its end is lost. *)
Store(array, at, bytes) ==
  [i \in DOMAIN array |-> IF at < i /\ i <= at + Len(bytes) THEN bytes[i - at] ELSE array[i]]

WriteByte(o, byte) ==
  LET array == IF o.length >= Len(o.bytes)
               THEN Grow(o.bytes, Len(o.bytes), Len(o.bytes) + 1) ELSE o.bytes
  IN  [bytes |-> Store(array, o.length, <<byte>>), length |-> o.length + 1]

(* The array to grow is given as one of new_length. *)
WriteBytes(o, bytes) ==
  LET new_length == o.length + Len(bytes)
      array == IF new_length >= Len(o.bytes)
               THEN Grow(o.bytes, new_length, new_length + 1) ELSE o.bytes
  IN  [bytes |-> Store(array, o.length, bytes), length |-> new_length]

WriteEach(o, bytes) ==
  LET After[n \in 0..Len(bytes)] ==
        IF n = 0 THEN o ELSE WriteByte(After[n - 1], bytes[n])
  IN  After[Len(bytes)]

(* The bytes of a number. *)
Code(k, x) ==
  CASE k \in Fixed  -> BigEndian(x, Widths[k])
    [] k = "VInt32" -> VInt32(x)
    [] k = "ZInt32" -> VInt32(ZigZagEncode(x))
    [] k = "VInt64" -> Groups(x)
    [] k = "ZInt64" -> Groups(ZigZagged64(x))
    [] k \in {"SortableInt", "SortableLong"} ->
         BigEndian(Flipped(x, Widths[k]), Widths[k])
    [] k \in Floating ->
         BigEndian(Flipped(SortableBits(ToBits(x, Widths[k]), Widths[k]), Widths[k]), Widths[k])

Write(o, k, x) ==
  CASE k = "String"          -> WriteBytes(WriteEach(o, VInt32(Binary(Len(x)))), x)
    [] k \in VariableLength  -> WriteEach(o, Code(k, x))
    [] k \in Fixed \cup Sortable -> WriteBytes(o, Code(k, x))

--------------------------------------------------------------------------------
(* The input, which checks no bounds.  A result says what a read gives from the
   bytes ahead, how many it takes and whether it throws; to look at what nobody
   has written is Undefined. *)
Undefined == [value |-> {}, size |-> 0, fails |-> TRUE]
Result(value, size) == [value |-> value, size |-> size, fails |-> FALSE]
Wrap(r, Decode(_)) == IF r.fails THEN r ELSE Result(Decode(r.value), r.size)

ReadFixed(ahead, w) ==
  IF w \div 8 > Len(ahead) THEN Undefined
  ELSE Result(FromBigEndian(SubSeq(ahead, 1, w \div 8)), w \div 8)

(* ReadVInt32, ReadVInt64: up to full bytes of seven bits, then one of which the
   lowest bits are of use (none: there is no such byte, and the read throws). *)
ReadGroups(ahead, full, last) ==
  LET n == Min({i \in 1..full : i > Len(ahead) \/ 7 \notin ahead[i]} \cup {full + 1})
  IN  IF n > Len(ahead) \/ (n > full /\ (last = 0 \/ ~(ahead[n] \subseteq 0..last - 1)))
      THEN Undefined
      ELSE Result(UNION {Shifted(ahead[i] \ {7}, 7 * (i - 1)) : i \in 1..n}, n)
ReadVInt32(ahead) == ReadGroups(ahead, 4, 4)
ReadVInt64(ahead, allow_negative) == ReadGroups(ahead, 9, IF allow_negative THEN 1 ELSE 0)

ReadString(ahead) ==
  LET r == ReadVInt32(ahead) IN
  IF r.fails \/ Negative(r.value, 32) \/ Number(r.value) > Len(ahead) - r.size THEN Undefined
  ELSE LET end == r.size + Number(r.value) IN Result(SubSeq(ahead, r.size + 1, end), end)

Read(ahead, k) ==
  CASE k \in Fixed  -> ReadFixed(ahead, Widths[k])
    [] k = "VInt32" -> ReadVInt32(ahead)
    [] k = "ZInt32" -> Wrap(ReadVInt32(ahead), LAMBDA x : ZigZagDecode(x, 32))
    [] k = "VInt64" -> ReadVInt64(ahead, FALSE)
    [] k = "ZInt64" -> Wrap(ReadVInt64(ahead, TRUE), LAMBDA x : ZigZagDecode(x, 64))
    [] k = "String" -> ReadString(ahead)
    [] k \in {"SortableInt", "SortableLong"} ->
         Wrap(ReadFixed(ahead, Widths[k]), LAMBDA x : Flipped(x, Widths[k]))
    [] k \in Floating ->
         Wrap(ReadFixed(ahead, Widths[k]),
              LAMBDA x : SortableBits(Flipped(x, Widths[k]), Widths[k]))

(* BufferedIndexInput's reads at a position.  A macro that does not exist decides
   for the larger ones, so that the first byte is the lowest. *)
ReadPositional(ahead, k) ==
  LET bytes == SubSeq(ahead, 1, Widths[k] \div 8)
  IN  FromBigEndian(IF k = "Int16" THEN bytes ELSE Reverse(bytes))

--------------------------------------------------------------------------------
Nothing == [entry |-> 0, value |-> {}, ordered |-> FALSE]

(* What has been written from some place on. *)
Written(from) ==
  LET end == IF out.length < Len(out.bytes) THEN out.length ELSE Len(out.bytes)
      junk == {i \in from + 1..end : out.bytes[i] = Junk}
  IN  SubSeq(out.bytes, from + 1, Min(junk \cup {end + 1}) - 1)

EncodingsInit ==
  /\ \E n \in Capacities : out = [bytes |-> [i \in 1..n |-> Junk], length |-> 0]
  /\ entries = <<>> /\ phase = "writing" /\ pos = 0 /\ read = 0 /\ got = Nothing

(* No sum of lengths reaches Word in a write that leaves the output like this:
   the largest is that of Oversize, for room for one byte more. *)
Fits(o) == Oversize(o.length + 1) < Word

(* WriteVInt64 refuses what is negative and writes nothing. *)
WriteEntry(k, x) ==
  /\ phase = "writing" /\ Len(entries) < MaxEntries
  /\ ~(k = "VInt64" /\ Negative(x, 64))
  /\ ~(k = "ZInt64" /\ Negative(ZigZagged64(x), 64))
  /\ Fits(Write(out, k, x))
  /\ out' = Write(out, k, x)
  /\ entries' = Append(entries, [kind |-> k, x |-> x, from |-> out.length, to |-> out'.length])
  /\ UNCHANGED <<phase, pos, read, got>>

(* WriteSignedVInt64 of a negative number: the shift keeps the sign, and the
   loop writes on until there is no memory left. *)
WriteForever(x) ==
  /\ phase = "writing" /\ Len(entries) < MaxEntries
  /\ Negative(ZigZagged64(x), 64)
  /\ entries' = Append(entries, [kind |-> "ZInt64", x |-> x,
                                 from |-> out.length, to |-> out.length])
  /\ phase' = "stopped"
  /\ UNCHANGED <<out, pos, read, got>>

Open ==
  /\ phase = "writing" /\ entries # <<>>
  /\ phase' = "reading"
  /\ UNCHANGED <<out, entries, pos, read, got>>

ReadNext ==
  /\ phase = "reading" /\ read < Len(entries)
  /\ LET r == Read(Written(pos), entries[read + 1].kind) IN
       IF r.fails
       THEN phase' = "stopped" /\ UNCHANGED <<pos, read, got>>
       ELSE /\ pos' = pos + r.size
            /\ read' = read + 1
            /\ got' = [entry |-> read + 1, value |-> r.value, ordered |-> TRUE]
            /\ UNCHANGED phase
  /\ UNCHANGED <<out, entries>>

ReadAt(i) ==
  /\ phase = "reading" /\ entries[i].kind \in Fixed
  /\ got' = [entry |-> i, ordered |-> FALSE,
             value |-> ReadPositional(Written(entries[i].from), entries[i].kind)]
  /\ UNCHANGED <<out, entries, phase, pos, read>>

EncodingsNext ==
  \/ \E k \in Kinds : \E x \in Inputs[k] : WriteEntry(k, x)
  \/ \E x \in Inputs["ZInt64"] : WriteForever(x)
  \/ Open
  \/ ReadNext
  \/ \E i \in DOMAIN entries : ReadAt(i)

EncodingsSpec == EncodingsInit /\ [][EncodingsNext]_encodings_vars

--------------------------------------------------------------------------------
(* BytesRef::CompareTo of bytes that start at offset 0: the difference of two
   chars is a char again. *)
Char(n) == IF n % 256 >= 128 THEN (n % 256) - 256 ELSE n % 256
Unlike(a, b) == {i \in DOMAIN a \cap DOMAIN b : a[i] # b[i]}
Apart(a, b) == LET i == Min(Unlike(a, b)) IN ByteNumber(a[i]) - ByteNumber(b[i])
CompareTo(a, b) == IF Unlike(a, b) = {} THEN Len(a) - Len(b) ELSE Char(Apart(a, b))

(* The kinds that can keep every number of their width, and the numbers that the
   other kinds can keep. *)
Kept(e) ==
  CASE e.kind = "VInt32" -> ~Negative(e.x, 32)
    [] e.kind = "ZInt32" -> e.x \cap {30, 31} \in {{}, {30, 31}}
    [] e.kind = "ZInt64" -> e.x \cap 30..63 \in {{}, 30..63}
    [] OTHER -> TRUE

(* What is read in order is what was written, and takes the very bytes of it,
   however the array grew in between, unless a number was written before that
   its kind cannot keep: negative ones of VInt32, and those of ZInt32 and ZInt64
   that need more than 31 bits.  Without them no write and no read fails.  A NaN
   comes back as a NaN.  What a buffered input reads at a position is right too,
   or the bytes of an Int32 or an Int64 in reverse. *)
Alike(k, x, y) ==
  x = y \/ (k \in Floating /\ IsNaN(x, Widths[k]) /\ IsNaN(y, Widths[k]))

ReadsGiveBack ==
  /\ phase = "stopped" => \E i \in DOMAIN entries : ~Kept(entries[i])
  /\ got.entry > 0 =>
       LET e == entries[got.entry] IN
       IF got.ordered
       THEN (\A i \in 1..got.entry : Kept(entries[i])) =>
              Alike(e.kind, got.value, e.x) /\ pos = e.to
       ELSE \/ got.value = e.x
            \/ /\ e.kind # "Int16"
               /\ BigEndian(got.value, Widths[e.kind]) = Reverse(BigEndian(e.x, Widths[e.kind]))

(* The order of integers, and of floating-point numbers, with the two zeros apart
   and NaN above every number. *)
Below(x, y) == x # y /\ Max(Xor(x, y)) \in y
Less(k, x, y) ==
  LET w == Widths[k] IN
  IF k \in Floating /\ (IsNaN(x, w) \/ IsNaN(y, w)) THEN IsNaN(y, w) /\ ~IsNaN(x, w)
  ELSE IF Negative(x, w) # Negative(y, w) THEN Negative(x, w)
  ELSE IF k \notin Floating \/ ~Negative(x, w) THEN Below(x, y)
  ELSE Below(y, x)

(* "Flip the sign bit, so negative ints sort before positive ints correctly"
   (Numeric.h:401): the bytes of two sortable numbers compare as the numbers do,
   also those of floating-point numbers, where all NaNs are alike and above the
   rest, as long as the first two bytes that differ are less than 128 apart.
   Further apart the difference changes its sign. *)
OrderIsKept ==
  \A i, j \in DOMAIN entries :
    LET e == entries[i]
        d == entries[j]
        a == SubSeq(out.bytes, e.from + 1, e.to)
        b == SubSeq(out.bytes, d.from + 1, d.to)
    IN  e.kind = d.kind /\ e.kind \in Sortable =>
          IF Alike(e.kind, e.x, d.x) THEN CompareTo(a, b) = 0
          ELSE Apart(a, b) \in -127..127 => (CompareTo(a, b) < 0 <=> Less(e.kind, e.x, d.x))

(* The inductive invariant behind both.  What was written has no junk in it, and
   the bytes of an entry lie right behind those of the one before. *)
OutputInv ==
  /\ out \in [bytes: Seq({Junk} \cup Bytes), length: Nat]
  /\ out.length <= Len(out.bytes)
  /\ \A i \in 1..out.length : out.bytes[i] \in Bytes

CodeOf(e) == IF e.kind = "String" THEN VInt32(Binary(Len(e.x))) \o e.x ELSE Code(e.kind, e.x)
Endless(e) == e.kind = "ZInt64" /\ Negative(ZigZagged64(e.x), 64)
EndOf(i) == IF i = 0 THEN 0 ELSE entries[i].to

Placed(i) ==
  LET e == entries[i] IN
  /\ e.kind \in Kinds /\ e.x \in Inputs[e.kind] /\ e.from \in Nat /\ e.to \in Nat
  /\ e.kind = "VInt64" => ~Negative(e.x, 64)
  /\ e.from = EndOf(i - 1)
  /\ e.from <= e.to /\ e.to <= out.length
  /\ IF Endless(e) THEN phase = "stopped"
     ELSE /\ e.to = e.from + Len(CodeOf(e))
          /\ \A j \in DOMAIN CodeOf(e) : out.bytes[e.from + j] = CodeOf(e)[j]

EntriesInv ==
  /\ Len(entries) \in Nat /\ entries = [i \in 1..Len(entries) |-> entries[i]]
  /\ \A i \in DOMAIN entries : Placed(i)
  /\ EndOf(Len(entries)) = out.length

(* As long as there has been nothing that could not be kept, the input is at the
   start of what is to be read next. *)
ReadInv ==
  /\ phase \in {"writing", "reading", "stopped"}
  /\ read \in 0..Len(entries)
  /\ got.entry \in 0..Len(entries)
  /\ phase = "writing" => read = 0 /\ pos = 0 /\ got = Nothing
  /\ (\A i \in 1..read : Kept(entries[i])) => pos = EndOf(read)

EncodingsInv == OutputInv /\ EntriesInv /\ ReadInv /\ ReadsGiveBack

================================================================================
