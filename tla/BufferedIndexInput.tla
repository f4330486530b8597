--------------------------- MODULE BufferedIndexInput ---------------------------
(***************************************************************************)
(* Store/DataInput.h: BufferedIndexInput, a window over a file, and        *)
(* SlicedIndexInput, a window over a part of another input.  One thread    *)
(* uses a file and slices of it, in any order.  A slice reads through the  *)
(* very object it was taken from, and moves its window and its position.   *)
(*                                                                         *)
(* A byte is the position it has in the file, so a read that returns the   *)
(* wrong bytes is seen; NoByte is memory nobody has written.  The lengths  *)
(* and positions are computed as the code does, unsigned wrap included;    *)
(* arrays count from 1.                                                    *)
(*                                                                         *)
(* The file itself is a subclass (none is in this repository) that         *)
(* implements SeekInternal and ReadInternal over a descriptor with a       *)
(* position.  After an access outside an array nothing is known: the model *)
(* stops.  Left out: errors of the device, slices of slices, Close, and   *)
(* the order in which a value's bytes are put together.                    *)
(***************************************************************************)
EXTENDS Integers, Sequences

CONSTANTS
  File, Slices,
  FileLength,
  Offset, Extent,   \* of a slice: where it begins in the file, its length
  BUFFER_SIZE,
  MIN_BUFFER_SIZE,
  Sizes,            \* that SetBufferSize is called with: a bound
  Widths,           \* of the values that are read, the longest a type has
  MaxRead,          \* the longest ReadBytes: a bound
  Word,             \* 2^32, the modulus of uint32_t
  NoByte

Inputs == {File} \cup Slices
Byte == Nat \cup {NoByte}

ASSUME FileAssumption ==
  /\ File \notin Slices
  /\ FileLength \in Nat
  /\ Offset \in [Slices -> Nat]
  /\ Extent \in [Slices -> Nat]
  /\ \A s \in Slices : Offset[s] + Extent[s] <= FileLength
  /\ NoByte \notin Nat

ASSUME SizeAssumption ==
  /\ MIN_BUFFER_SIZE \in Nat \ {0}
  /\ BUFFER_SIZE \in Nat /\ BUFFER_SIZE >= MIN_BUFFER_SIZE
  /\ Sizes \subseteq Nat
  /\ Widths \subseteq Nat \ {0}
  /\ MaxRead \in Nat
  /\ Word \in Nat /\ Word > BUFFER_SIZE /\ \A s \in Sizes : Word > s

VARIABLES
  win,      \* input -> its buffer, empty for nullptr, and the fields that describe it
  device,   \* the position of the file's descriptor
  wild,     \* an access has gone outside an array
  (* History. *)
  torn,     \* slices whose window was filled by a read that was split
  faults    \* promises about what a read gives that have been broken

vars == <<win, device, wild, torn, faults>>

Length(i) == IF i = File THEN FileLength ELSE Extent[i]
Origin(i) == IF i = File THEN 0 ELSE Offset[i]
Smaller(a, b) == IF a <= b THEN a ELSE b
Wrap(x) == IF x < 0 THEN x + Word ELSE x   \* uint32_t

Fresh == [size |-> BUFFER_SIZE, start |-> 0, length |-> 0, position |-> 0, buffer |-> <<>>]

Init ==
  /\ win = [i \in Inputs |-> Fresh]
  /\ device = 0
  /\ wild = FALSE
  /\ torn = {}
  /\ faults = {}

--------------------------------------------------------------------------------
(* Windows. *)

Pointer(w) == w.start + w.position   \* GetFilePointer
End(w) == w.start + w.length
Available(w) == w.length - w.position
Inside(w, pos) == pos >= w.start /\ pos < End(w)

Take(w, n) == [k \in 1 .. n |-> w.buffer[w.position + k]]

(* An array after bytes are stored in its first slots. *)
Store(array, bytes) ==
  [k \in DOMAIN array |-> IF k \in DOMAIN bytes THEN bytes[k] ELSE array[k]]

(* Bytes that are stored over others. *)
Over(bytes, others) ==
  [k \in DOMAIN bytes \cup DOMAIN others |->
     IF k \in DOMAIN bytes THEN bytes[k] ELSE others[k]]

Blank(n) == [k \in 1 .. n |-> NoByte]

Array(w) == IF w.buffer = <<>> THEN Blank(w.size) ELSE w.buffer

(* Mutant: one byte more than the buffer has room for. *)
RefillMore(w, start, length) ==
  IF start >= length THEN 0 ELSE Smaller(start + w.size + 1, length) - start

(* How many bytes Refill reads from start on: with none it throws EOFException. *)
RefillLength(w, start, length) ==
  IF start >= length THEN 0 ELSE Smaller(start + w.size, length) - start

Overruns(w, n) == n > Len(Array(w))

Refilled(w, start, n, bytes) ==
  [w EXCEPT !.buffer = Store(Array(w), bytes), !.start = start, !.length = n, !.position = 0]

(* Mutants: of the fields that a move resets, one is forgotten. *)
MovedFull(w, pos) == [w EXCEPT !.start = pos, !.position = 0]
MovedAside(w, pos) == [w EXCEPT !.start = pos, !.length = 0]

Moved(w, pos) == [w EXCEPT !.start = pos, !.length = 0, !.position = 0]

(* Mutant: buffer_position is the position in the file. *)
SoughtAbsolute(w, pos) ==
  IF Inside(w, pos) THEN [w EXCEPT !.position = pos] ELSE Moved(w, pos)

Sought(w, pos) ==   \* Seek
  IF Inside(w, pos) THEN [w EXCEPT !.position = pos - w.start] ELSE Moved(w, pos)

--------------------------------------------------------------------------------
(* ReadBytes: what a window lacks for n bytes, and where it gets it. *)

Missing(w, n) == n - Available(w)
Split(w, n) == Available(w) > 0 /\ Missing(w, n) > 0

Direct(w, n) == Missing(w, n) >= w.size   \* too long for the buffer

(* Mutant: the last byte of the input is out of reach. *)
NeedsLess(w, length, n) ==
  IF Missing(w, n) <= 0 THEN 0
  ELSE IF ~Direct(w, n) THEN RefillLength(w, End(w), length)
  ELSE IF End(w) + Missing(w, n) < length THEN Missing(w, n) ELSE 0

(* What it asks of ReadInternal: 0 for nothing, or at the end of the input. *)
Needs(w, length, n) ==
  IF Missing(w, n) <= 0 THEN 0
  ELSE IF ~Direct(w, n) THEN RefillLength(w, End(w), length)
  ELSE IF End(w) + Missing(w, n) <= length THEN Missing(w, n) ELSE 0

(* Its outcome, given what ReadInternal stores.  The bytes after those of the
   window are stored at `offset` too, over them. *)
ReadBytesOf(w, length, n, bytes) ==
  LET rest == Missing(w, n)
      got == Needs(w, length, n)
      head == Take(w, Smaller(n, Available(w)))
      full == Refilled(w, End(w), got, bytes)
  IN IF rest <= 0
     THEN [win |-> [w EXCEPT !.position = @ + n], bytes |-> head, ok |-> TRUE]
     ELSE IF got = 0
     THEN [win |-> [w EXCEPT !.position = w.length], bytes |-> head, ok |-> FALSE]
     ELSE IF Direct(w, n)
     THEN [win |-> Moved(w, End(w) + rest), bytes |-> Over(bytes, head), ok |-> TRUE]
     ELSE [win |-> [full EXCEPT !.position = IF got < rest THEN 0 ELSE rest],
           bytes |-> Over(Take(full, Smaller(got, rest)), head),
           ok |-> got >= rest]

--------------------------------------------------------------------------------
(* ReadInternal.  A supply is what it gave: the bytes; what the file's window
   and device became; whether the read was split over the file's window, and
   whether it overran its array. *)

Nothing == [bytes |-> <<>>, file |-> win[File], device |-> device,
            split |-> FALSE, overrun |-> FALSE]

(* Of the file: the bytes the device is at. *)
FromDevice(at, n) ==
  [Nothing EXCEPT !.bytes = [k \in 1 .. n |-> at + k - 1], !.device = at + n]

(* Refill seeks the device only when it has just allocated the buffer. *)
DeviceAt(w, at, refill) == IF refill /\ w.buffer = <<>> THEN w.start ELSE at

(* Of a slice: base->Seek, and base->ReadBytes(..., false), which is not virtual
   and so comes down to ReadBytes with use_buffer set. *)
FromFile(pos, n) ==
  LET w == Sought(win[File], pos)
      at == IF Inside(win[File], pos) THEN device ELSE pos
      got == Needs(w, FileLength, n)
      from == DeviceAt(w, at, ~Direct(w, n))
      read == ReadBytesOf(w, FileLength, n, [k \in 1 .. got |-> from + k - 1])
  IN IF ~Direct(w, n) /\ Overruns(w, got) THEN [Nothing EXCEPT !.overrun = TRUE]
     ELSE [bytes |-> read.bytes, file |-> read.win,
           device |-> IF got > 0 THEN from + got ELSE at,
           split |-> Split(w, n), overrun |-> FALSE]

(* n bytes of input i from start on, where the device, if i is the file, is. *)
Supply(i, start, n, at) ==
  IF n = 0 THEN Nothing
  ELSE IF i = File THEN FromDevice(at, n) ELSE FromFile(Offset[i] + start, n)

--------------------------------------------------------------------------------
(* Operations. *)

Overrun ==
  /\ wild' = TRUE
  /\ UNCHANGED <<win, device, torn, faults>>

(* The windows after a read of i, which refilled its own or did not. *)
Update(i, w, supply, refill) ==
  /\ win' = [j \in Inputs |-> IF j = i THEN w ELSE IF j = File THEN supply.file ELSE win[j]]
  /\ device' = supply.device
  /\ torn' = IF ~refill THEN torn
             ELSE IF i # File /\ supply.split THEN torn \cup {i} ELSE torn \ {i}
  /\ wild' = FALSE

(* A read of n bytes of i from a position on gave these bytes, or threw
   EOFException, and left the position behind `after`; it is not sound if the
   bytes are known to be wrong, and had to throw if the input has not as many
   as it `must` have. *)
Gives(i, from, n, bytes) ==
  \A k \in 1 .. n : from + k <= Length(i) =>
    k \in DOMAIN bytes /\ bytes[k] = Origin(i) + from + k - 1

Report(i, from, n, must, bytes, ok, after, sound) ==
  faults' = faults
    \cup (IF ok /\ sound /\ ~Gives(i, from, n, bytes) THEN {"misread"} ELSE {})
    \cup (IF ok /\ after # from + n THEN {"astray"} ELSE {})
    \cup (IF ok /\ must > 0 /\ from + must > Length(i) THEN {"late end"} ELSE {})
    \cup (IF ~ok /\ from + must <= Length(i) THEN {"early end"} ELSE {})

(* A read is sound unless ReadBytes splits it over the end of the window, or of
   the file's window, now or when the window it reads from was filled. *)
ReadBytes(i, n) ==
  LET w == win[i]
      got == Needs(w, Length(i), n)
      refill == got > 0 /\ ~Direct(w, n)
      s == Supply(i, End(w), got, DeviceAt(w, device, refill))
      r == ReadBytesOf(w, Length(i), n, s.bytes)
  IN /\ ~wild
     /\ IF s.overrun \/ (refill /\ Overruns(w, got)) THEN Overrun
        ELSE /\ Update(i, r.win, s, refill)
             /\ Report(i, Pointer(w), n, n, r.bytes, r.ok, Pointer(r.win),
                       ~Split(w, n) /\ ~s.split /\ (i \in torn => Available(w) = 0))

(* Mutant: one byte less in the window will do. *)
ReadValueNearly(i, need, n) ==
  LET w == [win[i] EXCEPT !.position = @ + n]
      bytes == [k \in 1 .. n |-> IF w.position - n + k > Len(w.buffer) THEN NoByte
                                ELSE w.buffer[w.position - n + k]] IN
  /\ ~wild
  /\ need <= Available(win[i]) + 1
  /\ Update(i, w, Nothing, FALSE)
  /\ Report(i, Pointer(win[i]), n, n, bytes, TRUE, Pointer(w), i \notin torn)

(* ReadByte, ReadInt16 and so on, a value of n bytes: from the window when that
   holds `need` bytes, the most a value of this type can have... *)
ReadValueHere(i, need, n) ==
  LET w == [win[i] EXCEPT !.position = @ + n] IN
  /\ ~wild
  /\ need <= Available(win[i])
  /\ Update(i, w, Nothing, FALSE)
  /\ Report(i, Pointer(win[i]), n, n, Take(win[i], n), TRUE, Pointer(w), i \notin torn)

(* ... else by ReadByte one after the other, of which one refills.  A value
   that is longer than what is in the window and a refill together is read in
   two such steps. *)
ReadValueBytewise(i, need, n) ==
  LET w == win[i]
      rest == Missing(w, n)
      head == Take(w, Smaller(n, Available(w)))
      got == IF rest > 0 THEN RefillLength(w, End(w), Length(i)) ELSE 0
      s == Supply(i, End(w), got, DeviceAt(w, device, TRUE))
      full == Refilled(w, End(w), got, s.bytes)
      used == Smaller(got, rest)
      after == IF got > 0 THEN [full EXCEPT !.position = used]
               ELSE [w EXCEPT !.position = Smaller(@ + n, w.length)]
  IN /\ ~wild
     /\ need > Available(w)
     /\ rest <= w.size
     /\ IF s.overrun \/ (got > 0 /\ Overruns(w, got)) THEN Overrun
        ELSE /\ Update(i, after, s, got > 0)
             /\ Report(i, Pointer(w), n, n,
                       IF got > 0 THEN head \o Take(full, used) ELSE head,
                       rest <= got, Pointer(after),
                       ~s.split /\ (i \in torn => Available(w) = 0))

(* ReadByte(pos), ReadInt16(pos) and so on, of no more than eight bytes, which is
   MIN_BUFFER_SIZE.  Of a value that begins in the input and ends behind it the
   end is not noticed: its last bytes are what the array has.  buffer_length - (n - 1) is unsigned
   and wraps around when the window has fewer bytes than that: then nothing is
   refilled, at whatever position from the window's start on, and n bytes are
   taken from the array as it is. *)
Misses(w, pos, n) == pos < w.start \/ pos - w.start >= Wrap(w.length - (n - 1))
TooShort(w, pos, n) == w.length < n - 1 /\ ~Misses(w, pos, n)

ReadAt(i, pos, n) ==
  LET short == TooShort(win[i], pos, n)
      miss == Misses(win[i], pos, n)
      w == IF miss THEN Moved(win[i], pos) ELSE win[i]
      got == IF miss THEN RefillLength(w, pos, Length(i)) ELSE 0
      s == Supply(i, pos, got, pos)
      full == IF got > 0 THEN Refilled(w, pos, got, s.bytes) ELSE w
      first == pos - full.start
  IN /\ ~wild
     /\ n <= MIN_BUFFER_SIZE
     /\ IF miss /\ got = 0
        THEN /\ Update(i, w, [Nothing EXCEPT !.device = IF i = File THEN pos ELSE @], FALSE)
             /\ Report(i, pos, n, 1, <<>>, FALSE, pos, FALSE)
        ELSE IF s.overrun \/ (got > 0 /\ Overruns(w, got)) \/ first + n > Len(full.buffer)
        THEN Overrun
        ELSE /\ Update(i, full, s, got > 0)
             /\ Report(i, pos, n, IF short THEN 0 ELSE 1,
                       [k \in 1 .. n |-> full.buffer[first + k]], TRUE, pos + n,
                       ~short /\ ~s.split /\ (i \in torn => got > 0))

(* Mutant: Seek without SeekInternal. *)
SeekWindow(i, pos) ==
  /\ ~wild
  /\ win' = [win EXCEPT ![i] = Sought(@, pos)]
  /\ UNCHANGED <<device, wild, torn, faults>>

Seek(i, pos) ==
  /\ ~wild
  /\ win' = [win EXCEPT ![i] = Sought(@, pos)]
  /\ device' = IF i = File /\ ~Inside(win[i], pos) THEN pos ELSE device
  /\ UNCHANGED <<wild, torn, faults>>

(* CheckBufferSize refuses a small size.  The test for a buffer is the wrong way
   round: one that is there is kept, one that is not is allocated. *)
SetBufferSize(i, size) ==
  /\ ~wild
  /\ size # win[i].size
  /\ size >= MIN_BUFFER_SIZE
  /\ win' = [win EXCEPT ![i] =
       IF @.buffer # <<>> THEN [@ EXCEPT !.size = size]
       ELSE [size |-> size, start |-> Pointer(@), length |-> Smaller(Available(@), size),
             position |-> 0, buffer |-> Blank(size)]]
  /\ UNCHANGED <<device, wild, torn, faults>>

(* A slice is taken, in the place of one that is not used any more. *)
Slice(s) ==
  /\ ~wild
  /\ win' = [win EXCEPT ![s] = Fresh]
  /\ torn' = torn \ {s}
  /\ UNCHANGED <<device, wild, faults>>

Next ==
  \/ \E i \in Inputs :
       \/ \E n \in 0 .. MaxRead : ReadBytes(i, n)
       \/ \E need \in Widths : \E n \in 1 .. need :
            ReadValueHere(i, need, n) \/ ReadValueBytewise(i, need, n)
       \/ \E n \in Widths, pos \in 0 .. Length(i) : ReadAt(i, pos, n)
       \/ \E pos \in 0 .. Length(i) + 1 : Seek(i, pos)
       \/ \E size \in Sizes : SetBufferSize(i, size)
  \/ \E s \in Slices : Slice(s)

Spec == Init /\ [][Next]_vars

--------------------------------------------------------------------------------
(* Properties. *)

Window == [size : Nat, start : Nat, length : Nat, position : Nat, buffer : Seq(Byte)]

TypeOK ==
  /\ win \in [Inputs -> Window]
  /\ \A i \in Inputs : /\ win[i].size >= MIN_BUFFER_SIZE
                       /\ win[i].position <= win[i].length
                       /\ win[i].length <= Len(win[i].buffer)
  /\ device \in Nat
  /\ wild \in BOOLEAN
  /\ torn \subseteq Slices
  /\ faults \subseteq {"misread", "astray", "early end", "late end"}

(* Whatever was read, sought and resized before, through the file or the
   slices, the bytes of a window are those of the file from the window's start
   on, but in a slice that was filled by a read split over the file's window. *)
WindowIsFile ==
  \A i \in Inputs \ torn : \A k \in 1 .. win[i].length :
    win[i].buffer[k] = Origin(i) + win[i].start + k - 1

(* The device is where the file's next refill, which does not seek, has to
   begin. *)
DeviceFollows == device = End(win[File])

(* A read that returns gives the bytes of the input from its position on, or
   from the one it is given, as far as the input has them, whatever moved the
   window and the device before.  Known not to: a ReadBytes that is split over
   the end of a window, of the input or of the file below it, whose second part
   is stored over the first (515, 525), and what a slice then has in its window;
   and a value of two bytes or more at a position the window seems to hold
   because it is TooShort (682, 707, 736). *)
ReadsAreRight == "misread" \notin faults

(* A read from the position throws EOFException if and only if the input ends
   before its last byte; a read at a position if and only if it ends before the
   first, for what is behind it is not looked at.  Known not to throw: a value at
   a position for which the window is TooShort. *)
EndIsExact == "early end" \notin faults /\ "late end" \notin faults

(* A read from the position that returns leaves the position behind its bytes,
   whether they came from the window, past it, or around it. *)
ReadsMoveOn == "astray" \notin faults

(* An array is left only after SetBufferSize has made its window larger, or by a
   value read at a position for which the window is TooShort. *)
OverrunIsKnown ==
  [][wild' = wild
     \/ \E i \in Inputs :
          \/ win[i].buffer # <<>> /\ win[i].size > Len(win[i].buffer)
          \/ \E n \in Widths, pos \in 0 .. Length(i) :
               ReadAt(i, pos, n) /\ TooShort(win[i], pos, n)]_vars

================================================================================
