------------------------ MODULE BufferedIndexInputProofs ------------------------
(***************************************************************************)
(* Proofs about BufferedIndexInput, for files, slices, buffer sizes and    *)
(* lengths of reads of any number and size.                                *)
(***************************************************************************)
EXTENDS BufferedIndexInput, SequenceTheorems, TLAPS

(* A window that its array can hold and that does not pass the end of its
   input, of the given length. *)
Sane(w, length) ==
  /\ w \in Window
  /\ w.size >= MIN_BUFFER_SIZE
  /\ w.position <= w.length
  /\ w.length <= Len(w.buffer)
  /\ w.length > 0 => End(w) <= length

(* A window with the bytes of the file, for an input that begins at origin. *)
Right(w, origin) == \A k \in 1 .. w.length : w.buffer[k] = origin + w.start + k - 1

(* Bytes that continue the file from a position of such an input. *)
Continue(bytes, n, from) == \A k \in 1 .. n : k \in DOMAIN bytes /\ bytes[k] = from + k - 1

(* An array whose first slots hold these bytes. *)
Filled(array, bytes) == \A k \in 1 .. Len(array) : k \in DOMAIN bytes => array[k] = bytes[k]

AreBytes(bytes) == \A k \in DOMAIN bytes : bytes[k] \in Byte

LEMMA ConstantTypes ==
  /\ MIN_BUFFER_SIZE \in Nat /\ MIN_BUFFER_SIZE > 0
  /\ BUFFER_SIZE \in Nat /\ BUFFER_SIZE >= MIN_BUFFER_SIZE
  /\ Word \in Nat
  /\ \A i \in Inputs : Length(i) \in Nat /\ Origin(i) \in Nat
                       /\ Origin(i) + Length(i) <= FileLength
  /\ Length(File) = FileLength /\ Origin(File) = 0
BY FileAssumption, SizeAssumption DEF Inputs, Length, Origin

--------------------------------------------------------------------------------
(* Windows. *)

LEMMA WindowFields ==
  ASSUME NEW w \in Window
  PROVE  /\ w.size \in Nat /\ w.start \in Nat /\ w.length \in Nat /\ w.position \in Nat
         /\ w.buffer \in Seq(Byte) /\ Len(w.buffer) \in Nat
         /\ DOMAIN w.buffer = 1 .. Len(w.buffer)
         /\ \A k \in 1 .. Len(w.buffer) : w.buffer[k] \in Byte
BY DEF Window

(* A function on 1 .. n is a sequence. *)
LEMMA IsSequence ==
  ASSUME NEW n \in Nat, NEW f, f \in [1 .. n -> Byte]
  PROVE  /\ f \in Seq(Byte) /\ Len(f) = n
BY LenProperties, SeqDef

LEMMA ArrayFacts ==
  ASSUME NEW w \in Window
  PROVE  /\ Array(w) \in Seq(Byte)
         /\ Len(Array(w)) \in Nat
         /\ DOMAIN Array(w) = 1 .. Len(Array(w))
         /\ \A k \in 1 .. Len(Array(w)) : Array(w)[k] \in Byte
         /\ w.buffer = <<>> => Len(Array(w)) = w.size /\ w.length \in Nat
         /\ w.buffer # <<>> => Array(w) = w.buffer
<1>1. Blank(w.size) \in [1 .. w.size -> Byte]
  BY DEF Blank, Byte
<1>2. Blank(w.size) \in Seq(Byte) /\ Len(Blank(w.size)) = w.size
  BY <1>1, IsSequence, WindowFields
<1>3. Array(w) \in Seq(Byte)
  BY <1>2, WindowFields DEF Array
<1>4. w.buffer = <<>> => Len(Array(w)) = w.size
  BY <1>2 DEF Array
<1>5. w.buffer # <<>> => Array(w) = w.buffer
  BY DEF Array
<1>6. /\ Len(Array(w)) \in Nat
      /\ DOMAIN Array(w) = 1 .. Len(Array(w))
      /\ \A k \in 1 .. Len(Array(w)) : Array(w)[k] \in Byte
  BY <1>3
<1>7. QED
  BY <1>3, <1>4, <1>5, <1>6, WindowFields

LEMMA RefilledFacts ==
  ASSUME NEW w \in Window, NEW start \in Nat, NEW n \in Nat, NEW bytes, AreBytes(bytes),
         NEW r, r = Refilled(w, start, n, bytes)
  PROVE  /\ r \in Window
         /\ r.size = w.size /\ r.start = start /\ r.length = n /\ r.position = 0
         /\ Len(r.buffer) = Len(Array(w))
         /\ Filled(r.buffer, bytes)
<1> DEFINE c == Len(Array(w))
           b == Store(Array(w), bytes)
<1>1. c \in Nat /\ DOMAIN Array(w) = 1 .. c /\ \A k \in 1 .. c : Array(w)[k] \in Byte
  BY ArrayFacts
<1>2. b \in [1 .. c -> Byte]
  BY <1>1 DEF Store, AreBytes
<1>3. b \in Seq(Byte) /\ Len(b) = c
  BY <1>1, <1>2, IsSequence
<1>4. \A k \in 1 .. c : b[k] = IF k \in DOMAIN bytes THEN bytes[k] ELSE Array(w)[k]
  BY <1>1 DEF Store
<1> HIDE DEF b, c
<1>5. Refilled(w, start, n, bytes)
        = [w EXCEPT !.buffer = b, !.start = start, !.length = n, !.position = 0]
  BY DEF Refilled, b
<1>6. Refilled(w, start, n, bytes)
        = [size |-> w.size, start |-> start, length |-> n, position |-> 0, buffer |-> b]
  BY <1>5 DEF Window
<1>7. r = [size |-> w.size, start |-> start, length |-> n, position |-> 0, buffer |-> b]
  BY <1>6
<1>8. r \in Window
  BY <1>3, <1>7, WindowFields DEF Window
<1>9. Len(r.buffer) = Len(Array(w))
  BY <1>3, <1>7 DEF c
<1>10. Filled(r.buffer, bytes)
  BY <1>3, <1>4, <1>7 DEF Filled
<1>11. QED
  BY <1>7, <1>8, <1>9, <1>10

(* Of bytes that continue the file, an array that holds n does too. *)
LEMMA FilledFacts ==
  ASSUME NEW array, NEW bytes, Filled(array, bytes), NEW n \in Nat, Len(array) \in Nat,
         n <= Len(array), NEW from, Continue(bytes, n, from)
  PROVE  \A k \in 1 .. n : array[k] = from + k - 1
BY DEF Filled, Continue

LEMMA RefilledIs ==
  ASSUME NEW w \in Window, NEW start \in Nat, NEW n \in Nat, NEW bytes
  PROVE  Refilled(w, start, n, bytes)
           = [size |-> w.size, start |-> start, length |-> n, position |-> 0,
              buffer |-> Store(Array(w), bytes)]
<1> DEFINE b == Store(Array(w), bytes)
<1> HIDE DEF b
<1>1. Refilled(w, start, n, bytes)
        = [w EXCEPT !.buffer = b, !.start = start, !.length = n, !.position = 0]
  BY DEF Refilled, b
<1>2. Refilled(w, start, n, bytes)
        = [size |-> w.size, start |-> start, length |-> n, position |-> 0, buffer |-> b]
  BY <1>1 DEF Window
<1>3. QED
  BY <1>2 DEF b

LEMMA RefilledLength ==
  ASSUME NEW w \in Window, NEW start \in Nat, NEW n \in Nat, NEW bytes, AreBytes(bytes)
  PROVE  Len(Refilled(w, start, n, bytes).buffer) = Len(Array(w))
BY RefilledFacts

LEMMA RefilledType ==
  ASSUME NEW w \in Window, NEW start \in Nat, NEW n \in Nat, NEW bytes, AreBytes(bytes)
  PROVE  Refilled(w, start, n, bytes) \in Window
BY RefilledFacts

LEMMA RefilledBytes ==
  ASSUME NEW w \in Window, NEW start \in Nat, NEW n \in Nat, NEW bytes, AreBytes(bytes)
  PROVE  Filled(Refilled(w, start, n, bytes).buffer, bytes)
BY RefilledFacts

LEMMA MovedFacts ==
  ASSUME NEW w \in Window, NEW pos \in Nat
  PROVE  /\ Moved(w, pos) = [size |-> w.size, start |-> pos, length |-> 0, position |-> 0,
                             buffer |-> w.buffer]
         /\ Moved(w, pos) \in Window
<1>1. Moved(w, pos) = [w EXCEPT !.start = pos, !.length = 0, !.position = 0]
  BY DEF Moved
<1>2. Moved(w, pos) = [size |-> w.size, start |-> pos, length |-> 0, position |-> 0,
                       buffer |-> w.buffer]
  BY <1>1 DEF Window
<1>3. QED
  BY <1>2, WindowFields DEF Window

LEMMA PositionFacts ==
  ASSUME NEW w \in Window, NEW p \in Nat
  PROVE  LET r == [w EXCEPT !.position = p] IN
         /\ r \in Window
         /\ r.size = w.size /\ r.start = w.start /\ r.length = w.length
         /\ r.position = p /\ r.buffer = w.buffer
BY DEF Window

LEMMA SoughtFacts ==
  ASSUME NEW w, NEW length \in Nat, Sane(w, length), NEW pos \in Nat
  PROVE  LET r == Sought(w, pos) IN
         /\ Sane(r, length) /\ Pointer(r) = pos /\ r.buffer = w.buffer /\ r.size = w.size
         /\ \A o \in Nat : Right(w, o) => Right(r, o)
         /\ End(r) = IF Inside(w, pos) THEN End(w) ELSE pos
<1> DEFINE r == Sought(w, pos)
<1>0. w \in Window
  BY DEF Sane
<1>1. CASE Inside(w, pos)
  <2>1. pos - w.start \in Nat /\ pos - w.start <= w.length
    BY <1>0, <1>1, WindowFields DEF Inside, End
  <2>2. r = [w EXCEPT !.position = pos - w.start]
    BY <1>1 DEF Sought
  <2>3. /\ r \in Window
        /\ r.size = w.size /\ r.start = w.start /\ r.length = w.length
        /\ r.position = pos - w.start /\ r.buffer = w.buffer
    BY <1>0, <2>1, <2>2, PositionFacts
  <2> HIDE DEF r
  <2>4. QED
    BY <1>0, <1>1, <2>1, <2>3, WindowFields DEF Sane, Right, End, Pointer, r
<1>2. CASE ~Inside(w, pos)
  <2>1. r = [size |-> w.size, start |-> pos, length |-> 0, position |-> 0,
             buffer |-> w.buffer]
    BY <1>0, <1>2, MovedFacts DEF Sought
  <2>2. r \in Window
    BY <1>0, <1>2, MovedFacts DEF Sought
  <2> HIDE DEF r
  <2>3. QED
    BY <1>0, <1>2, <2>1, <2>2, WindowFields DEF Sane, Right, End, Pointer, r
<1>3. QED
  BY <1>1, <1>2

LEMMA RefillLengthFacts ==
  ASSUME NEW w \in Window, w.size > 0, NEW start \in Nat, NEW length \in Nat
  PROVE  LET n == RefillLength(w, start, length) IN
         /\ n \in Nat /\ n <= w.size
         /\ n > 0 => start + n <= length
         /\ n = 0 <=> start >= length
         /\ n < w.size => n = 0 \/ start + n = length
BY WindowFields DEF RefillLength, Smaller

--------------------------------------------------------------------------------
(* ReadBytes. *)

(* What ReadBytes asks for, in numbers. *)
LEMMA NeedsFacts ==
  ASSUME NEW w, NEW length \in Nat, Sane(w, length), NEW n \in Nat
  PROVE  LET got == Needs(w, length, n)  rest == Missing(w, n) IN
         /\ rest \in Int /\ Available(w) \in Nat
         /\ rest = n - Available(w) /\ Available(w) = w.length - w.position
         /\ got \in Nat /\ (rest <= 0 => got = 0)
         /\ End(w) \in Nat /\ End(w) = w.start + w.length
         /\ got > 0 => End(w) + got <= length
         /\ rest > 0 /\ Direct(w, n) => got = (IF End(w) + rest <= length THEN rest ELSE 0)
         /\ rest > 0 /\ ~Direct(w, n) =>
              /\ got = RefillLength(w, End(w), length)
              /\ rest < w.size
              /\ got >= rest <=> End(w) + rest <= length
<1>1. w \in Window /\ w.size > 0 /\ w.position <= w.length
  BY ConstantTypes, WindowFields DEF Sane
<1>2. /\ w.size \in Nat /\ w.start \in Nat /\ w.length \in Nat /\ w.position \in Nat
  BY <1>1, WindowFields
<1>3. End(w) \in Nat /\ End(w) = w.start + w.length
  BY <1>2 DEF End
<1>4. /\ RefillLength(w, End(w), length) \in Nat
      /\ RefillLength(w, End(w), length) > 0 => End(w) + RefillLength(w, End(w), length) <= length
      /\ RefillLength(w, End(w), length) = 0 <=> End(w) >= length
      /\ RefillLength(w, End(w), length) < w.size =>
           RefillLength(w, End(w), length) = 0 \/ End(w) + RefillLength(w, End(w), length) = length
  BY <1>1, <1>3, RefillLengthFacts
<1>5. Available(w) \in Nat /\ Available(w) = w.length - w.position
  BY <1>1, <1>2 DEF Available
<1>6. Missing(w, n) \in Int /\ Missing(w, n) = n - Available(w)
  BY <1>5 DEF Missing
<1>7. QED
  BY <1>1, <1>2, <1>3, <1>4, <1>5, <1>6 DEF Needs, Direct

LEMMA TakeFacts ==
  ASSUME NEW w \in Window, NEW n \in Nat, w.position + n <= Len(w.buffer)
  PROVE  /\ DOMAIN Take(w, n) = 1 .. n
         /\ \A k \in 1 .. n : Take(w, n)[k] = w.buffer[w.position + k]
         /\ AreBytes(Take(w, n))
<1>1. \A k \in 1 .. n : w.position + k \in 1 .. Len(w.buffer)
  BY WindowFields
<1>2. QED
  BY <1>1, WindowFields DEF Take, AreBytes

LEMMA OverFacts ==
  ASSUME NEW f, NEW g, AreBytes(f), AreBytes(g)
  PROVE  /\ AreBytes(Over(f, g))
         /\ DOMAIN Over(f, g) = DOMAIN f \cup DOMAIN g
         /\ \A k \in DOMAIN f : Over(f, g)[k] = f[k]
BY DEF AreBytes, Over

(* A read of n bytes from window w with outcome r, for which ReadInternal gave
   `got` bytes: the window and the position it leaves and whether it ends... *)
Moves(r, w, length, n, got) ==
  /\ Sane(r.win, length)
  /\ r.ok \in BOOLEAN
  /\ AreBytes(r.bytes)
  /\ End(r.win) = End(w) + got
  /\ r.ok => Pointer(r.win) = Pointer(w) + n
  /\ r.ok <=> (n = 0 \/ Pointer(w) + n <= length)

(* ... and, in an input that begins at o, the bytes of the window and of the
   read. *)
Holds(r, w, n, got, bytes, o) ==
  /\ IF got > 0 /\ ~Direct(w, n)
     THEN Continue(bytes, got, o + End(w)) => Right(r.win, o)
     ELSE Right(w, o) => Right(r.win, o)
  /\ /\ r.ok /\ ~Split(w, n)
     /\ Available(w) > 0 => Right(w, o)
     /\ got > 0 => Continue(bytes, got, o + End(w))
     => Continue(r.bytes, n, o + Pointer(w))

(* The four outcomes of ReadBytes, whatever ReadInternal gives. *)
LEMMA ReadBytesOutcome ==
  ASSUME NEW w, NEW length \in Nat, Sane(w, length), NEW n \in Nat, NEW bytes,
         AreBytes(bytes),
         Needs(w, length, n) > 0 /\ ~Direct(w, n) => ~Overruns(w, Needs(w, length, n))
  PROVE  /\ Moves(ReadBytesOf(w, length, n, bytes), w, length, n, Needs(w, length, n))
         /\ \A o \in Nat : Holds(ReadBytesOf(w, length, n, bytes), w, n,
                                 Needs(w, length, n), bytes, o)
<1> DEFINE r == ReadBytesOf(w, length, n, bytes)
           got == Needs(w, length, n)
           rest == Missing(w, n)
           head == Take(w, Smaller(n, Available(w)))
           full == Refilled(w, End(w), got, bytes)
<1>0. w \in Window /\ w.size > 0 /\ w.size >= MIN_BUFFER_SIZE
  BY ConstantTypes, WindowFields DEF Sane
<1>1. /\ w.size \in Nat /\ w.start \in Nat /\ w.length \in Nat /\ w.position \in Nat
      /\ Len(w.buffer) \in Nat
  BY <1>0, WindowFields
<1>a. w.position <= w.length /\ w.length <= Len(w.buffer)
  BY DEF Sane
<1>b. w.length > 0 => End(w) <= length
  BY DEF Sane
<1>2. rest \in Int /\ rest = n - Available(w)
  BY NeedsFacts
<1>c. Available(w) \in Nat /\ Available(w) = w.length - w.position
  BY NeedsFacts
<1>d. End(w) \in Nat /\ End(w) = w.start + w.length
  BY NeedsFacts
<1>e. got \in Nat /\ (rest <= 0 => got = 0)
  BY NeedsFacts
<1>f. got > 0 => End(w) + got <= length
  BY NeedsFacts
<1>g. rest > 0 /\ Direct(w, n) => got = (IF End(w) + rest <= length THEN rest ELSE 0)
  BY NeedsFacts
<1>h. rest > 0 /\ ~Direct(w, n) => rest < w.size /\ (got >= rest <=> End(w) + rest <= length)
  BY NeedsFacts
<1> HIDE DEF rest, got, head, full
<1>3. Pointer(w) = w.start + w.position
  BY DEF Pointer
<1>i. Pointer(w) \in Nat /\ Pointer(w) + n = End(w) + rest
  <2>1. w.start \in Nat /\ w.length \in Nat /\ w.position \in Nat
    BY <1>1
  <2>2. rest = n - (w.length - w.position)
    BY <1>2, <1>c
  <2>3. Pointer(w) + n = w.start + w.position + n
    BY <1>3
  <2>4. End(w) + rest = w.start + w.length + (n - (w.length - w.position))
    BY <1>d, <2>2
  <2>5. w.start + w.position + n = w.start + w.length + (n - (w.length - w.position))
    BY <2>1
  <2>6. Pointer(w) \in Nat
    BY <1>3, <2>1
  <2>7. QED
    BY <2>3, <2>4, <2>5, <2>6
<1>j. n > 0 /\ rest <= 0 => w.length > 0 /\ Pointer(w) + n <= End(w)
  <2>1. n > 0 /\ rest <= 0 => Available(w) > 0
    BY <1>2, <1>c
  <2>2. Available(w) > 0 => w.length > 0
    BY <1>1, <1>c
  <2>3. rest <= 0 => End(w) + rest <= End(w)
    BY <1>2, <1>d
  <2>4. QED
    BY <1>i, <2>1, <2>2, <2>3
<1>k. rest > 0 => n > 0
  BY <1>2, <1>c
<1>m. rest <= 0 => n <= Available(w)
  BY <1>2, <1>c
<1>4. /\ Smaller(n, Available(w)) \in Nat /\ Smaller(n, Available(w)) <= Available(w)
      /\ Smaller(n, Available(w)) <= n
      /\ rest <= 0 => Smaller(n, Available(w)) = n
  BY <1>c, <1>m DEF Smaller
<1>5. /\ DOMAIN head = 1 .. Smaller(n, Available(w))
      /\ \A k \in 1 .. Smaller(n, Available(w)) : head[k] = w.buffer[w.position + k]
  <2>1. Smaller(n, Available(w)) \in Nat /\ Smaller(n, Available(w)) <= Available(w)
    BY <1>4
  <2>2. w.position + Smaller(n, Available(w)) <= Len(w.buffer)
    BY <1>1, <1>a, <1>c, <2>1
  <2>3. QED
    BY <1>0, <2>1, <2>2, TakeFacts DEF head
<1>l. AreBytes(head)
  <2>1. Smaller(n, Available(w)) \in Nat /\ Smaller(n, Available(w)) <= Available(w)
    BY <1>4
  <2>2. w.position + Smaller(n, Available(w)) <= Len(w.buffer)
    BY <1>1, <1>a, <1>c, <2>1
  <2>3. QED
    BY <1>0, <2>1, <2>2, TakeFacts DEF head
<1>6. Split(w, n) <=> Available(w) > 0 /\ rest > 0
  BY DEF Split, rest
<1>7. CASE rest <= 0
  <2>1. r = [win |-> [w EXCEPT !.position = @ + n], bytes |-> head, ok |-> TRUE]
    BY <1>7 DEF ReadBytesOf, head, rest
  <2> HIDE DEF r
  <2>2. w.position + n \in Nat
    BY <1>1
  <2>3. [w EXCEPT !.position = @ + n] = [w EXCEPT !.position = w.position + n]
    BY <1>0 DEF Window
  <2>4. r.win = [w EXCEPT !.position = w.position + n]
    BY <2>1, <2>3
  <2>5. r.ok = TRUE /\ r.bytes = head
    BY <2>1
  <2>6. /\ r.win \in Window /\ r.win.size = w.size /\ r.win.start = w.start
        /\ r.win.length = w.length /\ r.win.position = w.position + n
        /\ r.win.buffer = w.buffer
    BY <1>0, <2>2, <2>4, PositionFacts
  <2>7. w.position + n <= w.length
    BY <1>1, <1>2, <1>c, <1>7
  <2>8. End(r.win) = End(w) /\ Pointer(r.win) = Pointer(w) + n
    BY <1>1, <1>3, <2>6 DEF End, Pointer
  <2>9. Sane(r.win, length)
    BY <1>0, <1>a, <1>b, <2>6, <2>7, <2>8 DEF Sane
  <2>10. n > 0 => Pointer(w) + n <= length
    BY <1>7, <1>b, <1>i, <1>j, <1>d
  <2>11. ASSUME NEW o \in Nat, Right(w, o)
        PROVE  Right(r.win, o)
    BY <2>6, <2>11 DEF Right
  <2>12. ASSUME NEW o \in Nat, Available(w) > 0 => Right(w, o)
        PROVE  Continue(head, n, o + Pointer(w))
    <3> SUFFICES ASSUME NEW k \in 1 .. n
                 PROVE  k \in DOMAIN head /\ head[k] = o + Pointer(w) + k - 1
      BY DEF Continue
    <3>1. k \in DOMAIN head /\ head[k] = w.buffer[w.position + k]
      BY <1>4, <1>5, <1>7
    <3>2. w.position + k \in 1 .. w.length /\ Available(w) > 0
      BY <1>1, <1>2, <1>c, <1>7
    <3>3. w.buffer[w.position + k] = o + w.start + (w.position + k) - 1
      BY <2>12, <3>2 DEF Right
    <3>4. o + w.start + (w.position + k) - 1 = o + Pointer(w) + k - 1
      <4>1. w.start \in Nat /\ w.position \in Nat
        BY <1>1
      <4>2. QED
        BY <1>3, <4>1
    <3>5. QED
      BY <3>1, <3>3, <3>4
  <2>13. got = 0
    BY <1>e, <1>7
  <2>e. End(r.win) = End(w) + got
    BY <1>d, <2>8, <2>13
  <2>f. AreBytes(r.bytes)
    BY <1>l, <2>5
  <2>g. n = 0 \/ Pointer(w) + n <= length
    BY <2>10
  <2>14. Moves(r, w, length, n, got)
    BY <2>5, <2>8, <2>9, <2>e, <2>f, <2>g DEF Moves
  <2>15. \A o \in Nat : Holds(r, w, n, got, bytes, o)
    BY <2>5, <2>11, <2>12, <2>13 DEF Holds
  <2>16. QED
    BY <2>14, <2>15 DEF got, r
<1>8. CASE rest > 0 /\ got = 0
  <2>1. r = [win |-> [w EXCEPT !.position = w.length], bytes |-> head, ok |-> FALSE]
    <3>1. ~(rest <= 0)
      BY <1>2, <1>8
    <3>2. QED
      BY <3>1, <1>8 DEF ReadBytesOf, head, rest, got
  <2> HIDE DEF r
  <2>2. r.win = [w EXCEPT !.position = w.length]
    BY <2>1
  <2>3. r.ok = FALSE /\ r.bytes = head
    BY <2>1
  <2>4. /\ r.win \in Window /\ r.win.size = w.size /\ r.win.start = w.start
        /\ r.win.length = w.length /\ r.win.position = w.length
        /\ r.win.buffer = w.buffer
    BY <1>0, <1>1, <2>2, PositionFacts
  <2>5. End(r.win) = End(w)
    BY <2>4 DEF End
  <2>6. Sane(r.win, length)
    BY <1>0, <1>1, <1>a, <1>b, <2>4, <2>5 DEF Sane
  <2>7. End(w) + rest > length
    <3>1. CASE Direct(w, n)
      BY <1>2, <1>d, <1>g, <1>8, <3>1
    <3>2. CASE ~Direct(w, n)
      BY <1>2, <1>d, <1>h, <1>8, <3>2
    <3>3. QED
      BY <3>1, <3>2
  <2>8. Pointer(w) + n > length
    BY <1>i, <2>7
  <2>9. ASSUME NEW o \in Nat, Right(w, o)
        PROVE  Right(r.win, o)
    BY <2>4, <2>9 DEF Right
  <2>e. End(r.win) = End(w) + got
    BY <1>d, <1>8, <2>5
  <2>f. AreBytes(r.bytes)
    BY <1>l, <2>3
  <2>g. ~(n = 0 \/ Pointer(w) + n <= length)
    BY <1>k, <1>i, <1>8, <2>8
  <2>10. Moves(r, w, length, n, got)
    BY <2>3, <2>6, <2>e, <2>f, <2>g DEF Moves
  <2>11. \A o \in Nat : Holds(r, w, n, got, bytes, o)
    BY <1>8, <2>3, <2>9 DEF Holds
  <2>12. QED
    BY <2>10, <2>11 DEF got, r
<1>9. CASE rest > 0 /\ got > 0 /\ Direct(w, n)
  <2>1. r = [win |-> Moved(w, End(w) + rest), bytes |-> Over(bytes, head), ok |-> TRUE]
    <3>1. ~(rest <= 0) /\ got # 0
      BY <1>2, <1>e, <1>9
    <3>2. QED
      BY <3>1, <1>9 DEF ReadBytesOf, head, rest, got
  <2> HIDE DEF r
  <2>2. End(w) + rest \in Nat /\ got = rest /\ End(w) + rest <= length
    BY <1>2, <1>d, <1>g, <1>9
  <2>3. r.win = Moved(w, End(w) + rest) /\ r.ok = TRUE /\ r.bytes = Over(bytes, head)
    BY <2>1
  <2>4. /\ r.win \in Window /\ r.win.size = w.size /\ r.win.start = End(w) + rest
        /\ r.win.length = 0 /\ r.win.position = 0
        /\ r.win.buffer = w.buffer
    <3>1. /\ Moved(w, End(w) + rest)
               = [size |-> w.size, start |-> End(w) + rest, length |-> 0, position |-> 0,
                  buffer |-> w.buffer]
          /\ Moved(w, End(w) + rest) \in Window
      BY <1>0, <2>2, MovedFacts
    <3>2. QED
      BY <2>3, <3>1
  <2>5. End(r.win) = End(w) + got
    BY <1>d, <2>2, <2>4 DEF End
  <2>6. Pointer(r.win) = Pointer(w) + n
    BY <1>i, <2>2, <2>4 DEF Pointer
  <2>7. Sane(r.win, length)
    BY <1>0, <1>1, <2>4 DEF Sane
  <2>8. Pointer(w) + n <= length
    BY <1>i, <2>2
  <2>9. \A o \in Nat : Right(r.win, o)
    BY <2>4 DEF Right
  <2>10. ASSUME NEW o \in Nat, ~Split(w, n), Continue(bytes, got, o + End(w))
         PROVE  Continue(r.bytes, n, o + Pointer(w))
    <3>1. Available(w) = 0
      BY <1>6, <1>9, <1>c, <2>10
    <3>2. got = n /\ End(w) = Pointer(w)
      BY <1>1, <1>2, <1>3, <1>c, <1>d, <2>2, <3>1
    <3>3. \A k \in DOMAIN bytes : r.bytes[k] = bytes[k] /\ k \in DOMAIN r.bytes
      <4>1. /\ DOMAIN Over(bytes, head) = DOMAIN bytes \cup DOMAIN head
            /\ \A k \in DOMAIN bytes : Over(bytes, head)[k] = bytes[k]
        BY <1>l, OverFacts
      <4>2. QED
        BY <2>3, <4>1
    <3>4. QED
      BY <2>10, <3>2, <3>3 DEF Continue
  <2>11. AreBytes(r.bytes)
    BY <1>l, <2>3, OverFacts
  <2>12. Moves(r, w, length, n, got)
    BY <2>3, <2>5, <2>6, <2>7, <2>8, <2>11 DEF Moves
  <2>13. \A o \in Nat : Holds(r, w, n, got, bytes, o)
    BY <1>9, <2>3, <2>9, <2>10 DEF Holds
  <2>14. QED
    BY <2>12, <2>13 DEF got, r
<1>10. CASE rest > 0 /\ got > 0 /\ ~Direct(w, n)
  <2> DEFINE p == IF got < rest THEN 0 ELSE rest
             used == Smaller(got, rest)
  <2>1. r = [win |-> [full EXCEPT !.position = p],
             bytes |-> Over(Take(full, used), head), ok |-> got >= rest]
    <3>1. ~(rest <= 0) /\ got # 0
      BY <1>2, <1>e, <1>10
    <3>2. QED
      BY <3>1, <1>10 DEF ReadBytesOf, head, rest, got, full
  <2>2. p \in Nat /\ p <= got /\ used \in Nat /\ used <= got
    BY <1>2, <1>e, <1>10 DEF Smaller
  <2>3. got >= rest => p = rest /\ used = rest
    BY <1>2, <1>e, <1>10 DEF Smaller
  <2> HIDE DEF r, p, used
  <2>4. /\ full \in Window /\ full.size = w.size /\ full.start = End(w)
        /\ full.length = got /\ full.position = 0
        /\ Len(full.buffer) = Len(Array(w))
        /\ Filled(full.buffer, bytes)
    <3>1. w \in Window
      BY <1>0
    <3>2. End(w) \in Nat /\ got \in Nat
      BY <1>d, <1>e
    <3>3. full = Refilled(w, End(w), got, bytes)
      BY DEF full
    <3>4. /\ full \in Window /\ full.size = w.size /\ full.start = End(w)
          /\ full.length = got /\ full.position = 0
          /\ Len(full.buffer) = Len(Array(w))
      <4>1. full = [size |-> w.size, start |-> End(w), length |-> got, position |-> 0,
                   buffer |-> Store(Array(w), bytes)]
        BY <3>1, <3>2, <3>3, RefilledIs
      <4>2. full \in Window
        BY <3>1, <3>2, <3>3, RefilledType
      <4>3. Len(full.buffer) = Len(Array(w))
        BY <3>1, <3>2, <3>3, RefilledLength
      <4>4. QED
        BY <4>1, <4>2, <4>3
    <3>5. Filled(full.buffer, bytes)
      BY <3>1, <3>2, <3>3, RefilledBytes
    <3>6. QED
      BY <3>4, <3>5
  <2>5. Len(Array(w)) \in Nat
    BY <1>0, ArrayFacts
  <2>6. got <= Len(Array(w))
    BY <1>e, <1>10, <2>5 DEF Overruns, got
  <2>7. r.win = [full EXCEPT !.position = p] /\ r.ok = (got >= rest)
        /\ r.bytes = Over(Take(full, used), head)
    BY <2>1
  <2>8. full \in Window
    BY <2>4
  <2>9. /\ r.win \in Window /\ r.win.size = full.size /\ r.win.start = full.start
        /\ r.win.length = full.length /\ r.win.position = p
        /\ r.win.buffer = full.buffer
    BY <2>2, <2>7, <2>8, PositionFacts
  <2>10. /\ r.win.start = End(w) /\ r.win.length = got /\ Len(r.win.buffer) = Len(Array(w))
         /\ r.win.size = w.size
    BY <2>4, <2>9
  <2>11. full.position + used <= Len(full.buffer) /\ full.position = 0
    BY <1>e, <2>2, <2>4, <2>5, <2>6
  <2>12. /\ DOMAIN Take(full, used) = 1 .. used
         /\ \A k \in 1 .. used : Take(full, used)[k] = full.buffer[k]
    <3>1. /\ DOMAIN Take(full, used) = 1 .. used
          /\ \A k \in 1 .. used : Take(full, used)[k] = full.buffer[full.position + k]
          /\ AreBytes(Take(full, used))
      BY <2>2, <2>8, <2>11, TakeFacts
    <3>2. QED
      BY <2>2, <2>11, <3>1
  <2>m. AreBytes(Take(full, used))
    BY <2>2, <2>8, <2>11, TakeFacts
  <2>13. End(r.win) = End(w) + got
    BY <1>d, <2>10 DEF End
  <2>14. Sane(r.win, length)
    BY <1>0, <1>e, <1>f, <1>10, <2>2, <2>5, <2>6, <2>9, <2>10, <2>13 DEF Sane
  <2>15. got >= rest => Pointer(r.win) = Pointer(w) + n
    BY <1>i, <2>3, <2>9, <2>10 DEF Pointer
  <2>16. got >= rest <=> Pointer(w) + n <= length
    BY <1>h, <1>i, <1>10
  <2>17. ASSUME NEW o \in Nat, Continue(bytes, got, o + End(w))
         PROVE  \A k \in 1 .. got : full.buffer[k] = o + End(w) + k - 1
    <3>1. Filled(full.buffer, bytes) /\ Len(full.buffer) \in Nat /\ got <= Len(full.buffer)
      BY <2>4, <2>5, <2>6
    <3>2. QED
      BY <1>e, <2>17, <3>1, FilledFacts
  <2>18. ASSUME NEW o \in Nat, Continue(bytes, got, o + End(w))
         PROVE  Right(r.win, o)
    BY <2>9, <2>10, <2>17, <2>18 DEF Right
  <2>19. ASSUME NEW o \in Nat, got >= rest, ~Split(w, n), Continue(bytes, got, o + End(w))
         PROVE  Continue(r.bytes, n, o + Pointer(w))
    <3>1. Available(w) = 0
      BY <1>6, <1>10, <1>c, <2>19
    <3>2. rest = n /\ End(w) = Pointer(w) /\ used = n
      BY <1>1, <1>2, <1>3, <1>c, <1>d, <2>3, <2>19, <3>1
    <3>3. \A k \in 1 .. n : full.buffer[k] = o + End(w) + k - 1
      BY <1>e, <2>2, <2>17, <2>19, <3>2
    <3>4. \A k \in DOMAIN Take(full, used) :
            r.bytes[k] = Take(full, used)[k] /\ k \in DOMAIN r.bytes
      <4>1. /\ DOMAIN Over(Take(full, used), head) = DOMAIN Take(full, used) \cup DOMAIN head
            /\ \A k \in DOMAIN Take(full, used) :
                 Over(Take(full, used), head)[k] = Take(full, used)[k]
        BY <1>l, <2>m, OverFacts
      <4>2. QED
        BY <2>7, <4>1
    <3>5. QED
      BY <2>12, <3>2, <3>3, <3>4 DEF Continue
  <2>20. AreBytes(r.bytes)
    <3>1. AreBytes(Over(Take(full, used), head))
      BY <1>l, <2>m, OverFacts
    <3>2. QED
      BY <2>7, <3>1
  <2>21. r.ok \in BOOLEAN /\ (r.ok <=> got >= rest)
    <3>1. CASE got >= rest
      BY <2>7, <3>1
    <3>2. CASE ~(got >= rest)
      <4>1. (got >= rest) = FALSE
        BY <3>2
      <4>2. r.ok = FALSE
        BY <2>7, <4>1
      <4>3. QED
        BY <3>2, <4>2
    <3>3. QED
      BY <3>1, <3>2
  <2>22. Moves(r, w, length, n, got)
    BY <1>k, <1>10, <2>13, <2>14, <2>15, <2>16, <2>20, <2>21 DEF Moves
  <2>23. \A o \in Nat : Holds(r, w, n, got, bytes, o)
    BY <1>10, <2>18, <2>19, <2>21 DEF Holds
  <2>24. QED
    BY <2>22, <2>23 DEF got, r
<1>11. QED
  BY <1>2, <1>e, <1>7, <1>8, <1>9, <1>10

--------------------------------------------------------------------------------
(* ReadInternal. *)

(* The inductive invariant: every window is sane, and those that are not torn,
   and the device, are where the file's bytes are. *)
Inv ==
  /\ win \in [Inputs -> Window]
  /\ \A i \in Inputs : Sane(win[i], Length(i))
  /\ \A i \in Inputs \ torn : Right(win[i], Origin(i))
  /\ device = End(win[File])
  /\ wild \in BOOLEAN
  /\ torn \subseteq Slices
  /\ faults = {}

(* A supply s of n bytes to i from start on, that did not overrun. *)
Good(s, i, start, n) ==
  /\ AreBytes(s.bytes)
  /\ Sane(s.file, FileLength)
  /\ Right(s.file, 0)
  /\ i # File => s.device = End(s.file)
  /\ i = File => /\ s.file = win[File]
                 /\ s.device = IF n > 0 THEN start + n ELSE device
                 /\ s.split = FALSE
  /\ n > 0 /\ ~s.split => Continue(s.bytes, n, Origin(i) + start)

LEMMA FileFacts ==
  ASSUME Inv
  PROVE  /\ File \in Inputs /\ File \notin torn /\ FileLength \in Nat
         /\ win[File] \in Window
         /\ Sane(win[File], FileLength) /\ Right(win[File], 0)
         /\ device = End(win[File]) /\ device \in Nat
<1>1. File \in Inputs /\ File \notin torn /\ FileLength \in Nat
  BY FileAssumption DEF Inputs, Inv
<1>2. Sane(win[File], FileLength) /\ Right(win[File], 0)
  BY <1>1, ConstantTypes DEF Inv
<1>3. win[File] \in Window
  BY <1>1 DEF Inv
<1>4. device = End(win[File])
  BY DEF Inv
<1>5. device \in Nat
  BY <1>3, <1>4, WindowFields DEF End
<1>6. QED
  BY <1>1, <1>2, <1>3, <1>4, <1>5

LEMMA NothingGood ==
  ASSUME Inv, NEW i \in Inputs, NEW start \in Nat
  PROVE  Good(Nothing, i, start, 0)
<1>1. /\ Nothing.bytes = <<>> /\ Nothing.file = win[File] /\ Nothing.device = device
      /\ Nothing.split = FALSE
  BY DEF Nothing
<1>2. AreBytes(<<>>)
  BY DEF AreBytes
<1> HIDE DEF Nothing
<1>3. QED
  BY <1>1, <1>2, FileFacts DEF Good

(* Where the file's refill begins. *)
LEMMA DeviceAtFacts ==
  ASSUME NEW w, NEW length, Sane(w, length), NEW refill \in BOOLEAN
  PROVE  DeviceAt(w, End(w), refill) = End(w)
<1>1. w \in Window /\ w.length <= Len(w.buffer)
  BY DEF Sane
<1>2. w.buffer = <<>> => w.length = 0
  BY <1>1, WindowFields
<1>3. w.buffer = <<>> => w.start = End(w)
  BY <1>1, <1>2, WindowFields DEF End
<1>4. QED
  BY <1>3 DEF DeviceAt

(* Bytes in the order of the device. *)
LEMMA DeviceBytes ==
  ASSUME NEW n \in Nat, NEW at \in Nat
  PROVE  /\ AreBytes([k \in 1 .. n |-> at + k - 1])
         /\ Continue([k \in 1 .. n |-> at + k - 1], n, at)
BY DEF AreBytes, Continue, Byte

LEMMA FromDeviceGood ==
  ASSUME Inv, NEW start \in Nat, NEW n \in Nat, n > 0
  PROVE  Good(FromDevice(start, n), File, start, n) /\ ~FromDevice(start, n).overrun
<1> DEFINE s == FromDevice(start, n)
<1>1. /\ s.bytes = [k \in 1 .. n |-> start + k - 1] /\ s.file = win[File]
      /\ s.device = start + n /\ s.split = FALSE /\ s.overrun = FALSE
  BY DEF FromDevice, Nothing
<1> HIDE DEF s
<1>2. AreBytes(s.bytes) /\ Continue(s.bytes, n, start)
  BY <1>1, DeviceBytes
<1>3. Origin(File) + start = start
  BY ConstantTypes
<1>4. Good(s, File, start, n)
  BY <1>1, <1>2, <1>3, FileFacts DEF Good
<1>5. QED
  BY <1>1, <1>4 DEF s

LEMMA FromFileGood ==
  ASSUME Inv, NEW i \in Slices, NEW start \in Nat, NEW n \in Nat, n > 0,
         start + n <= Length(i), ~FromFile(Offset[i] + start, n).overrun
  PROVE  Good(FromFile(Offset[i] + start, n), i, start, n)
<1> DEFINE pos == Offset[i] + start
           w == Sought(win[File], pos)
           at == IF Inside(win[File], pos) THEN device ELSE pos
           got == Needs(w, FileLength, n)
           from == DeviceAt(w, at, ~Direct(w, n))
           given == [k \in 1 .. got |-> from + k - 1]
           read == ReadBytesOf(w, FileLength, n, given)
           s == FromFile(pos, n)
<1>1. i # File /\ i \in Inputs /\ pos \in Nat /\ pos + n <= FileLength
      /\ Origin(i) = Offset[i] /\ Offset[i] \in Nat
  <2>1. i # File /\ i \in Inputs
    BY FileAssumption DEF Inputs
  <2>2. Origin(i) = Offset[i] /\ Offset[i] \in Nat
    BY <2>1, FileAssumption DEF Origin
  <2>3. Length(i) \in Nat /\ Offset[i] + Length(i) <= FileLength
    BY <2>1, <2>2, ConstantTypes
  <2>4. FileLength \in Nat
    BY FileAssumption
  <2>5. QED
    BY <2>1, <2>2, <2>3, <2>4
<1> HIDE DEF pos
<1>2. /\ Sane(w, FileLength) /\ Pointer(w) = pos /\ Right(w, 0)
      /\ End(w) = IF Inside(win[File], pos) THEN End(win[File]) ELSE pos
  BY <1>1, FileFacts, SoughtFacts
<1>3. at = End(w)
  BY <1>2, FileFacts
<1>4. from = End(w)
  <2> HIDE DEF w, at
  <2>1. (~Direct(w, n)) \in BOOLEAN
    BY DEF Direct
  <2>2. QED
    BY <1>2, <1>3, <2>1, DeviceAtFacts
<1> HIDE DEF w, at
<1>5. got \in Nat /\ End(w) \in Nat
  BY <1>2, FileFacts, NeedsFacts
<1>6. AreBytes(given) /\ Continue(given, got, End(w))
  BY <1>4, <1>5, DeviceBytes
<1>7. s = IF ~Direct(w, n) /\ Overruns(w, got) THEN [Nothing EXCEPT !.overrun = TRUE]
          ELSE [bytes |-> read.bytes, file |-> read.win,
                device |-> IF got > 0 THEN from + got ELSE at,
                split |-> Split(w, n), overrun |-> FALSE]
  BY DEF FromFile, w, at
<1>8. ~s.overrun
  BY DEF pos
<1> HIDE DEF got, from, given, read, s
<1>9. ~(~Direct(w, n) /\ Overruns(w, got))
  <2>1. [Nothing EXCEPT !.overrun = TRUE].overrun = TRUE
    BY DEF Nothing
  <2>2. QED
    BY <1>7, <1>8, <2>1
<1>10. /\ s.bytes = read.bytes /\ s.file = read.win
       /\ s.device = (IF got > 0 THEN from + got ELSE at)
       /\ s.split = Split(w, n)
  BY <1>7, <1>9
<1>11. /\ Moves(read, w, FileLength, n, got)
       /\ Holds(read, w, n, got, given, 0)
  BY <1>2, <1>6, <1>9, FileFacts, ReadBytesOutcome DEF read, got
<1>12. read.ok
  BY <1>1, <1>2, <1>11 DEF Moves
<1>13. s.device = End(s.file)
  BY <1>3, <1>4, <1>5, <1>10, <1>11 DEF Moves
<1>14. Continue(given, got, 0 + End(w))
  BY <1>5, <1>6
<1>15. Right(s.file, 0)
  BY <1>2, <1>10, <1>11, <1>14 DEF Holds
<1>16. ~s.split => Continue(s.bytes, n, 0 + Pointer(w))
  BY <1>2, <1>10, <1>11, <1>12, <1>14 DEF Holds
<1>17. 0 + Pointer(w) = Origin(i) + start
  BY <1>1, <1>2 DEF pos
<1>18. AreBytes(s.bytes) /\ Sane(s.file, FileLength)
  BY <1>10, <1>11 DEF Moves
<1>19. Good(s, i, start, n)
  BY <1>1, <1>13, <1>15, <1>16, <1>17, <1>18 DEF Good
<1>20. QED
  BY <1>19 DEF s, pos

LEMMA SupplyGood ==
  ASSUME Inv, NEW i \in Inputs, NEW start \in Nat, NEW n \in Nat,
         n > 0 => start + n <= Length(i), NEW at, i = File => at = start,
         ~Supply(i, start, n, at).overrun
  PROVE  Good(Supply(i, start, n, at), i, start, n)
<1>1. CASE n = 0
  BY <1>1, NothingGood DEF Supply
<1>2. CASE n # 0 /\ i = File
  <2>1. Supply(i, start, n, at) = FromDevice(start, n)
    BY <1>2 DEF Supply
  <2>2. QED
    BY <1>2, <2>1, FromDeviceGood
<1>3. CASE n # 0 /\ i # File
  <2>1. Supply(i, start, n, at) = FromFile(Offset[i] + start, n)
    BY <1>3 DEF Supply
  <2>2. i \in Slices /\ n > 0
    BY <1>3 DEF Inputs
  <2>3. QED
    BY <2>1, <2>2, FromFileGood
<1>4. QED
  BY <1>1, <1>2, <1>3

--------------------------------------------------------------------------------
(* What every read does in the end. *)

LEMMA UpdateKeeps ==
  ASSUME Inv, NEW i \in Inputs, NEW w, NEW s, NEW refill \in BOOLEAN,
         Update(i, w, s, refill),
         NEW start \in Nat, NEW n \in Nat, Good(s, i, start, n),
         Sane(w, Length(i)),
         i = File => s.device = End(w),
         IF refill THEN ~s.split => Right(w, Origin(i))
         ELSE i \notin torn => Right(w, Origin(i))
  PROVE  /\ win' \in [Inputs -> Window]
         /\ \A j \in Inputs : Sane(win'[j], Length(j))
         /\ \A j \in Inputs \ torn' : Right(win'[j], Origin(j))
         /\ device' = End(win'[File])
         /\ wild' \in BOOLEAN
         /\ torn' \subseteq Slices
<1>1. win' = [j \in Inputs |-> IF j = i THEN w ELSE IF j = File THEN s.file ELSE win[j]]
  BY DEF Update
<1>2. Sane(s.file, FileLength) /\ Right(s.file, 0) /\ (i # File => s.device = End(s.file))
  BY DEF Good
<1>3. \A j \in Inputs : Sane(win'[j], Length(j))
  BY <1>1, <1>2, ConstantTypes DEF Inv
<1>4. \A j \in Inputs : win'[j] \in Window
  BY <1>3 DEF Sane
<1>5. win' \in [Inputs -> Window]
  BY <1>1, <1>4
<1>6. torn' = IF ~refill THEN torn
              ELSE IF i # File /\ s.split THEN torn \cup {i} ELSE torn \ {i}
  BY DEF Update
<1>7. torn' \subseteq Slices
  BY <1>6 DEF Inv, Inputs
<1>8. i \notin torn' => Right(w, Origin(i))
  <2>1. i = File => s.split = FALSE
    BY DEF Good
  <2>2. QED
    BY <1>6, <2>1
<1>9. ASSUME NEW j \in Inputs \ torn'
      PROVE  Right(win'[j], Origin(j))
  <2>1. CASE j = i
    BY <1>1, <1>8, <1>9, <2>1
  <2>2. CASE j # i /\ j = File
    BY <1>1, <1>2, <1>9, <2>2, ConstantTypes
  <2>3. CASE j # i /\ j # File
    <3>1. win'[j] = win[j] /\ j \notin torn
      BY <1>1, <1>6, <1>9, <2>3
    <3>2. QED
      BY <3>1 DEF Inv
  <2>4. QED
    BY <2>1, <2>2, <2>3
<1>10. device' = End(win'[File])
  <2>1. device' = s.device
    BY DEF Update
  <2>2. win'[File] = IF i = File THEN w ELSE s.file
    BY <1>1, FileFacts
  <2>3. QED
    BY <1>2, <2>1, <2>2
<1>11. wild' \in BOOLEAN
  BY DEF Update
<1>12. QED
  BY <1>3, <1>5, <1>7, <1>9, <1>10, <1>11

LEMMA ReportKeeps ==
  ASSUME faults = {}, NEW i \in Inputs, NEW from \in Nat, NEW n \in Nat, NEW must \in Nat,
         NEW bytes, NEW ok, NEW after, NEW sound,
         Report(i, from, n, must, bytes, ok, after, sound),
         ok /\ sound => Gives(i, from, n, bytes),
         ok => after = from + n,
         ok /\ must > 0 => from + must <= Length(i),
         ~ok => from + must > Length(i)
  PROVE  faults' = {}
<1>1. Length(i) \in Nat /\ from + must \in Nat
  BY ConstantTypes
<1>2. ~(ok /\ sound /\ ~Gives(i, from, n, bytes))
  OBVIOUS
<1>3. ~(ok /\ after # from + n)
  OBVIOUS
<1>4. ~(ok /\ must > 0 /\ from + must > Length(i))
  BY <1>1
<1>5. ~(~ok /\ from + must <= Length(i))
  BY <1>1
<1>6. QED
  BY <1>2, <1>3, <1>4, <1>5 DEF Report

(* A read from the position, which has to notice that any of its bytes lacks. *)
LEMMA StreamKeeps ==
  ASSUME faults = {}, NEW i \in Inputs, NEW from \in Nat, NEW n \in Nat, NEW bytes, NEW ok,
         NEW after, NEW sound,
         Report(i, from, n, n, bytes, ok, after, sound),
         ok /\ sound => Continue(bytes, n, Origin(i) + from),
         ok => after = from + n,
         ok /\ n > 0 => from + n <= Length(i),
         ~ok => from + n > Length(i)
  PROVE  faults' = {}
<1>1. Continue(bytes, n, Origin(i) + from) => Gives(i, from, n, bytes)
  BY ConstantTypes DEF Continue, Gives
<1>2. QED
  BY <1>1, ReportKeeps

LEMMA OverrunKeeps ==
  ASSUME Inv, Overrun
  PROVE  Inv'
BY DEF Inv, Overrun, Sane, Right, Window, End

--------------------------------------------------------------------------------
(* The operations. *)

LEMMA ReadBytesKeeps ==
  ASSUME Inv, NEW i \in Inputs, NEW n \in Nat, ReadBytes(i, n)
  PROVE  Inv'
<1> DEFINE w == win[i]
           got == Needs(w, Length(i), n)
           refill == got > 0 /\ ~Direct(w, n)
           s == Supply(i, End(w), got, DeviceAt(w, device, refill))
           r == ReadBytesOf(w, Length(i), n, s.bytes)
           sound == ~Split(w, n) /\ ~s.split /\ (i \in torn => Available(w) = 0)
<1>1. \/ Overrun
      \/ /\ ~(s.overrun \/ (refill /\ Overruns(w, got)))
         /\ Update(i, r.win, s, refill)
         /\ Report(i, Pointer(w), n, n, r.bytes, r.ok, Pointer(r.win), sound)
  BY DEF ReadBytes
<1>2. CASE Overrun
  BY <1>2, OverrunKeeps
<1>3. CASE /\ ~(s.overrun \/ (refill /\ Overruns(w, got)))
           /\ Update(i, r.win, s, refill)
           /\ Report(i, Pointer(w), n, n, r.bytes, r.ok, Pointer(r.win), sound)
  <2>1. Sane(w, Length(i)) /\ Length(i) \in Nat /\ Origin(i) \in Nat
    BY ConstantTypes DEF Inv
  <2>2. got \in Nat /\ End(w) \in Nat /\ (got > 0 => End(w) + got <= Length(i))
    BY <2>1, NeedsFacts
  <2>3. Available(w) \in Nat
    BY <2>1, NeedsFacts
  <2>4. w \in Window /\ Pointer(w) \in Nat
    BY <2>1, WindowFields DEF Sane, Pointer
  <2>5. (i \notin torn => Right(w, Origin(i))) /\ (i = File => device = End(w))
    BY DEF Inv
  <2> HIDE DEF w
  <2>6. refill \in BOOLEAN
    OBVIOUS
  <2> HIDE DEF got, refill
  <2>7. i = File => DeviceAt(w, device, refill) = End(w)
    BY <2>1, <2>5, <2>6, DeviceAtFacts
  <2>8. Good(s, i, End(w), got)
    BY <1>3, <2>2, <2>7, SupplyGood
  <2> HIDE DEF s
  <2>9. AreBytes(s.bytes)
    BY <2>8 DEF Good
  <2>10. refill => ~Overruns(w, got)
    BY <1>3
  <2>11. /\ Moves(r, w, Length(i), n, got)
         /\ \A o \in Nat : Holds(r, w, n, got, s.bytes, o)
    BY <2>1, <2>9, <2>10, ReadBytesOutcome DEF got, refill
  <2> HIDE DEF r, sound
  <2>12. Holds(r, w, n, got, s.bytes, Origin(i))
    BY <2>1, <2>11
  <2>13. got > 0 /\ ~s.split => Continue(s.bytes, got, Origin(i) + End(w))
    BY <2>8 DEF Good
  <2>14. Sane(r.win, Length(i)) /\ End(r.win) = End(w) + got
    BY <2>11 DEF Moves
  <2>15. i = File => s.device = End(r.win)
    <3>1. CASE got > 0
      BY <2>8, <2>14, <3>1 DEF Good
    <3>2. CASE got = 0
      BY <2>2, <2>5, <2>8, <2>14, <3>2 DEF Good
    <3>3. QED
      BY <2>2, <3>1, <3>2
  <2>16. IF refill THEN ~s.split => Right(r.win, Origin(i))
         ELSE i \notin torn => Right(r.win, Origin(i))
    BY <2>5, <2>12, <2>13 DEF Holds, refill
  <2>17. /\ win' \in [Inputs -> Window]
         /\ \A j \in Inputs : Sane(win'[j], Length(j))
         /\ \A j \in Inputs \ torn' : Right(win'[j], Origin(j))
         /\ device' = End(win'[File])
         /\ wild' \in BOOLEAN
         /\ torn' \subseteq Slices
    BY <1>3, <2>2, <2>6, <2>8, <2>14, <2>15, <2>16, UpdateKeeps
  <2>18. r.ok /\ sound => Continue(r.bytes, n, Origin(i) + Pointer(w))
    BY <2>3, <2>5, <2>12, <2>13 DEF Holds, sound
  <2>19. /\ r.ok => Pointer(r.win) = Pointer(w) + n
         /\ r.ok /\ n > 0 => Pointer(w) + n <= Length(i)
         /\ ~r.ok => Pointer(w) + n > Length(i)
    BY <2>1, <2>4, <2>11 DEF Moves
  <2>20. Report(i, Pointer(w), n, n, r.bytes, r.ok, Pointer(r.win), sound)
    BY <1>3
  <2>21. faults = {}
    BY DEF Inv
  <2>22. faults' = {}
    BY <2>4, <2>18, <2>19, <2>20, <2>21, StreamKeeps
  <2>23. QED
    BY <2>17, <2>22 DEF Inv
<1>4. QED
  BY <1>1, <1>2, <1>3

(* A read that finds what it needs in the window. *)
LEMMA UpdateAlone ==
  ASSUME Inv, NEW i \in Inputs, NEW w, Update(i, w, Nothing, FALSE),
         Sane(w, Length(i)), End(w) = End(win[i]),
         i \notin torn => Right(w, Origin(i))
  PROVE  /\ win' \in [Inputs -> Window]
         /\ \A j \in Inputs : Sane(win'[j], Length(j))
         /\ \A j \in Inputs \ torn' : Right(win'[j], Origin(j))
         /\ device' = End(win'[File])
         /\ wild' \in BOOLEAN
         /\ torn' \subseteq Slices
<1>1. Good(Nothing, i, 0, 0)
  BY NothingGood
<1>2. i = File => Nothing.device = End(w)
  BY FileFacts DEF Nothing
<1> HIDE DEF Nothing
<1>3. QED
  BY <1>1, <1>2, UpdateKeeps

LEMMA ReadValueHereKeeps ==
  ASSUME Inv, NEW i \in Inputs, NEW need \in Widths, NEW n \in 1 .. need,
         ReadValueHere(i, need, n)
  PROVE  Inv'
<1> DEFINE v == win[i]
           w == [win[i] EXCEPT !.position = @ + n]
<1>1. Update(i, w, Nothing, FALSE) /\ need <= Available(v)
  BY DEF ReadValueHere
<1>2. Report(i, Pointer(v), n, n, Take(v, n), TRUE, Pointer(w), i \notin torn)
  BY DEF ReadValueHere
<1>3. n \in Nat /\ n > 0 /\ n <= need /\ need \in Nat
  BY SizeAssumption
<1>4. Sane(v, Length(i)) /\ v \in Window /\ Length(i) \in Nat /\ Origin(i) \in Nat
  BY ConstantTypes DEF Inv
<1>5. /\ v.size \in Nat /\ v.start \in Nat /\ v.length \in Nat /\ v.position \in Nat
      /\ Len(v.buffer) \in Nat
  BY <1>4, WindowFields
<1>6. i \notin torn => Right(v, Origin(i))
  BY DEF Inv
<1>7. w = [v EXCEPT !.position = v.position + n]
  BY <1>4 DEF Window
<1> HIDE DEF v, w
<1>8. v.position + n <= v.length /\ v.position + n \in Nat
  BY <1>1, <1>3, <1>5 DEF Available
<1>9. /\ w \in Window /\ w.size = v.size /\ w.start = v.start /\ w.length = v.length
      /\ w.position = v.position + n /\ w.buffer = v.buffer
  BY <1>4, <1>7, <1>8, PositionFacts
<1>10. End(w) = End(v)
  BY <1>9 DEF End
<1>11. Sane(w, Length(i))
  BY <1>4, <1>8, <1>9, <1>10 DEF Sane
<1>12. i \notin torn => Right(w, Origin(i))
  BY <1>6, <1>9 DEF Right
<1>13. Pointer(v) \in Nat /\ Pointer(w) = Pointer(v) + n
  BY <1>3, <1>5, <1>9 DEF Pointer
<1>14. End(v) <= Length(i)
  BY <1>3, <1>4, <1>5, <1>8 DEF Sane
<1>15. Pointer(v) + n <= Length(i)
  BY <1>3, <1>4, <1>5, <1>8, <1>14 DEF Pointer, End
<1>16. ASSUME i \notin torn
       PROVE  Continue(Take(v, n), n, Origin(i) + Pointer(v))
  <2>1. v.length <= Len(v.buffer)
    BY <1>4 DEF Sane
  <2>2. v.position + n <= Len(v.buffer)
    BY <1>3, <1>5, <1>8, <2>1
  <2>3. /\ DOMAIN Take(v, n) = 1 .. n
        /\ \A k \in 1 .. n : Take(v, n)[k] = v.buffer[v.position + k]
    BY <1>3, <1>4, <2>2, TakeFacts
  <2>4. \A k \in 1 .. n : v.position + k \in 1 .. v.length
    BY <1>3, <1>5, <1>8
  <2>5. \A k \in 1 .. n : v.buffer[v.position + k] = Origin(i) + v.start + (v.position + k) - 1
    BY <1>6, <1>16, <2>4 DEF Right
  <2>6. \A k \in 1 .. n : Origin(i) + v.start + (v.position + k) - 1
                            = Origin(i) + Pointer(v) + k - 1
    BY <1>3, <1>4, <1>5 DEF Pointer
  <2>7. QED
    BY <2>3, <2>5, <2>6 DEF Continue
<1>17. /\ win' \in [Inputs -> Window]
       /\ \A j \in Inputs : Sane(win'[j], Length(j))
       /\ \A j \in Inputs \ torn' : Right(win'[j], Origin(j))
       /\ device' = End(win'[File])
       /\ wild' \in BOOLEAN
       /\ torn' \subseteq Slices
  BY <1>1, <1>10, <1>11, <1>12, UpdateAlone DEF v
<1>18. faults = {}
  BY DEF Inv
<1>19. faults' = {}
  BY <1>2, <1>3, <1>13, <1>15, <1>16, <1>18, StreamKeeps
<1>20. QED
  BY <1>17, <1>19 DEF Inv

LEMMA SeekKeeps ==
  ASSUME Inv, NEW i \in Inputs, NEW pos \in Nat, Seek(i, pos)
  PROVE  Inv'
<1> DEFINE w == Sought(win[i], pos)
<1>1. /\ win' = [win EXCEPT ![i] = w]
      /\ device' = IF i = File /\ ~Inside(win[i], pos) THEN pos ELSE device
      /\ UNCHANGED <<wild, torn, faults>>
  BY DEF Seek
<1>2. Sane(win[i], Length(i)) /\ Length(i) \in Nat /\ Origin(i) \in Nat
  BY ConstantTypes DEF Inv
<1>3. /\ Sane(w, Length(i))
      /\ \A o \in Nat : Right(win[i], o) => Right(w, o)
      /\ End(w) = IF Inside(win[i], pos) THEN End(win[i]) ELSE pos
  BY <1>2, SoughtFacts
<1> HIDE DEF w
<1>4. w \in Window
  BY <1>3 DEF Sane
<1>5. \A j \in Inputs : win'[j] = IF j = i THEN w ELSE win[j]
  BY <1>1 DEF Inv
<1>6. win' \in [Inputs -> Window]
  BY <1>1, <1>4 DEF Inv
<1>7. \A j \in Inputs : Sane(win'[j], Length(j))
  BY <1>3, <1>5 DEF Inv
<1>8. \A j \in Inputs \ torn' : Right(win'[j], Origin(j))
  BY <1>1, <1>2, <1>3, <1>5 DEF Inv
<1>9. device' = End(win'[File])
  <2>1. win'[File] = IF File = i THEN w ELSE win[File]
    BY <1>5, FileFacts
  <2>2. QED
    BY <1>1, <1>3, <2>1, FileFacts
<1>10. QED
  BY <1>1, <1>6, <1>7, <1>8, <1>9 DEF Inv

LEMMA SetBufferSizeKeeps ==
  ASSUME Inv, NEW i \in Inputs, NEW size \in Sizes, SetBufferSize(i, size)
  PROVE  Inv'
<1> DEFINE v == win[i]
           w == win'[i]
<1>1. /\ win' = [win EXCEPT ![i] =
           IF v.buffer # <<>> THEN [v EXCEPT !.size = size]
           ELSE [size |-> size, start |-> Pointer(v), length |-> Smaller(Available(v), size),
                 position |-> 0, buffer |-> Blank(size)]]
      /\ UNCHANGED <<device, wild, torn, faults>>
      /\ size >= MIN_BUFFER_SIZE /\ size \in Nat
  BY SizeAssumption DEF SetBufferSize, Inv
<1>2. Sane(v, Length(i)) /\ Length(i) \in Nat /\ Origin(i) \in Nat /\ v \in Window
  BY ConstantTypes DEF Inv
<1>3. w = IF v.buffer # <<>> THEN [v EXCEPT !.size = size]
          ELSE [size |-> size, start |-> Pointer(v), length |-> Smaller(Available(v), size),
                position |-> 0, buffer |-> Blank(size)]
  BY <1>1 DEF Inv
<1>4. \A j \in Inputs : j # i => win'[j] = win[j]
  BY <1>1 DEF Inv
<1> HIDE DEF v, w
<1>5. /\ Sane(w, Length(i)) /\ End(w) = End(v)
      /\ \A o \in Nat : Right(v, o) => Right(w, o)
  <2>1. CASE v.buffer # <<>>
    <3>1. w = [v EXCEPT !.size = size]
      BY <1>3, <2>1
    <3>2. /\ w \in Window /\ w.size = size /\ w.start = v.start /\ w.length = v.length
          /\ w.position = v.position /\ w.buffer = v.buffer
      BY <1>1, <1>2, <3>1 DEF Window
    <3>3. End(w) = End(v)
      BY <3>2 DEF End
    <3>4. QED
      BY <1>1, <1>2, <3>2, <3>3 DEF Sane, Right
  <2>2. CASE v.buffer = <<>>
    <3>1. v.length = 0 /\ v.position = 0 /\ v.start \in Nat
      BY <1>2, <2>2, WindowFields DEF Sane
    <3>2. Pointer(v) = v.start /\ Smaller(Available(v), size) = 0
      BY <1>1, <3>1 DEF Pointer, Available, Smaller
    <3>3. w = [size |-> size, start |-> v.start, length |-> 0, position |-> 0,
               buffer |-> Blank(size)]
      BY <1>3, <2>2, <3>2
    <3>4. Blank(size) \in [1 .. size -> Byte]
      BY DEF Blank, Byte
    <3>5. Blank(size) \in Seq(Byte) /\ Len(Blank(size)) = size
      BY <1>1, <3>4, IsSequence
    <3> HIDE DEF Blank
    <3>6. /\ w \in Window /\ w.size = size /\ w.start = v.start /\ w.length = 0
          /\ w.position = 0 /\ Len(w.buffer) = size
      BY <1>1, <3>1, <3>3, <3>5 DEF Window
    <3>7. End(w) = End(v)
      BY <3>1, <3>6 DEF End
    <3>8. QED
      BY <1>1, <3>6, <3>7 DEF Sane, Right
  <2>3. QED
    BY <2>1, <2>2
<1>6. \A j \in Inputs : win'[j] \in Window
  BY <1>4, <1>5 DEF Inv, Sane, w
<1>7. win' \in [Inputs -> Window]
  BY <1>1, <1>6 DEF Inv
<1>8. \A j \in Inputs : Sane(win'[j], Length(j))
  BY <1>4, <1>5 DEF Inv, w
<1>9. \A j \in Inputs \ torn' : Right(win'[j], Origin(j))
  BY <1>1, <1>2, <1>4, <1>5 DEF Inv, w, v
<1>10. device' = End(win'[File])
  BY <1>1, <1>4, <1>5, FileFacts DEF w, v
<1>11. QED
  BY <1>1, <1>7, <1>8, <1>9, <1>10 DEF Inv

LEMMA FreshFacts ==
  ASSUME NEW length \in Nat, NEW o
  PROVE  Fresh \in Window /\ Sane(Fresh, length) /\ Right(Fresh, o) /\ End(Fresh) = 0
<1>1. <<>> \in Seq(Byte) /\ Len(<<>>) = 0
  OBVIOUS
<1>2. QED
  BY <1>1, ConstantTypes DEF Fresh, Window, Sane, Right, End

LEMMA SliceKeeps ==
  ASSUME Inv, NEW s \in Slices, Slice(s)
  PROVE  Inv'
<1>1. /\ win' = [win EXCEPT ![s] = Fresh] /\ torn' = torn \ {s}
      /\ UNCHANGED <<device, wild, faults>>
  BY DEF Slice
<1>2. s \in Inputs /\ s # File /\ Length(s) \in Nat
  BY FileAssumption, ConstantTypes DEF Inputs
<1>3. Fresh \in Window /\ Sane(Fresh, Length(s)) /\ \A o : Right(Fresh, o)
  BY <1>2, FreshFacts
<1> HIDE DEF Fresh
<1>4. \A j \in Inputs : win'[j] = IF j = s THEN Fresh ELSE win[j]
  BY <1>1 DEF Inv
<1>5. win' \in [Inputs -> Window]
  BY <1>1, <1>3 DEF Inv
<1>6. \A j \in Inputs : Sane(win'[j], Length(j))
  BY <1>3, <1>4 DEF Inv
<1>7. \A j \in Inputs \ torn' : Right(win'[j], Origin(j))
  BY <1>1, <1>3, <1>4 DEF Inv
<1>8. device' = End(win'[File])
  BY <1>1, <1>2, <1>4, FileFacts
<1>9. torn' \subseteq Slices
  BY <1>1 DEF Inv
<1>10. QED
  BY <1>1, <1>5, <1>6, <1>7, <1>8, <1>9 DEF Inv

LEMMA ReadAtKeeps ==
  ASSUME Inv, NEW i \in Inputs, NEW n \in Widths, NEW pos \in Nat, ReadAt(i, pos, n)
  PROVE  Inv'
<1> DEFINE v == win[i]
           short == TooShort(v, pos, n)
           miss == Misses(v, pos, n)
           w == IF miss THEN Moved(v, pos) ELSE v
           got == IF miss THEN RefillLength(w, pos, Length(i)) ELSE 0
           s == Supply(i, pos, got, pos)
           full == IF got > 0 THEN Refilled(w, pos, got, s.bytes) ELSE w
           first == pos - full.start
           bytes == [k \in 1 .. n |-> full.buffer[first + k]]
           sound == ~short /\ ~s.split /\ (i \in torn => got > 0)
           none == [Nothing EXCEPT !.device = IF i = File THEN pos ELSE @]
<1>1. \/ /\ miss /\ got = 0
         /\ Update(i, w, none, FALSE)
         /\ Report(i, pos, n, 1, <<>>, FALSE, pos, FALSE)
      \/ Overrun
      \/ /\ ~(miss /\ got = 0)
         /\ ~(s.overrun \/ (got > 0 /\ Overruns(w, got)) \/ first + n > Len(full.buffer))
         /\ Update(i, full, s, got > 0)
         /\ Report(i, pos, n, IF short THEN 0 ELSE 1, bytes, TRUE, pos + n, sound)
  BY DEF ReadAt
<1>2. n \in Nat /\ n > 0 /\ n <= MIN_BUFFER_SIZE
  <2>1. n <= MIN_BUFFER_SIZE
    BY DEF ReadAt
  <2>2. QED
    BY <2>1, SizeAssumption
<1>3. Sane(v, Length(i)) /\ v \in Window /\ Length(i) \in Nat /\ Origin(i) \in Nat
  BY ConstantTypes DEF Inv
<1>4. i \notin torn => Right(v, Origin(i))
  BY DEF Inv
<1>5. faults = {}
  BY DEF Inv
<1>6. i = File => device = End(v)
  BY DEF Inv
<1>7. v.start \in Nat /\ v.length \in Nat /\ Len(v.buffer) \in Nat
  BY <1>3, WindowFields
<1> HIDE DEF v
<1>8. miss => /\ w \in Window /\ w.size = v.size /\ w.start = pos /\ w.length = 0
              /\ w.position = 0 /\ w.buffer = v.buffer
  BY <1>3, MovedFacts
<1>9. ~miss => w = v /\ got = 0
  OBVIOUS
<1> HIDE DEF miss, w
<1>10. w \in Window /\ w.size > 0 /\ w.size >= MIN_BUFFER_SIZE /\ w.size \in Nat
  BY <1>3, <1>8, <1>9, ConstantTypes, WindowFields DEF Sane
<1>11. /\ got \in Nat
       /\ got > 0 => pos + got <= Length(i) /\ (got >= n \/ pos + got = Length(i))
       /\ miss => (got = 0 <=> pos >= Length(i))
  <2>1. CASE miss
    <3>1. got = RefillLength(w, pos, Length(i))
      BY <2>1
    <3> HIDE DEF got
    <3>2. /\ RefillLength(w, pos, Length(i)) \in Nat
          /\ RefillLength(w, pos, Length(i)) > 0
               => pos + RefillLength(w, pos, Length(i)) <= Length(i)
          /\ RefillLength(w, pos, Length(i)) = 0 <=> pos >= Length(i)
          /\ RefillLength(w, pos, Length(i)) < w.size
               => \/ RefillLength(w, pos, Length(i)) = 0
                  \/ pos + RefillLength(w, pos, Length(i)) = Length(i)
      BY <1>3, <1>10, RefillLengthFacts
    <3>3. n <= w.size
      BY <1>2, <1>10, ConstantTypes
    <3>4. QED
      BY <1>2, <1>10, <3>1, <3>2, <3>3
  <2>2. CASE ~miss
    BY <1>9, <2>2
  <2>3. QED
    BY <2>1, <2>2
<1>12. miss => Sane(w, Length(i)) /\ Right(w, Origin(i)) /\ End(w) = pos
  BY <1>8, <1>10 DEF Sane, Right, End
<1>13. (got > 0) \in BOOLEAN
  BY <1>11
<1> HIDE DEF got
<1>14. CASE Overrun
  BY <1>14, OverrunKeeps
<1>15. CASE /\ miss /\ got = 0
            /\ Update(i, w, none, FALSE)
            /\ Report(i, pos, n, 1, <<>>, FALSE, pos, FALSE)
  <2>1. Good(Nothing, i, pos, 0)
    BY NothingGood
  <2>2. /\ none.bytes = Nothing.bytes /\ none.file = Nothing.file
        /\ none.split = Nothing.split
        /\ none.device = IF i = File THEN pos ELSE Nothing.device
    BY DEF Nothing
  <2> HIDE DEF none
  <2>3. win' = [j \in Inputs |-> IF j = i THEN w ELSE IF j = File THEN win[File] ELSE win[j]]
        /\ device' = (IF i = File THEN pos ELSE device) /\ torn' = torn /\ wild' = FALSE
    BY <1>15, <2>2 DEF Update, Nothing
  <2>4. \A j \in Inputs : win'[j] = IF j = i THEN w ELSE win[j]
    BY <2>3
  <2>5. win' \in [Inputs -> Window]
    BY <1>10, <2>3, FileFacts DEF Inv
  <2>6. \A j \in Inputs : Sane(win'[j], Length(j))
    BY <1>12, <1>15, <2>4 DEF Inv
  <2>7. \A j \in Inputs \ torn' : Right(win'[j], Origin(j))
    BY <1>12, <1>15, <2>3, <2>4 DEF Inv
  <2>8. device' = End(win'[File])
    <3>1. win'[File] = IF File = i THEN w ELSE win[File]
      BY <2>4, FileFacts
    <3>2. QED
      BY <1>12, <1>15, <2>3, <3>1, FileFacts
  <2>9. pos + 1 > Length(i)
    BY <1>3, <1>11, <1>15
  <2>10. Report(i, pos, n, 1, <<>>, FALSE, pos, FALSE)
    BY <1>15
  <2>11. faults' = {}
    BY <1>2, <1>5, <2>9, <2>10, ReportKeeps
  <2>12. QED
    BY <2>3, <2>5, <2>6, <2>7, <2>8, <2>11 DEF Inv
<1>16. CASE /\ ~(miss /\ got = 0)
            /\ ~(s.overrun \/ (got > 0 /\ Overruns(w, got)) \/ first + n > Len(full.buffer))
            /\ Update(i, full, s, got > 0)
            /\ Report(i, pos, n, IF short THEN 0 ELSE 1, bytes, TRUE, pos + n, sound)
  <2>1. Good(s, i, pos, got)
    BY <1>11, <1>16, SupplyGood
  <2>2. AreBytes(s.bytes)
    BY <2>1 DEF Good
  <2> HIDE DEF s
  <2>3. /\ Sane(full, Length(i)) /\ full \in Window
        /\ i = File => s.device = End(full)
        /\ (IF got > 0 THEN ~s.split => Right(full, Origin(i))
            ELSE i \notin torn => Right(full, Origin(i)))
        /\ got > 0 => full.start = pos /\ full.length = got
        /\ got = 0 => full = v /\ ~miss
    <3>1. CASE got > 0
      <4>1. full = Refilled(w, pos, got, s.bytes)
        BY <3>1
      <4> HIDE DEF full
      <4>2. /\ full \in Window /\ full.size = w.size /\ full.start = pos
            /\ full.length = got /\ full.position = 0
            /\ Len(full.buffer) = Len(Array(w))
            /\ Filled(full.buffer, s.bytes)
        <5>1. w \in Window /\ got \in Nat
          BY <1>10, <1>11
        <5>2. PICK b : b = s.bytes
          OBVIOUS
        <5>3. AreBytes(b) /\ full = Refilled(w, pos, got, b)
          BY <2>2, <4>1, <5>2
        <5>4. /\ full \in Window /\ full.size = w.size /\ full.start = pos
              /\ full.length = got /\ full.position = 0
              /\ Len(full.buffer) = Len(Array(w))
          <6>1. full = [size |-> w.size, start |-> pos, length |-> got, position |-> 0,
                       buffer |-> Store(Array(w), b)]
            BY <5>1, <5>3, RefilledIs
          <6>2. full \in Window
            BY <5>1, <5>3, RefilledType
          <6>3. Len(full.buffer) = Len(Array(w))
            BY <5>1, <5>3, RefilledLength
          <6>4. QED
            BY <6>1, <6>2, <6>3
        <5>5. Filled(full.buffer, b)
          BY <5>1, <5>3, RefilledBytes
        <5>6. QED
          BY <5>2, <5>4, <5>5
      <4>3. got <= Len(Array(w)) /\ Len(Array(w)) \in Nat
        BY <1>10, <1>11, <1>16, <3>1, ArrayFacts DEF Overruns
      <4>4. End(full) = pos + got
        BY <4>2 DEF End
      <4>5. Sane(full, Length(i))
        BY <1>10, <1>11, <3>1, <4>2, <4>3, <4>4 DEF Sane
      <4>6. i = File => s.device = End(full)
        BY <2>1, <3>1, <4>4 DEF Good
      <4>7. ASSUME ~s.split
            PROVE  Right(full, Origin(i))
        <5>1. Continue(s.bytes, got, Origin(i) + pos)
          BY <2>1, <3>1, <4>7 DEF Good
        <5>2. /\ Filled(full.buffer, s.bytes) /\ Len(full.buffer) \in Nat
              /\ got <= Len(full.buffer) /\ got \in Nat
          BY <1>11, <4>2, <4>3
        <5>3. \A k \in 1 .. got : full.buffer[k] = Origin(i) + pos + k - 1
          BY <5>1, <5>2, FilledFacts
        <5>4. full.start = pos /\ full.length = got
          BY <4>2
        <5>5. QED
          BY <5>3, <5>4 DEF Right
      <4>8. QED
        BY <3>1, <4>2, <4>5, <4>6, <4>7
    <3>2. CASE got = 0
      <4>1. full = v /\ ~miss
        BY <1>9, <1>16, <3>2
      <4>2. i = File => s.device = device
        BY <2>1, <3>2 DEF Good
      <4>3. QED
        BY <1>3, <1>4, <1>6, <3>2, <4>1, <4>2
    <3>3. QED
      BY <1>11, <3>1, <3>2
  <2> HIDE DEF full
  <2>4. /\ win' \in [Inputs -> Window]
        /\ \A j \in Inputs : Sane(win'[j], Length(j))
        /\ \A j \in Inputs \ torn' : Right(win'[j], Origin(j))
        /\ device' = End(win'[File])
        /\ wild' \in BOOLEAN
        /\ torn' \subseteq Slices
    BY <1>11, <1>13, <1>16, <2>1, <2>3, UpdateKeeps
  <2>5. faults' = {}
    <3>1. PICK must \in Nat : must = IF short THEN 0 ELSE 1
      OBVIOUS
    <3>2. Report(i, pos, n, must, bytes, TRUE, pos + n, sound)
      BY <1>16, <3>1
    <3>3. /\ full.start \in Nat /\ full.length \in Nat /\ End(full) = full.start + full.length
      BY <2>3, WindowFields DEF End
    <3>4. ASSUME ~short, got = 0
          PROVE  pos >= full.start /\ pos + n <= End(full) /\ End(full) <= Length(i)
      <4>1. full = v /\ ~Misses(v, pos, n) /\ ~(v.length < n - 1)
        BY <2>3, <3>4 DEF miss, TooShort
      <4>2. pos >= v.start /\ pos - v.start < v.length - (n - 1)
        BY <1>2, <1>7, <4>1 DEF Misses, Wrap
      <4>3. v.length > 0 /\ pos + n <= v.start + v.length
        BY <1>2, <1>7, <4>2
      <4>4. QED
        BY <1>3, <4>1, <4>2, <4>3 DEF Sane, End
    <3>5. ASSUME ~short, NEW k \in 1 .. n, pos + k <= Length(i)
          PROVE  first + k \in 1 .. full.length
      <4>1. CASE got > 0
        <5>1. full.start = pos /\ full.length = got
          BY <2>3, <4>1
        <5>2. k <= got
          BY <1>2, <1>3, <1>11, <3>5, <4>1
        <5>3. QED
          BY <1>2, <1>11, <5>1, <5>2
      <4>2. CASE got = 0
        <5>1. pos >= full.start /\ pos + n <= full.start + full.length
          BY <3>3, <3>4, <3>5, <4>2
        <5>2. QED
          BY <1>2, <3>3, <5>1
      <4>3. QED
        BY <1>11, <4>1, <4>2
    <3>6. ASSUME sound
          PROVE  Gives(i, pos, n, bytes)
      <4>1. Right(full, Origin(i)) /\ ~short
        BY <1>11, <2>3, <3>6
      <4>2. ASSUME NEW k \in 1 .. n, pos + k <= Length(i)
            PROVE  bytes[k] = Origin(i) + pos + k - 1
        <5>1. full.buffer[first + k] = Origin(i) + full.start + (first + k) - 1
          BY <3>5, <4>1, <4>2 DEF Right
        <5>2. Origin(i) + full.start + (first + k) - 1 = Origin(i) + pos + k - 1
          BY <1>2, <1>3, <3>3
        <5>3. QED
          BY <5>1, <5>2
      <4>3. DOMAIN bytes = 1 .. n
        OBVIOUS
      <4>4. QED
        BY <4>2, <4>3 DEF Gives
    <3>7. must > 0 => pos + must <= Length(i)
      <4>1. CASE got > 0
        BY <1>3, <1>11, <3>1, <4>1
      <4>2. CASE got = 0
        BY <1>2, <1>3, <3>1, <3>3, <3>4, <4>2
      <4>3. QED
        BY <1>11, <4>1, <4>2
    <3> HIDE DEF bytes, sound
    <3>8. PICK after \in Nat : after = pos + n
      BY <1>2
    <3>9. PICK known, given : known = sound /\ given = bytes
      OBVIOUS
    <3>10. /\ Report(i, pos, n, must, given, TRUE, after, known)
           /\ known => Gives(i, pos, n, given)
      BY <3>2, <3>6, <3>8, <3>9
    <3>11. ~(known /\ ~Gives(i, pos, n, given))
      BY <3>10
    <3>12. ~(after # pos + n)
      BY <3>8
    <3>13. ~(must > 0 /\ pos + must > Length(i))
      BY <1>3, <3>1, <3>7
    <3>14. QED
      BY <1>5, <3>10, <3>11, <3>12, <3>13 DEF Report
  <2>6. QED
    BY <2>4, <2>5 DEF Inv
<1>17. QED
  BY <1>1, <1>14, <1>15, <1>16

LEMMA ReadValueBytewiseKeeps ==
  ASSUME Inv, NEW i \in Inputs, NEW need \in Widths, NEW n \in 1 .. need,
         ReadValueBytewise(i, need, n)
  PROVE  Inv'
<1> DEFINE w == win[i]
           rest == Missing(w, n)
           head == Take(w, Smaller(n, Available(w)))
           got == IF rest > 0 THEN RefillLength(w, End(w), Length(i)) ELSE 0
           s == Supply(i, End(w), got, DeviceAt(w, device, TRUE))
           full == Refilled(w, End(w), got, s.bytes)
           used == Smaller(got, rest)
           moved == [w EXCEPT !.position = Smaller(@ + n, w.length)]
           after == IF got > 0 THEN [full EXCEPT !.position = used] ELSE moved
           bytes == IF got > 0 THEN head \o Take(full, used) ELSE head
           sound == ~s.split /\ (i \in torn => Available(w) = 0)
<1>1. \/ Overrun
      \/ /\ ~(s.overrun \/ (got > 0 /\ Overruns(w, got)))
         /\ Update(i, after, s, got > 0)
         /\ Report(i, Pointer(w), n, n, bytes, rest <= got, Pointer(after), sound)
  BY DEF ReadValueBytewise
<1>0. rest <= w.size
  BY DEF ReadValueBytewise
<1>2. CASE Overrun
  BY <1>2, OverrunKeeps
<1>3. CASE /\ ~(s.overrun \/ (got > 0 /\ Overruns(w, got)))
           /\ Update(i, after, s, got > 0)
           /\ Report(i, Pointer(w), n, n, bytes, rest <= got, Pointer(after), sound)
  <2>1. Sane(w, Length(i)) /\ Length(i) \in Nat /\ Origin(i) \in Nat /\ w \in Window
    BY ConstantTypes DEF Inv
  <2>2. i \notin torn => Right(w, Origin(i))
    BY DEF Inv
  <2>3. i = File => device = End(w)
    BY DEF Inv
  <2>4. faults = {}
    BY DEF Inv
  <2> HIDE DEF w
  <2>5. n \in Nat /\ n > 0
    BY SizeAssumption
  <2>6. w.size \in Nat /\ w.size >= MIN_BUFFER_SIZE /\ w.size > 0
    BY <2>1, ConstantTypes, WindowFields DEF Sane
  <2>7. w.start \in Nat /\ w.length \in Nat /\ w.position \in Nat /\ Len(w.buffer) \in Nat
    BY <2>1, WindowFields
  <2>8. w.position <= w.length /\ w.length <= Len(w.buffer)
    BY <2>1 DEF Sane
  <2>9. End(w) \in Nat /\ End(w) = w.start + w.length
    BY <2>7 DEF End
  <2>10. Available(w) \in Nat /\ Available(w) = w.length - w.position
    BY <2>7, <2>8 DEF Available
  <2>11. rest \in Int /\ rest = n - Available(w) /\ rest <= n
    BY <2>5, <2>10 DEF Missing
  <2>12. Pointer(w) \in Nat /\ Pointer(w) = w.start + w.position
    BY <2>7 DEF Pointer
  <2>13. End(w) + rest = Pointer(w) + n
    <3>1. End(w) + rest = w.start + w.length + (n - (w.length - w.position))
      BY <2>9, <2>10, <2>11
    <3>2. QED
      BY <2>5, <2>7, <2>12, <3>1
  <2> HIDE DEF rest
  <2>14. /\ got \in Nat
         /\ got > 0 => rest > 0 /\ End(w) + got <= Length(i)
         /\ rest > 0 /\ got < rest => End(w) + rest > Length(i)
    <3>1. CASE rest > 0
      <4>1. got = RefillLength(w, End(w), Length(i))
        BY <3>1
      <4> HIDE DEF got
      <4>2. /\ RefillLength(w, End(w), Length(i)) \in Nat
            /\ RefillLength(w, End(w), Length(i)) > 0
                 => End(w) + RefillLength(w, End(w), Length(i)) <= Length(i)
            /\ RefillLength(w, End(w), Length(i)) = 0 <=> End(w) >= Length(i)
            /\ RefillLength(w, End(w), Length(i)) < w.size =>
                 \/ RefillLength(w, End(w), Length(i)) = 0
                 \/ End(w) + RefillLength(w, End(w), Length(i)) = Length(i)
        BY <2>1, <2>6, <2>9, RefillLengthFacts
      <4>3. got < rest => got < w.size
        BY <1>0, <2>6, <2>11, <4>1, <4>2
      <4>4. QED
        BY <2>1, <2>9, <2>11, <3>1, <4>1, <4>2, <4>3
    <3>2. CASE ~(rest > 0)
      BY <2>11, <3>2
    <3>3. QED
      BY <3>1, <3>2
  <2>15. (got > 0) \in BOOLEAN
    BY <2>14
  <2> HIDE DEF got
  <2>16. i = File => DeviceAt(w, device, TRUE) = End(w)
    BY <2>1, <2>3, DeviceAtFacts
  <2>17. Good(s, i, End(w), got)
    BY <1>3, <2>9, <2>14, <2>16, SupplyGood
  <2>18. AreBytes(s.bytes)
    BY <2>17 DEF Good
  <2>19. got > 0 /\ ~s.split => Continue(s.bytes, got, Origin(i) + End(w))
    BY <2>17 DEF Good
  <2> HIDE DEF s
  <2>20. Smaller(n, Available(w)) = (IF rest > 0 THEN Available(w) ELSE n)
    BY <2>5, <2>10, <2>11 DEF Smaller
  <2> DEFINE h == Smaller(n, Available(w))
  <2>21. h \in Nat /\ h <= Available(w) /\ w.position + h <= w.length
    BY <2>5, <2>7, <2>10, <2>11, <2>20
  <2> HIDE DEF h
  <2>22. /\ DOMAIN head = 1 .. h
         /\ \A k \in 1 .. h : head[k] = w.buffer[w.position + k]
    <3>1. w.position + h <= Len(w.buffer)
      BY <2>7, <2>8, <2>21
    <3>2. QED
      BY <2>1, <2>21, <3>1, TakeFacts DEF h
  <2>23. ASSUME h > 0 => Right(w, Origin(i))
         PROVE  \A k \in 1 .. h : head[k] = Origin(i) + Pointer(w) + k - 1
    <3>1. \A k \in 1 .. h : w.position + k \in 1 .. w.length /\ h > 0
      BY <2>7, <2>21
    <3>2. \A k \in 1 .. h : w.buffer[w.position + k] = Origin(i) + w.start + (w.position + k) - 1
      BY <2>23, <3>1 DEF Right
    <3>3. \A k \in 1 .. h : Origin(i) + w.start + (w.position + k) - 1
                              = Origin(i) + Pointer(w) + k - 1
      <4>1. Origin(i) \in Nat /\ w.start \in Nat /\ w.position \in Nat
        BY <2>1, <2>7
      <4>2. Pointer(w) = w.start + w.position
        BY <2>12
      <4>3. QED
        BY <2>21, <4>1, <4>2
    <3>4. QED
      BY <2>22, <3>2, <3>3
  <2>24. sound => (h > 0 => Right(w, Origin(i)))
    BY <2>2, <2>10, <2>21
  <2> HIDE DEF head, sound
  <2>25. CASE got = 0
    <3>1. after = moved /\ bytes = head
      BY <2>25
    <3> DEFINE p == Smaller(w.position + n, w.length)
    <3>2. moved = [w EXCEPT !.position = p]
      BY <2>1 DEF Window
    <3>3. p \in Nat /\ p <= w.length /\ (rest <= 0 => p = w.position + n)
      BY <2>5, <2>7, <2>10, <2>11 DEF Smaller
    <3> HIDE DEF after, moved, p, bytes
    <3>4. /\ after \in Window /\ after.size = w.size /\ after.start = w.start
          /\ after.length = w.length /\ after.position = p /\ after.buffer = w.buffer
      BY <2>1, <3>1, <3>2, <3>3, PositionFacts
    <3>5. End(after) = End(w)
      BY <3>4 DEF End
    <3>6. Sane(after, Length(i))
      BY <2>1, <3>3, <3>4, <3>5 DEF Sane
    <3>7. i \notin torn => Right(after, Origin(i))
      BY <2>2, <3>4 DEF Right
    <3>8. i = File => s.device = End(after)
      BY <2>3, <2>17, <2>25, <3>5 DEF Good
    <3>9. ~(got > 0)
      BY <2>25
    <3>10. /\ win' \in [Inputs -> Window]
           /\ \A j \in Inputs : Sane(win'[j], Length(j))
           /\ \A j \in Inputs \ torn' : Right(win'[j], Origin(j))
           /\ device' = End(win'[File])
           /\ wild' \in BOOLEAN
           /\ torn' \subseteq Slices
      BY <1>3, <2>9, <2>14, <2>15, <2>17, <3>6, <3>7, <3>8, <3>9, UpdateKeeps
    <3>11. (rest <= got) => h = n /\ rest <= 0
      BY <2>5, <2>11, <2>20, <2>25 DEF h
    <3>12. rest <= got => Pointer(after) = Pointer(w) + n
      BY <2>5, <2>7, <2>12, <3>3, <3>4, <3>11 DEF Pointer
    <3>13. rest <= got => Pointer(w) + n <= Length(i)
      <4> SUFFICES ASSUME rest <= 0
                   PROVE  Pointer(w) + n <= Length(i)
        BY <3>11
      <4>1. w.length > 0
        BY <2>5, <2>7, <2>10, <2>11
      <4>2. End(w) <= Length(i)
        BY <2>1, <4>1 DEF Sane
      <4>3. QED
        BY <2>1, <2>9, <2>11, <2>13, <4>2
    <3>14. ~(rest <= got) => Pointer(w) + n > Length(i)
      BY <2>11, <2>13, <2>14, <2>25
    <3>15. rest <= got /\ sound => Continue(bytes, n, Origin(i) + Pointer(w))
      BY <2>22, <2>23, <2>24, <3>1, <3>11 DEF Continue
    <3>16. Report(i, Pointer(w), n, n, bytes, rest <= got, Pointer(after), sound)
      BY <1>3
    <3>17. faults' = {}
      BY <2>4, <2>5, <2>12, <3>12, <3>13, <3>14, <3>15, <3>16, StreamKeeps
    <3>18. QED
      BY <3>10, <3>17 DEF Inv
  <2>26. CASE got > 0
    <3>1. after = [full EXCEPT !.position = used] /\ bytes = head \o Take(full, used)
      BY <2>26
    <3>2. used \in Nat /\ used <= got /\ used <= rest /\ (rest <= got => used = rest)
      BY <2>11, <2>14, <2>26 DEF Smaller
    <3>3. full = Refilled(w, End(w), got, s.bytes)
      OBVIOUS
    <3> HIDE DEF after, used, bytes, full
    <3>4. /\ full \in Window /\ full.size = w.size /\ full.start = End(w)
          /\ full.length = got /\ full.position = 0
          /\ Len(full.buffer) = Len(Array(w))
          /\ Filled(full.buffer, s.bytes)
      <4>1. PICK b, e : b = s.bytes /\ e = End(w)
        OBVIOUS
      <4>2. AreBytes(b) /\ full = Refilled(w, e, got, b)
        BY <2>18, <3>3, <4>1
      <4>3. w \in Window /\ e \in Nat /\ got \in Nat
        BY <2>1, <2>9, <2>14, <4>1
      <4>4. /\ full \in Window /\ full.size = w.size /\ full.start = e
            /\ full.length = got /\ full.position = 0
            /\ Len(full.buffer) = Len(Array(w))
        <5>1. full = [size |-> w.size, start |-> e, length |-> got, position |-> 0,
                     buffer |-> Store(Array(w), b)]
          BY <4>2, <4>3, RefilledIs
        <5>2. full \in Window
          BY <4>2, <4>3, RefilledType
        <5>3. Len(full.buffer) = Len(Array(w))
          BY <4>2, <4>3, RefilledLength
        <5>4. QED
          BY <5>1, <5>2, <5>3
      <4>5. Filled(full.buffer, b)
        BY <4>2, <4>3, RefilledBytes
      <4>6. QED
        BY <4>1, <4>4, <4>5
    <3>5. Len(Array(w)) \in Nat
      BY <2>1, ArrayFacts
    <3>6. got <= Len(Array(w))
      BY <1>3, <2>14, <2>26, <3>5 DEF Overruns
    <3>7. full \in Window
      BY <3>4
    <3>8. /\ after \in Window /\ after.size = full.size /\ after.start = full.start
          /\ after.length = full.length /\ after.position = used /\ after.buffer = full.buffer
      BY <3>1, <3>2, <3>7, PositionFacts
    <3>9. /\ after.start = End(w) /\ after.length = got /\ after.size = w.size
          /\ Len(after.buffer) = Len(Array(w))
      BY <3>4, <3>8
    <3>10. End(after) = End(w) + got
      BY <3>9 DEF End
    <3>11. Sane(after, Length(i))
      BY <2>6, <2>14, <2>26, <3>2, <3>5, <3>6, <3>8, <3>9, <3>10 DEF Sane
    <3>12. ASSUME ~s.split
           PROVE  \A k \in 1 .. got : full.buffer[k] = Origin(i) + End(w) + k - 1
      <4>1. /\ Filled(full.buffer, s.bytes) /\ Len(full.buffer) \in Nat
            /\ got <= Len(full.buffer) /\ got \in Nat
        BY <2>14, <3>4, <3>5, <3>6
      <4>2. Continue(s.bytes, got, Origin(i) + End(w))
        BY <2>19, <2>26, <3>12
      <4>3. QED
        BY <4>1, <4>2, FilledFacts
    <3>13. ~s.split => Right(after, Origin(i))
      BY <3>8, <3>9, <3>12 DEF Right
    <3>14. i = File => s.device = End(after)
      BY <2>17, <2>26, <3>10 DEF Good
    <3>15. /\ win' \in [Inputs -> Window]
           /\ \A j \in Inputs : Sane(win'[j], Length(j))
           /\ \A j \in Inputs \ torn' : Right(win'[j], Origin(j))
           /\ device' = End(win'[File])
           /\ wild' \in BOOLEAN
           /\ torn' \subseteq Slices
      BY <1>3, <2>9, <2>14, <2>15, <2>17, <2>26, <3>11, <3>13, <3>14, UpdateKeeps
    <3>16. rest <= got => Pointer(after) = Pointer(w) + n
      BY <2>13, <3>2, <3>8, <3>9 DEF Pointer
    <3>17. rest <= got => Pointer(w) + n <= Length(i)
      BY <2>1, <2>9, <2>11, <2>13, <2>14, <2>26
    <3>18. ~(rest <= got) => Pointer(w) + n > Length(i)
      BY <2>11, <2>13, <2>14, <2>26
    <3>19. ASSUME rest <= got, sound
           PROVE  Continue(bytes, n, Origin(i) + Pointer(w))
      <4>1. ~s.split /\ (h > 0 => Right(w, Origin(i)))
        BY <2>24, <3>19 DEF sound
      <4>2. rest > 0 /\ h = Available(w) /\ h + rest = n /\ used = rest
        BY <2>10, <2>11, <2>14, <2>20, <2>26, <3>2, <3>19 DEF h
      <4> DEFINE tail == Take(full, used)
      <4>3. /\ DOMAIN tail = 1 .. used
            /\ \A k \in 1 .. used : tail[k] = full.buffer[k]
        <5>1. full.position = 0 /\ full.position + used <= Len(full.buffer)
          BY <2>14, <3>2, <3>4, <3>5, <3>6
        <5>2. /\ DOMAIN tail = 1 .. used
              /\ \A k \in 1 .. used : tail[k] = full.buffer[full.position + k]
          BY <3>2, <3>7, <5>1, TakeFacts
        <5>3. QED
          BY <3>2, <5>1, <5>2
      <4>4. head \in Seq(Byte) /\ Len(head) = h
        <5>1. head \in [1 .. h -> Byte]
          <6>1. head = [k \in 1 .. h |-> w.buffer[w.position + k]]
            BY DEF head, Take, h
          <6>2. \A k \in 1 .. h : w.position + k \in 1 .. Len(w.buffer)
            BY <2>7, <2>8, <2>21
          <6>3. QED
            BY <2>1, <6>1, <6>2, WindowFields
        <5>2. QED
          BY <2>21, <5>1, IsSequence
      <4>5. tail \in Seq(Byte) /\ Len(tail) = used
        <5>1. tail \in [1 .. used -> Byte]
          <6>1. tail = [k \in 1 .. used |-> full.buffer[full.position + k]]
            BY DEF Take
          <6>2. \A k \in 1 .. used : full.position + k \in 1 .. Len(full.buffer)
            BY <2>14, <3>2, <3>4, <3>5, <3>6
          <6>3. QED
            BY <3>7, <6>1, <6>2, WindowFields
        <5>2. QED
          BY <3>2, <5>1, IsSequence
      <4> HIDE DEF tail
      <4>6. bytes = head \o tail
        BY <3>1 DEF tail
      <4>7. /\ bytes \in Seq(Byte) /\ Len(bytes) = h + used
            /\ \A k \in 1 .. h + used : bytes[k] = IF k <= h THEN head[k] ELSE tail[k - h]
        BY <4>4, <4>5, <4>6, ConcatProperties
      <4>8. DOMAIN bytes = 1 .. n
        BY <4>2, <4>7
      <4> SUFFICES ASSUME NEW k \in 1 .. n
                   PROVE  bytes[k] = Origin(i) + Pointer(w) + k - 1
        BY <4>8 DEF Continue
      <4>9. CASE k <= h
        <5>1. k \in 1 .. h /\ bytes[k] = head[k]
          BY <2>21, <4>2, <4>7, <4>9
        <5>2. QED
          BY <2>23, <4>1, <5>1
      <4>10. CASE ~(k <= h)
        <5>1. k - h \in 1 .. used /\ k - h \in 1 .. got /\ bytes[k] = tail[k - h]
          BY <2>14, <2>21, <3>2, <4>2, <4>7, <4>10
        <5>2. bytes[k] = Origin(i) + End(w) + (k - h) - 1
          BY <3>12, <4>1, <4>3, <5>1
        <5>3. End(w) - h = Pointer(w)
          BY <2>7, <2>9, <2>10, <2>12, <4>2
        <5>4. QED
          BY <2>1, <2>9, <2>12, <2>21, <5>2, <5>3
      <4>11. QED
        BY <4>9, <4>10
    <3>20. Report(i, Pointer(w), n, n, bytes, rest <= got, Pointer(after), sound)
      BY <1>3
    <3>21. faults' = {}
      BY <2>4, <2>5, <2>12, <3>16, <3>17, <3>18, <3>19, <3>20, StreamKeeps
    <3>22. QED
      BY <3>15, <3>21 DEF Inv
  <2>27. QED
    BY <2>14, <2>25, <2>26
<1>4. QED
  BY <1>1, <1>2, <1>3

--------------------------------------------------------------------------------
(* The invariant. *)

LEMMA Initially == Init => Inv
<1> SUFFICES ASSUME Init PROVE Inv
  OBVIOUS
<1>1. /\ win = [i \in Inputs |-> Fresh] /\ device = 0 /\ wild = FALSE
      /\ torn = {} /\ faults = {}
  BY DEF Init
<1>2. \A i \in Inputs : Sane(Fresh, Length(i)) /\ Right(Fresh, Origin(i))
  BY ConstantTypes, FreshFacts
<1>3. Fresh \in Window /\ End(Fresh) = 0
  BY FreshFacts
<1>4. File \in Inputs
  BY DEF Inputs
<1> HIDE DEF Fresh
<1>5. QED
  BY <1>1, <1>2, <1>3, <1>4 DEF Inv

LEMMA StepKeeps == Inv /\ [Next]_vars => Inv'
<1> SUFFICES ASSUME Inv, [Next]_vars PROVE Inv'
  OBVIOUS
<1>1. ASSUME NEW i \in Inputs, NEW n \in 0 .. MaxRead, ReadBytes(i, n)
      PROVE  Inv'
  BY <1>1, SizeAssumption, ReadBytesKeeps
<1>2. ASSUME NEW i \in Inputs, NEW need \in Widths, NEW n \in 1 .. need,
             ReadValueHere(i, need, n)
      PROVE  Inv'
  BY <1>2, ReadValueHereKeeps
<1>3. ASSUME NEW i \in Inputs, NEW need \in Widths, NEW n \in 1 .. need,
             ReadValueBytewise(i, need, n)
      PROVE  Inv'
  BY <1>3, ReadValueBytewiseKeeps
<1>4. ASSUME NEW i \in Inputs, NEW n \in Widths, NEW pos \in 0 .. Length(i), ReadAt(i, pos, n)
      PROVE  Inv'
  BY <1>4, ReadAtKeeps
<1>5. ASSUME NEW i \in Inputs, NEW pos \in 0 .. Length(i) + 1, Seek(i, pos)
      PROVE  Inv'
  BY <1>5, SeekKeeps
<1>6. ASSUME NEW i \in Inputs, NEW size \in Sizes, SetBufferSize(i, size)
      PROVE  Inv'
  BY <1>6, SetBufferSizeKeeps
<1>7. ASSUME NEW s \in Slices, Slice(s)
      PROVE  Inv'
  BY <1>7, SliceKeeps
<1>8. CASE UNCHANGED vars
  BY <1>8 DEF vars, Inv, Sane, Right, End
<1>9. QED
  BY <1>1, <1>2, <1>3, <1>4, <1>5, <1>6, <1>7, <1>8 DEF Next

LEMMA Invariant == Spec => []Inv
BY Initially, StepKeeps, PTL DEF Spec

(* Every window keeps its fields in their types and ranges, however the inputs
   are used. *)
THEOREM TypeCorrect == Spec => []TypeOK
<1>1. Inv => TypeOK
  BY FileFacts DEF Inv, TypeOK, Sane
<1>2. QED
  BY <1>1, Invariant, PTL

(* A window holds the bytes of its file, in a file of any length with any number
   of slices and buffers of any size. *)
THEOREM WindowsHoldTheFile == Spec => []WindowIsFile
<1>1. Inv => WindowIsFile
  BY DEF Inv, WindowIsFile, Right
<1>2. QED
  BY <1>1, Invariant, PTL

(* The device is where the window of the file ends, with any number of slices
   that move it. *)
THEOREM DeviceStays == Spec => []DeviceFollows
<1>1. Inv => DeviceFollows
  BY DEF Inv, DeviceFollows
<1>2. QED
  BY <1>1, Invariant, PTL

(* Reads of any length, but those that are split or for which the window is
   TooShort, give the bytes of the input at their position. *)
THEOREM RightBytes == Spec => []ReadsAreRight
<1>1. Inv => ReadsAreRight
  BY DEF Inv, ReadsAreRight
<1>2. QED
  BY <1>1, Invariant, PTL

(* Reads from the position throw EOFException exactly where the input ends,
   those at a position exactly where nothing of it is left, but TooShort ones. *)
THEOREM RightEnd == Spec => []EndIsExact
<1>1. Inv => EndIsExact
  BY DEF Inv, EndIsExact
<1>2. QED
  BY <1>1, Invariant, PTL

(* Reads of any length leave the position behind what they gave. *)
THEOREM RightPosition == Spec => []ReadsMoveOn
<1>1. Inv => ReadsMoveOn
  BY DEF Inv, ReadsMoveOn
<1>2. QED
  BY <1>1, Invariant, PTL

--------------------------------------------------------------------------------
(* Accesses outside an array. *)

Outgrown(w) == w.buffer # <<>> /\ w.size > Len(w.buffer)

(* No more than the size that was set does not fit into an array: it was set
   when the array was there. *)
LEMMA OverrunsOutgrown ==
  ASSUME NEW w \in Window, NEW n \in Nat, n <= w.size, Overruns(w, n)
  PROVE  Outgrown(w)
<1>1. n > Len(Array(w)) /\ Len(Array(w)) \in Nat /\ w.size \in Nat
  BY ArrayFacts, WindowFields DEF Overruns
<1>2. w.buffer # <<>>
  BY <1>1, ArrayFacts
<1>3. Array(w) = w.buffer
  BY <1>2, ArrayFacts
<1>4. QED
  BY <1>1, <1>2, <1>3 DEF Outgrown

LEMMA NeedsFits ==
  ASSUME NEW w, NEW length \in Nat, Sane(w, length), NEW n \in Nat,
         Needs(w, length, n) > 0, ~Direct(w, n)
  PROVE  Needs(w, length, n) <= w.size /\ Needs(w, length, n) \in Nat
<1>1. w \in Window /\ w.size > 0 /\ End(w) \in Nat
  <2>1. w \in Window /\ w.size >= MIN_BUFFER_SIZE
    BY DEF Sane
  <2>2. w.size \in Nat /\ w.start \in Nat /\ w.length \in Nat
    BY <2>1, WindowFields
  <2>3. QED
    BY <2>1, <2>2, ConstantTypes DEF End
<1>2. Needs(w, length, n) = RefillLength(w, End(w), length)
  <2>1. Missing(w, n) \in Int /\ (Missing(w, n) <= 0 => Needs(w, length, n) = 0)
    BY NeedsFacts
  <2>2. Missing(w, n) > 0
    BY <2>1
  <2>3. QED
    BY <2>2, NeedsFacts
<1>3. QED
  BY <1>1, <1>2, RefillLengthFacts

LEMMA SupplyOverrun ==
  ASSUME Inv, NEW i \in Inputs, NEW start \in Nat, NEW n \in Nat, NEW at,
         Supply(i, start, n, at).overrun
  PROVE  Outgrown(win[File])
<1>1. CASE n = 0
  BY <1>1 DEF Supply, Nothing
<1>2. CASE n # 0 /\ i = File
  BY <1>2 DEF Supply, FromDevice, Nothing
<1>3. CASE n # 0 /\ i # File
  <2> DEFINE pos == Offset[i] + start
             w == Sought(win[File], pos)
  <2>1. FromFile(pos, n).overrun
    BY <1>3 DEF Supply
  <2>2. ~Direct(w, n) /\ Overruns(w, Needs(w, FileLength, n))
    BY <2>1 DEF FromFile
  <2>3. pos \in Nat
    BY <1>3, FileAssumption DEF Inputs
  <2> HIDE DEF pos
  <2>4. Sane(w, FileLength) /\ w.buffer = win[File].buffer /\ w.size = win[File].size
    BY <2>3, FileFacts, SoughtFacts
  <2> HIDE DEF w
  <2>5. w \in Window
    BY <2>4 DEF Sane
  <2>6. Needs(w, FileLength, n) \in Nat
    BY <2>4, FileFacts, NeedsFacts
  <2>7. Needs(w, FileLength, n) > 0
    BY <2>2, <2>5, <2>6, ArrayFacts DEF Overruns
  <2>8. Needs(w, FileLength, n) <= w.size
    BY <2>2, <2>4, <2>7, FileFacts, NeedsFits
  <2>9. Outgrown(w)
    BY <2>2, <2>5, <2>6, <2>8, OverrunsOutgrown
  <2>10. QED
    BY <2>4, <2>9 DEF Outgrown
<1>4. QED
  BY <1>1, <1>2, <1>3

(* A read that updates the windows stays inside its arrays. *)
LEMMA UpdateInside ==
  ASSUME Inv, ~wild, NEW i, NEW w, NEW s, NEW refill, Update(i, w, s, refill)
  PROVE  wild' = wild
<1>1. wild = FALSE
  BY DEF Inv
<1>2. wild' = FALSE
  BY DEF Update
<1>3. QED
  BY <1>1, <1>2

LEMMA ReadBytesOverrun ==
  ASSUME Inv, NEW i \in Inputs, NEW n \in Nat, ReadBytes(i, n), wild' # wild
  PROVE  \E j \in Inputs : Outgrown(win[j])
<1> DEFINE w == win[i]
           got == Needs(w, Length(i), n)
           refill == got > 0 /\ ~Direct(w, n)
           s == Supply(i, End(w), got, DeviceAt(w, device, refill))
           r == ReadBytesOf(w, Length(i), n, s.bytes)
<1>1. s.overrun \/ (refill /\ Overruns(w, got))
  <2>1. ~wild /\ (s.overrun \/ (refill /\ Overruns(w, got)) \/ Update(i, r.win, s, refill))
    BY DEF ReadBytes
  <2>2. QED
    BY <2>1, UpdateInside
<1>2. Sane(w, Length(i)) /\ Length(i) \in Nat /\ w \in Window
  BY ConstantTypes DEF Inv
<1>3. got \in Nat /\ End(w) \in Nat
  BY <1>2, NeedsFacts
<1>4. CASE s.overrun
  BY <1>3, <1>4, FileFacts, SupplyOverrun
<1>5. CASE refill /\ Overruns(w, got)
  <2>1. got <= w.size
    BY <1>2, <1>5, NeedsFits
  <2>2. QED
    BY <1>2, <1>3, <1>5, <2>1, OverrunsOutgrown
<1>6. QED
  BY <1>1, <1>4, <1>5

LEMMA BytewiseOverrun ==
  ASSUME Inv, NEW i \in Inputs, NEW need \in Widths, NEW n \in 1 .. need,
         ReadValueBytewise(i, need, n), wild' # wild
  PROVE  \E j \in Inputs : Outgrown(win[j])
<1> DEFINE w == win[i]
           got == IF Missing(w, n) > 0 THEN RefillLength(w, End(w), Length(i)) ELSE 0
           s == Supply(i, End(w), got, DeviceAt(w, device, TRUE))
           rest == Missing(w, n)
           full == Refilled(w, End(w), got, s.bytes)
           after == IF got > 0 THEN [full EXCEPT !.position = Smaller(got, rest)]
                    ELSE [w EXCEPT !.position = Smaller(@ + n, w.length)]
<1>1. s.overrun \/ (got > 0 /\ Overruns(w, got))
  <2>1. ~wild /\ (s.overrun \/ (got > 0 /\ Overruns(w, got)) \/ Update(i, after, s, got > 0))
    BY DEF ReadValueBytewise
  <2>2. QED
    BY <2>1, UpdateInside
<1>2. Sane(w, Length(i)) /\ Length(i) \in Nat /\ w \in Window
  BY ConstantTypes DEF Inv
<1>3. End(w) \in Nat /\ w.size > 0 /\ w.size \in Nat
  <2>1. w.size \in Nat /\ w.start \in Nat /\ w.length \in Nat
    BY <1>2, WindowFields
  <2>2. w.size >= MIN_BUFFER_SIZE
    BY <1>2 DEF Sane
  <2>3. QED
    BY <2>1, <2>2, ConstantTypes DEF End
<1>4. got \in Nat /\ got <= w.size
  <2>1. /\ RefillLength(w, End(w), Length(i)) \in Nat
        /\ RefillLength(w, End(w), Length(i)) <= w.size
    BY <1>2, <1>3, RefillLengthFacts
  <2>2. QED
    BY <1>3, <2>1
<1>5. CASE s.overrun
  BY <1>3, <1>4, <1>5, FileFacts, SupplyOverrun
<1>6. CASE got > 0 /\ Overruns(w, got)
  BY <1>2, <1>4, <1>6, OverrunsOutgrown
<1>7. QED
  BY <1>1, <1>5, <1>6

LEMMA ReadAtOverrun ==
  ASSUME Inv, NEW i \in Inputs, NEW n \in Widths, NEW pos \in Nat, ReadAt(i, pos, n),
         wild' # wild
  PROVE  (\E j \in Inputs : Outgrown(win[j])) \/ TooShort(win[i], pos, n)
<1> DEFINE v == win[i]
           miss == Misses(v, pos, n)
           w == IF miss THEN Moved(v, pos) ELSE v
           got == IF miss THEN RefillLength(w, pos, Length(i)) ELSE 0
           s == Supply(i, pos, got, pos)
           full == IF got > 0 THEN Refilled(w, pos, got, s.bytes) ELSE w
           first == pos - full.start
           none == [Nothing EXCEPT !.device = IF i = File THEN pos ELSE @]
<1>1. /\ ~(miss /\ got = 0)
      /\ s.overrun \/ (got > 0 /\ Overruns(w, got)) \/ first + n > Len(full.buffer)
  <2>1. /\ ~wild
        /\ \/ miss /\ got = 0 /\ Update(i, w, none, FALSE)
           \/ /\ ~(miss /\ got = 0)
              /\ \/ s.overrun \/ (got > 0 /\ Overruns(w, got)) \/ first + n > Len(full.buffer)
                 \/ Update(i, full, s, got > 0)
    BY DEF ReadAt
  <2>2. QED
    BY <2>1, UpdateInside
<1>2. Sane(v, Length(i)) /\ Length(i) \in Nat /\ v \in Window
  BY ConstantTypes DEF Inv
<1>3. v.start \in Nat /\ v.length \in Nat /\ Len(v.buffer) \in Nat /\ v.size \in Nat
  BY <1>2, WindowFields
<1>4. n \in Nat /\ n > 0 /\ n <= MIN_BUFFER_SIZE
  <2>1. n <= MIN_BUFFER_SIZE
    BY DEF ReadAt
  <2>2. QED
    BY <2>1, SizeAssumption
<1>5. v.size > 0 /\ n <= v.size /\ v.length <= Len(v.buffer)
  BY <1>2, <1>3, <1>4, ConstantTypes DEF Sane
<1> HIDE DEF v
<1>6. CASE miss
  <2>1. w \in Window /\ w.size = v.size /\ w.buffer = v.buffer
    BY <1>2, <1>6, MovedFacts
  <2>2. got = RefillLength(w, pos, Length(i))
    BY <1>6
  <2> HIDE DEF miss, w
  <2>3. /\ RefillLength(w, pos, Length(i)) \in Nat
        /\ RefillLength(w, pos, Length(i)) <= w.size
    BY <1>2, <1>3, <1>5, <2>1, RefillLengthFacts
  <2>4. got \in Nat /\ got <= w.size
    BY <2>2, <2>3
  <2> HIDE DEF got
  <2>5. got > 0
    BY <1>1, <1>6, <2>4
  <2>6. CASE s.overrun
    BY <2>4, <2>6, FileFacts, SupplyOverrun
  <2>7. CASE Overruns(w, got)
    <3>1. Outgrown(w)
      BY <2>1, <2>4, <2>7, OverrunsOutgrown
    <3>2. Outgrown(v)
      BY <2>1, <3>1 DEF Outgrown
    <3>3. QED
      BY <3>2 DEF v
  <2>8. CASE ~s.overrun /\ ~Overruns(w, got) /\ first + n > Len(full.buffer)
    <3>1. Good(s, i, pos, got)
      <4>1. pos + got <= Length(i)
        BY <1>2, <1>3, <1>5, <2>1, <2>2, <2>5, RefillLengthFacts
      <4>2. QED
        BY <2>4, <2>8, <4>1, SupplyGood
    <3>2. AreBytes(s.bytes)
      BY <3>1 DEF Good
    <3> HIDE DEF s
    <3>3. PICK b : b = s.bytes
      OBVIOUS
    <3>4. AreBytes(b)
      BY <3>2, <3>3
    <3>5. full = Refilled(w, pos, got, b)
      BY <2>5, <3>3
    <3> HIDE DEF full
    <3>6. full.start = pos /\ Len(full.buffer) = Len(Array(w))
      <4>1. w \in Window /\ got \in Nat
        BY <2>1, <2>4
      <4>2. full = [size |-> w.size, start |-> pos, length |-> got, position |-> 0,
                    buffer |-> Store(Array(w), b)]
        BY <3>5, <4>1, RefilledIs
      <4>3. Len(full.buffer) = Len(Array(w))
        BY <3>4, <3>5, <4>1, RefilledLength
      <4>4. QED
        BY <4>2, <4>3
    <3>7. first = 0 /\ n > Len(Array(w)) /\ Len(Array(w)) \in Nat
      BY <1>4, <2>1, <2>8, <3>5, <3>6, ArrayFacts
    <3>8. Overruns(w, n)
      BY <3>7 DEF Overruns
    <3>9. Outgrown(w)
      BY <1>4, <1>5, <2>1, <3>8, OverrunsOutgrown
    <3>10. Outgrown(v)
      BY <2>1, <3>9 DEF Outgrown
    <3>11. QED
      BY <3>10 DEF v
  <2>9. QED
    BY <1>1, <2>6, <2>7, <2>8
<1>7. CASE ~miss
  <2>1. w = v /\ got = 0
    BY <1>7
  <2>2. full = v
    BY <2>1
  <2>3. ~s.overrun
    BY <2>1 DEF Supply, Nothing
  <2>4. pos - v.start + n > Len(v.buffer)
    BY <1>1, <2>1, <2>2, <2>3
  <2>5. pos - v.start < Wrap(v.length - (n - 1))
    BY <1>3, <1>4, <1>7, SizeAssumption DEF Misses, Wrap
  <2>6. v.length < n - 1
    <3> SUFFICES ASSUME ~(v.length < n - 1)
                 PROVE  FALSE
      OBVIOUS
    <3>1. Wrap(v.length - (n - 1)) = v.length - (n - 1)
      BY <1>3, <1>4 DEF Wrap
    <3>2. QED
      BY <1>3, <1>4, <1>5, <2>4, <2>5, <3>1
  <2>7. QED
    BY <1>7, <2>6 DEF v, TooShort
<1>8. QED
  BY <1>6, <1>7

(* With buffers of any size, an array is left only by a window that has outgrown
   it, or by a value read at a position for which the window is too short. *)
THEOREM OverrunsKnown == Spec => OverrunIsKnown
<1> DEFINE Known ==
      \/ wild' = wild
      \/ \E i \in Inputs :
           \/ win[i].buffer # <<>> /\ win[i].size > Len(win[i].buffer)
           \/ \E n \in Widths, pos \in 0 .. Length(i) :
                ReadAt(i, pos, n) /\ TooShort(win[i], pos, n)
<1>1. ASSUME Inv, [Next]_vars
      PROVE  Known
  <2> SUFFICES ASSUME wild' # wild
               PROVE  Known
    OBVIOUS
  <2>1. ASSUME \E j \in Inputs : Outgrown(win[j])
        PROVE  Known
    BY <2>1 DEF Outgrown
  <2>2. ASSUME NEW i \in Inputs, NEW n \in 0 .. MaxRead, ReadBytes(i, n)
        PROVE  Known
    BY <1>1, <2>1, <2>2, SizeAssumption, ReadBytesOverrun
  <2>3. ASSUME NEW i \in Inputs, NEW need \in Widths, NEW n \in 1 .. need,
               ReadValueHere(i, need, n)
        PROVE  Known
    BY <1>1, <2>3, UpdateInside DEF ReadValueHere
  <2>4. ASSUME NEW i \in Inputs, NEW need \in Widths, NEW n \in 1 .. need,
               ReadValueBytewise(i, need, n)
        PROVE  Known
    BY <1>1, <2>1, <2>4, BytewiseOverrun
  <2>5. ASSUME NEW i \in Inputs, NEW n \in Widths, NEW pos \in 0 .. Length(i),
               ReadAt(i, pos, n)
        PROVE  Known
    <3>1. (\E j \in Inputs : Outgrown(win[j])) \/ TooShort(win[i], pos, n)
      BY <1>1, <2>5, ReadAtOverrun
    <3>2. QED
      BY <2>1, <2>5, <3>1
  <2>6. ASSUME NEW i \in Inputs, NEW pos \in 0 .. Length(i) + 1, Seek(i, pos)
        PROVE  Known
    BY <2>6 DEF Seek
  <2>7. ASSUME NEW i \in Inputs, NEW size \in Sizes, SetBufferSize(i, size)
        PROVE  Known
    BY <2>7 DEF SetBufferSize
  <2>8. ASSUME NEW s \in Slices, Slice(s)
        PROVE  Known
    BY <2>8 DEF Slice
  <2>9. CASE UNCHANGED vars
    BY <2>9 DEF vars
  <2> HIDE DEF Known
  <2>10. QED
    BY <1>1, <2>2, <2>3, <2>4, <2>5, <2>6, <2>7, <2>8, <2>9 DEF Next
<1>2. QED
  BY <1>1, Invariant, PTL DEF Spec, OverrunIsKnown

================================================================================
