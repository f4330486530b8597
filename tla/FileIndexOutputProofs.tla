------------------------- MODULE FileIndexOutputProofs -------------------------
(***************************************************************************)
(* Theorems about FileIndexOutput for every buffer size, every sequence of *)
(* chunks and every stream length.                                         *)
(***************************************************************************)
EXTENDS FileIndexOutput, SequenceTheorems, TLAPS

--------------------------------------------------------------------------------
(* Streams. *)

LEMMA RunProperties ==
  ASSUME NEW n \in Nat, NEW m \in Nat, n <= m
  PROVE  /\ Run(n, m) \in Seq(Nat)
         /\ Len(Run(n, m)) = m - n
         /\ \A i \in 1 .. m - n : Run(n, m)[i] = n + i
<1>1. m - n \in Nat
  OBVIOUS
<1>2. Run(n, m) \in [1 .. m - n -> Nat]
  BY DEF Run
<1>3. Run(n, m) \in Seq(Nat)
  BY <1>1, <1>2, SeqDef
<1>4. QED
  BY <1>1, <1>2, <1>3, LenProperties DEF Run

LEMMA StreamProperties ==
  ASSUME NEW n \in Nat
  PROVE  /\ Stream(n) \in Seq(Nat)
         /\ Len(Stream(n)) = n
         /\ \A i \in 1 .. n : Stream(n)[i] = i
<1>1. 0 \in Nat /\ 0 <= n /\ n - 0 = n
  OBVIOUS
<1>2. \A i \in 1 .. n : 0 + i = i
  OBVIOUS
<1>3. /\ Run(0, n) \in Seq(Nat) /\ Len(Run(0, n)) = n - 0
      /\ \A i \in 1 .. n - 0 : Run(0, n)[i] = 0 + i
  BY <1>1, RunProperties
<1>4. QED
  BY <1>1, <1>2, <1>3 DEF Stream

(* The bytes after a stream continue it. *)
LEMMA StreamRun ==
  ASSUME NEW n \in Nat, NEW m \in Nat, n <= m
  PROVE  Stream(n) \o Run(n, m) = Stream(m)
<1> DEFINE s == Stream(n) \o Run(n, m)
<1>1. /\ Stream(n) \in Seq(Nat) /\ Len(Stream(n)) = n
      /\ Run(n, m) \in Seq(Nat) /\ Len(Run(n, m)) = m - n
      /\ \A i \in 1 .. n : Stream(n)[i] = i
      /\ \A i \in 1 .. m - n : Run(n, m)[i] = n + i
  BY StreamProperties, RunProperties
<1>2. s \in Seq(Nat) /\ Len(s) = m
  <2>1. s \in Seq(Nat) /\ Len(s) = n + (m - n)
    BY <1>1, ConcatProperties
  <2>2. QED
    BY <2>1
<1>3. ASSUME NEW i \in 1 .. m PROVE s[i] = i
  <2>1. s[i] = IF i <= n THEN Stream(n)[i] ELSE Run(n, m)[i - n]
    BY <1>1, ConcatProperties
  <2>2. QED
    BY <1>1, <2>1
<1>4. Stream(m) \in Seq(Nat) /\ Len(Stream(m)) = m
      /\ \A i \in 1 .. m : Stream(m)[i] = i
  BY StreamProperties
<1>5. QED
  BY <1>2, <1>3, <1>4, SeqEqual

LEMMA StreamNext ==
  ASSUME NEW n \in Nat
  PROVE  Stream(n) \o <<n + 1>> = Stream(n + 1)
<1>1. Run(n, n + 1) = <<n + 1>>
  <2>0. n + 1 \in Nat /\ n <= n + 1 /\ (n + 1) - n = 1
    OBVIOUS
  <2>1. /\ Run(n, n + 1) \in Seq(Nat) /\ Len(Run(n, n + 1)) = 1
        /\ Run(n, n + 1)[1] = n + 1
    <3>1. /\ Run(n, n + 1) \in Seq(Nat) /\ Len(Run(n, n + 1)) = (n + 1) - n
          /\ \A i \in 1 .. (n + 1) - n : Run(n, n + 1)[i] = n + i
      BY <2>0, RunProperties
    <3>2. 1 \in 1 .. (n + 1) - n
      OBVIOUS
    <3>3. QED
      BY <2>0, <3>1, <3>2
  <2>2. <<n + 1>> \in Seq(Nat) /\ Len(<<n + 1>>) = 1 /\ <<n + 1>>[1] = n + 1
    OBVIOUS
  <2>3. QED
    BY <2>1, <2>2, SeqEqual
<1>2. n + 1 \in Nat /\ n <= n + 1
  OBVIOUS
<1>3. QED
  BY <1>1, <1>2, StreamRun

(* A sequence that something completes to a stream is a stream. *)
LEMMA StreamPrefix ==
  ASSUME NEW s \in Seq(Nat), NEW t \in Seq(Nat), NEW n \in Nat,
         s \o t = Stream(n)
  PROVE  s = Stream(Len(s)) /\ Len(s) + Len(t) = n
<1>1. Len(s) \in Nat /\ Len(t) \in Nat
  BY LenProperties
<1>2. Len(s) + Len(t) = n
  BY ConcatProperties, StreamProperties
<1>3. ASSUME NEW i \in 1 .. Len(s) PROVE s[i] = i
  <2>1. i \in 1 .. Len(s) + Len(t) /\ i \in 1 .. n /\ i <= Len(s)
    BY <1>1, <1>2
  <2>2. (s \o t)[i] = s[i]
    BY <2>1, ConcatProperties
  <2>3. Stream(n)[i] = i
    BY <2>1, StreamProperties
  <2>4. QED
    BY <2>2, <2>3
<1>4. /\ Stream(Len(s)) \in Seq(Nat) /\ Len(Stream(Len(s))) = Len(s)
      /\ \A i \in 1 .. Len(s) : Stream(Len(s))[i] = i
  BY <1>1, StreamProperties
<1>5. QED
  BY <1>2, <1>3, <1>4, SeqEqual

LEMMA StreamCut ==
  ASSUME NEW n \in Nat, NEW k \in 0 .. n
  PROVE  SubSeq(Stream(n), 1, k) = Stream(k)
<1>1. /\ Stream(n) \in Seq(Nat) /\ Len(Stream(n)) = n
      /\ \A i \in 1 .. n : Stream(n)[i] = i
      /\ Stream(k) \in Seq(Nat) /\ Len(Stream(k)) = k
      /\ \A i \in 1 .. k : Stream(k)[i] = i
  BY StreamProperties
<1>2. \A i \in 1 .. k : Stream(n)[i] \in Nat
  BY <1>1
<1>3. /\ SubSeq(Stream(n), 1, k) \in Seq(Nat)
      /\ Len(SubSeq(Stream(n), 1, k)) = k
      /\ \A i \in 1 .. k : SubSeq(Stream(n), 1, k)[i] = Stream(n)[i]
  BY <1>2, SubSeqProperties
<1>4. QED
  BY <1>1, <1>3, SeqEqual

--------------------------------------------------------------------------------
(* write(2). *)

LEMMA WriteEffect ==
  ASSUME TypeOK, NEW bytes \in Seq(Nat), Write(bytes)
  PROVE  /\ file' \in Seq(Nat)
         /\ Len(file) <= Len(file')
         /\ ignored' \in BOOLEAN
         /\ ~ignored' => /\ ~ignored /\ ~flushed_on_close
                         /\ file' = file \o bytes
<1>1. PICK k \in 0 .. Len(bytes) :
        /\ flushed_on_close => k = 0
        /\ file' = file \o SubSeq(bytes, 1, k)
        /\ ignored' = (ignored \/ k < Len(bytes) \/ flushed_on_close)
  BY DEF Write
<1>2. Len(bytes) \in Nat /\ \A i \in 1 .. k : bytes[i] \in Nat
  BY LenProperties, ElementOfSeq
<1>3. SubSeq(bytes, 1, k) \in Seq(Nat)
  BY <1>2, SubSeqProperties
<1>4. /\ file' \in Seq(Nat) /\ Len(file') = Len(file) + Len(SubSeq(bytes, 1, k))
      /\ Len(file) \in Nat /\ Len(SubSeq(bytes, 1, k)) \in Nat
  BY <1>1, <1>3, ConcatProperties, LenProperties DEF TypeOK
<1>5. ignored' \in BOOLEAN
  BY <1>1
<1>6. ASSUME ~ignored'
      PROVE  ~ignored /\ ~flushed_on_close /\ file' = file \o bytes
  <2>0. ~ignored /\ ~flushed_on_close /\ ~(k < Len(bytes))
    BY <1>1, <1>6
  <2>1. k = Len(bytes)
    BY <1>2, <2>0
  <2>2. SubSeq(bytes, 1, k) = bytes
    BY <2>1, SubSeqFull
  <2>3. QED
    BY <1>1, <2>0, <2>2
<1>7. QED
  BY <1>4, <1>5, <1>6

--------------------------------------------------------------------------------
(* The inductive invariant. *)

(* The buffer is empty whenever a long write is under way, and from Close on
   unless the caller goes on writing; what was promised is durable; only an open
   output has a GetChecksum between its write and its fsync. *)
OutInv ==
  /\ TypeOK
  /\ Len(buffer) <= BUF_SIZE
  /\ OverrunIsOneByte
  /\ chunk # <<>> => buffer = <<>>
  /\ syncing => alive /\ ~flushed_on_close /\ chunk = <<>>
  /\ alive /\ flushed_on_close /\ ~ignored => buffer = <<>> /\ chunk = <<>>
  /\ ~ignored => /\ promised <= durable
                 /\ Len(file) <= bytes_written
                 /\ file = Stream(Len(file))
  /\ InOrder

LEMMA OutInit == Init => OutInv
<1> SUFFICES ASSUME Init PROVE OutInv
  OBVIOUS
<1>1. <<>> \in Seq(Nat) /\ Len(<<>>) = 0
  BY EmptySeq
<1>2. Stream(0) = <<>>
  BY <1>1, StreamProperties, SeqEqual
<1>3. (<<>> \o <<>>) \o <<>> = <<>>
  BY <1>1, ConcatEmptySeq
<1>4. TypeOK
  <2>1. durable \in 0 .. Len(file)
    BY <1>1 DEF Init
  <2>2. QED
    BY <1>1, <2>1 DEF Init, TypeOK
<1>5. QED
  BY <1>1, <1>2, <1>3, <1>4, OutputAssumption
     DEF Init, OutInv, OverrunIsOneByte, InOrder, Unwritten

LEMMA NatSeqConcat ==
  \A f, b, c \in Seq(Nat) :
    f \o b \in Seq(Nat) /\ (f \o b) \o c = f \o (b \o c)
<1> TAKE f, b, c \in Seq(Nat)
<1>1. f \o b \in Seq(Nat)
  BY ConcatProperties
<1>2. (f \o b) \o c = f \o (b \o c)
  BY ConcatAssociative
<1>3. QED
  BY <1>1, <1>2

(* In a living process it is enough to follow the stream: the file alone is
   then a prefix of it. *)
LEMMA InOrderGivesPrefix ==
  ASSUME NEW f \in Seq(Nat), NEW b \in Seq(Nat), NEW c \in Seq(Nat),
         NEW n \in Nat, (f \o b) \o c = Stream(n)
  PROVE  f = Stream(Len(f)) /\ Len(f) <= n
<1> DEFINE t == b \o c
<1>1. t \in Seq(Nat) /\ f \o t = Stream(n)
  BY NatSeqConcat
<1> HIDE DEF t
<1>2. f = Stream(Len(f)) /\ Len(f) + Len(t) = n
  BY <1>1, StreamPrefix
<1>3. Len(f) \in Nat /\ Len(t) \in Nat
  BY <1>1, LenProperties
<1>4. QED
  BY <1>2, <1>3


--------------------------------------------------------------------------------
(* The step. *)

LEMMA NatSeqEmpty ==
  /\ <<>> \in Seq(Nat) /\ Len(<<>>) = 0
  /\ \A s \in Seq(Nat) : s \o <<>> = s
<1>1. <<>> \in Seq(Nat) /\ Len(<<>>) = 0
  BY EmptySeq
<1>2. ASSUME NEW s \in Seq(Nat) PROVE s \o <<>> = s
  BY ConcatEmptySeq
<1>3. QED
  BY <1>1, <1>2

(* Between two calls the file and the buffer are the stream. *)
LEMMA ReadyStream ==
  ASSUME OutInv, Ready
  PROVE  /\ file \o buffer \in Seq(Nat)
         /\ ~ignored => file \o buffer = Stream(bytes_written)
<1>1. /\ file \in Seq(Nat) /\ buffer \in Seq(Nat) /\ alive /\ chunk = <<>>
      /\ Unwritten = buffer
  BY DEF OutInv, TypeOK, Ready, Unwritten
<1>2. file \o buffer \in Seq(Nat)
  BY <1>1, NatSeqConcat
<1>3. (file \o buffer) \o <<>> = file \o buffer
  BY <1>2, NatSeqEmpty
<1>4. ~ignored => (file \o buffer) \o <<>> = Stream(bytes_written)
  BY <1>1 DEF OutInv, InOrder
<1>5. QED
  BY <1>2, <1>3, <1>4

(* What a step of a living process has to show. *)
LEMMA LivingStep ==
  ASSUME TypeOK', alive', ~syncing', Len(buffer') <= BUF_SIZE, touched' <= BUF_SIZE + 1,
         chunk' # <<>> => buffer' = <<>>,
         ~ignored' => /\ (file' \o buffer') \o chunk' = Stream(bytes_written')
                      /\ promised' <= durable'
                      /\ flushed_on_close' => buffer' = <<>> /\ chunk' = <<>>
  PROVE  OutInv'
<1>1. ~ignored' => Len(file') <= bytes_written' /\ file' = Stream(Len(file'))
  <2>1. file' \in Seq(Nat) /\ buffer' \in Seq(Nat) /\ chunk' \in Seq(Nat)
        /\ bytes_written' \in Nat
    BY DEF TypeOK
  <2>2. QED
    BY <2>1, InOrderGivesPrefix
<1>2. Unwritten' = buffer'
  BY DEF Unwritten
<1>3. QED
  BY <1>1, <1>2 DEF OutInv, OverrunIsOneByte, InOrder

(* Writing the buffer and what follows it in one write(2) continues the
   stream. *)
LEMMA StreamGrows ==
  ASSUME OutInv, Ready, NEW bytes \in Seq(Nat), NEW n \in Nat,
         ~ignored => Stream(bytes_written) \o bytes = Stream(n)
  PROVE  ~ignored => /\ file \o (buffer \o bytes) = Stream(n)
                     /\ (file \o buffer) \o bytes = Stream(n)
<1>1. file \in Seq(Nat) /\ buffer \in Seq(Nat)
  BY DEF OutInv, TypeOK
<1>2. (file \o buffer) \o bytes = file \o (buffer \o bytes)
  BY <1>1, NatSeqConcat
<1>3. QED
  BY <1>2, ReadyStream

(* write(2) never shortens the file, so what was durable is. *)
LEMMA DurableStays ==
  ASSUME TypeOK, file' \in Seq(Nat), Len(file) <= Len(file')
  PROVE  durable \in 0 .. Len(file')
<1>1. Len(file) \in Nat /\ Len(file') \in Nat /\ durable \in 0 .. Len(file)
  BY LenProperties DEF TypeOK
<1>2. QED
  BY <1>1

LEMMA ByteStep == OutInv /\ WriteByte => OutInv'
<1> SUFFICES ASSUME OutInv, WriteByte PROVE OutInv'
  OBVIOUS
<1> DEFINE next == <<bytes_written + 1>>
           full == Append(buffer, bytes_written + 1)
<1>1. /\ TypeOK /\ Ready /\ alive /\ ~syncing /\ chunk = <<>>
      /\ BUF_SIZE \in Nat \ {0}
      /\ Len(buffer) <= BUF_SIZE /\ touched <= BUF_SIZE + 1
      /\ ~ignored => promised <= durable
  BY OutputAssumption DEF OutInv, WriteByte, Ready, OverrunIsOneByte
<1>2. /\ bytes_written \in Nat /\ buffer \in Seq(Nat) /\ file \in Seq(Nat)
      /\ Len(buffer) \in Nat /\ touched \in Nat
      /\ bytes_written + 1 \in Nat /\ next \in Seq(Nat)
      /\ flushed_on_close \in BOOLEAN /\ ignored \in BOOLEAN
  BY <1>1, LenProperties DEF TypeOK
<1>3. full = buffer \o next /\ full \in Seq(Nat) /\ Len(full) = Len(buffer) + 1
  <2>1. full = buffer \o next
    BY <1>2, AppendIsConcat
  <2>2. full \in Seq(Nat) /\ Len(full) = Len(buffer) + 1
    BY <1>2, AppendProperties
  <2>3. QED
    BY <2>1, <2>2
<1>4. /\ bytes_written' = bytes_written + 1 /\ chunk' = chunk /\ alive' = alive
      /\ syncing' = syncing /\ flushed_on_close' = flushed_on_close /\ durable' = durable
      /\ promised' = promised
  BY DEF WriteByte
<1>5. touched' \in Nat /\ touched' <= BUF_SIZE + 1
  BY <1>1, <1>2 DEF WriteByte, Touch
<1>6. ~ignored => /\ file \o full = Stream(bytes_written')
                  /\ file \o full \in Seq(Nat)
  <2>1. Stream(bytes_written) \o next = Stream(bytes_written + 1)
    BY <1>2, StreamNext
  <2>2. file \o full \in Seq(Nat)
    BY <1>2, <1>3, NatSeqConcat
  <2> HIDE DEF next, full
  <2>3. ~ignored => file \o (buffer \o next) = Stream(bytes_written + 1)
    BY <1>1, <1>2, <2>1, StreamGrows
  <2>4. QED
    BY <1>3, <1>4, <2>2, <2>3
<1> HIDE DEF next, full
<1>7. CASE Len(full) >= BUF_SIZE /\ Write(full) /\ buffer' = <<>>
  <2>1. /\ file' \in Seq(Nat) /\ Len(file) <= Len(file') /\ ignored' \in BOOLEAN
        /\ ~ignored' => ~ignored /\ ~flushed_on_close /\ file' = file \o full
    BY <1>1, <1>3, <1>7, WriteEffect
  <2>2. TypeOK'
    BY <1>1, <1>2, <1>4, <1>5, <1>7, <2>1, DurableStays, NatSeqEmpty DEF TypeOK
  <2>3. ~ignored' => (file' \o buffer') \o chunk' = Stream(bytes_written')
    BY <1>1, <1>4, <1>6, <1>7, <2>1, NatSeqEmpty
  <2>4. QED
    BY <1>1, <1>4, <1>5, <1>7, <2>1, <2>2, <2>3, NatSeqEmpty, LivingStep
<1>8. CASE Len(full) < BUF_SIZE /\ buffer' = full /\ NoWrite
  <2>1. /\ file' = file /\ ignored' \in BOOLEAN
        /\ ~ignored' => ~ignored /\ ~flushed_on_close
    BY <1>2, <1>8 DEF NoWrite
  <2>2. TypeOK'
    BY <1>1, <1>2, <1>3, <1>4, <1>5, <1>8, <2>1 DEF TypeOK
  <2>3. ~ignored' => (file' \o buffer') \o chunk' = Stream(bytes_written')
    BY <1>1, <1>4, <1>6, <1>8, <2>1, NatSeqEmpty
  <2>4. Len(buffer') <= BUF_SIZE
    BY <1>1, <1>2, <1>3, <1>8
  <2>5. QED
    BY <1>1, <1>4, <1>5, <2>1, <2>2, <2>3, <2>4, LivingStep
<1>9. QED
  BY <1>7, <1>8 DEF WriteByte, full

LEMMA BytesStep ==
  ASSUME NEW length \in Nat
  PROVE  OutInv /\ WriteBytes(length) => OutInv'
<1> SUFFICES ASSUME OutInv, WriteBytes(length) PROVE OutInv'
  OBVIOUS
<1> DEFINE bytes == Run(bytes_written, bytes_written + length)
<1>1. /\ TypeOK /\ Ready /\ alive /\ ~syncing /\ chunk = <<>>
      /\ BUF_SIZE \in Nat \ {0}
      /\ Len(buffer) <= BUF_SIZE /\ touched <= BUF_SIZE + 1
      /\ ~ignored => promised <= durable
  BY OutputAssumption DEF OutInv, WriteBytes, Ready, OverrunIsOneByte
<1>2. /\ bytes_written \in Nat /\ buffer \in Seq(Nat) /\ file \in Seq(Nat)
      /\ Len(buffer) \in Nat /\ touched \in Nat
      /\ bytes_written + length \in Nat
      /\ flushed_on_close \in BOOLEAN /\ ignored \in BOOLEAN
  BY <1>1, LenProperties DEF TypeOK
<1>3. bytes \in Seq(Nat) /\ Len(bytes) = length
  <2>1. bytes_written <= bytes_written + length
        /\ (bytes_written + length) - bytes_written = length
    BY <1>2
  <2>2. QED
    BY <1>2, <2>1, RunProperties
<1>4. /\ bytes_written' = bytes_written + length /\ alive' = alive
      /\ syncing' = syncing /\ flushed_on_close' = flushed_on_close /\ durable' = durable
      /\ promised' = promised
  BY DEF WriteBytes
<1>5. ~ignored => /\ (file \o buffer) \o bytes = Stream(bytes_written')
                  /\ file \o (buffer \o bytes) = Stream(bytes_written')
  <2>1. bytes_written <= bytes_written + length
    BY <1>2
  <2>2. Stream(bytes_written) \o bytes = Stream(bytes_written + length)
    BY <1>2, <2>1, StreamRun
  <2> HIDE DEF bytes
  <2>3. ~ignored => /\ (file \o buffer) \o bytes = Stream(bytes_written + length)
                    /\ file \o (buffer \o bytes) = Stream(bytes_written + length)
    BY <1>1, <1>2, <1>3, <2>2, StreamGrows
  <2>4. QED
    BY <1>4, <2>3
<1>6. \/ /\ length > BUF_SIZE /\ Write(buffer) /\ buffer' = <<>> /\ chunk' = bytes
         /\ touched' = touched
      \/ /\ length <= BUF_SIZE /\ Write(buffer) /\ buffer' = bytes
         /\ Touch(<<>>, length) /\ chunk' = chunk
      \/ /\ length + Len(buffer) <= BUF_SIZE /\ NoWrite
         /\ buffer' = buffer \o bytes /\ Touch(buffer, length) /\ chunk' = chunk
  BY DEF WriteBytes
<1> HIDE DEF bytes
<1>7. CASE /\ length + Len(buffer) <= BUF_SIZE /\ NoWrite
           /\ buffer' = buffer \o bytes /\ Touch(buffer, length)
           /\ chunk' = chunk
  <2>1. /\ file' = file /\ ignored' \in BOOLEAN
        /\ ~ignored' => ~ignored /\ ~flushed_on_close
    BY <1>2, <1>7 DEF NoWrite
  <2>2. buffer' \in Seq(Nat) /\ Len(buffer') <= BUF_SIZE
    <3>1. /\ buffer \o bytes \in Seq(Nat)
          /\ Len(buffer \o bytes) = Len(buffer) + Len(bytes)
      BY <1>2, <1>3, ConcatProperties
    <3>2. QED
      BY <1>1, <1>2, <1>3, <1>7, <3>1
  <2>3. touched' \in Nat /\ touched' <= BUF_SIZE + 1
    BY <1>1, <1>2, <1>7 DEF Touch
  <2>4. TypeOK'
    BY <1>1, <1>2, <1>4, <1>7, <2>1, <2>2, <2>3 DEF TypeOK
  <2>5. file \o (buffer \o bytes) \in Seq(Nat)
    BY <1>2, <1>3, NatSeqConcat
  <2>6. ~ignored' => (file' \o buffer') \o chunk' = Stream(bytes_written')
    BY <1>1, <1>5, <1>7, <2>1, <2>5, NatSeqEmpty
  <2>7. QED
    BY <1>1, <1>4, <1>7, <2>1, <2>2, <2>3, <2>4, <2>6, LivingStep
<1>8. CASE /\ Write(buffer)
           /\ \/ buffer' = <<>> /\ chunk' = bytes /\ touched' = touched
              \/ /\ length <= BUF_SIZE /\ buffer' = bytes
                 /\ Touch(<<>>, length) /\ chunk' = chunk
  <2>1. /\ file' \in Seq(Nat) /\ Len(file) <= Len(file') /\ ignored' \in BOOLEAN
        /\ ~ignored' => ~ignored /\ ~flushed_on_close /\ file' = file \o buffer
    BY <1>1, <1>2, <1>8, WriteEffect
  <2>2. durable \in 0 .. Len(file')
    BY <1>1, <2>1, DurableStays
  <2>3. file \o buffer \in Seq(Nat) /\ (file \o buffer) \o <<>> = file \o buffer
    BY <1>2, NatSeqConcat, NatSeqEmpty
  <2>4. CASE buffer' = <<>> /\ chunk' = bytes /\ touched' = touched
    <3>1. TypeOK'
      BY <1>1, <1>2, <1>3, <1>4, <2>1, <2>2, <2>4, NatSeqEmpty DEF TypeOK
    <3>2. ~ignored' => (file' \o buffer') \o chunk' = Stream(bytes_written')
      BY <1>5, <2>1, <2>3, <2>4
    <3>3. QED
      BY <1>1, <1>4, <2>1, <2>4, <3>1, <3>2, NatSeqEmpty, LivingStep
  <2>5. CASE /\ length <= BUF_SIZE /\ buffer' = bytes
             /\ Touch(<<>>, length) /\ chunk' = chunk
    <3>1. touched' \in Nat /\ touched' <= BUF_SIZE + 1
      BY <1>1, <1>2, <2>5, NatSeqEmpty DEF Touch
    <3>2. TypeOK'
      BY <1>1, <1>2, <1>3, <1>4, <2>1, <2>2, <2>5, <3>1 DEF TypeOK
    <3>3. (file \o buffer) \o bytes \in Seq(Nat)
      BY <1>3, <2>3, NatSeqConcat
    <3>4. ~ignored' => (file' \o buffer') \o chunk' = Stream(bytes_written')
      BY <1>1, <1>5, <2>1, <2>5, <3>3, NatSeqEmpty
    <3>5. QED
      BY <1>1, <1>3, <1>4, <2>1, <2>5, <3>1, <3>2, <3>4, LivingStep
  <2>6. QED
    BY <1>8, <2>4, <2>5
<1>9. QED
  BY <1>6, <1>7, <1>8

LEMMA DirectStep == OutInv /\ WriteDirect => OutInv'
<1> SUFFICES ASSUME OutInv, WriteDirect PROVE OutInv'
  OBVIOUS
<1>1. /\ TypeOK /\ alive /\ ~syncing /\ buffer = <<>> /\ chunk \in Seq(Nat)
      /\ file \in Seq(Nat) /\ bytes_written \in Nat
      /\ Len(buffer) <= BUF_SIZE /\ touched <= BUF_SIZE + 1
      /\ ~ignored => promised <= durable
      /\ ~ignored => (file \o <<>>) \o chunk = Stream(bytes_written)
  BY DEF OutInv, WriteDirect, OverrunIsOneByte, TypeOK, InOrder, Unwritten
<1>2. /\ Write(chunk) /\ chunk' = <<>> /\ alive' = alive
      /\ UNCHANGED <<bytes_written, buffer, flushed_on_close, syncing, durable,
                     touched, promised>>
  BY DEF WriteDirect
<1>3. /\ file' \in Seq(Nat) /\ Len(file) <= Len(file') /\ ignored' \in BOOLEAN
      /\ ~ignored' => ~ignored /\ ~flushed_on_close /\ file' = file \o chunk
  BY <1>1, <1>2, WriteEffect
<1>4. durable \in 0 .. Len(file')
  BY <1>1, <1>3, DurableStays
<1>5. TypeOK'
  BY <1>1, <1>2, <1>3, <1>4, NatSeqEmpty DEF TypeOK
<1>6. ~ignored' => (file' \o buffer') \o chunk' = Stream(bytes_written')
  <2>1. file \o <<>> = file /\ file' \o <<>> = file'
    BY <1>1, <1>3, NatSeqEmpty
  <2>2. ~ignored => file \o chunk = Stream(bytes_written)
    BY <1>1, <2>1
  <2>3. QED
    BY <1>1, <1>2, <1>3, <2>1, <2>2
<1>7. QED
  BY <1>1, <1>2, <1>3, <1>5, <1>6, LivingStep

(* The facts Close and GetChecksum start from. *)
LEMMA ReadyFacts ==
  ASSUME OutInv, Ready
  PROVE  /\ TypeOK /\ alive /\ ~syncing /\ chunk = <<>> /\ buffer \in Seq(Nat)
         /\ file \in Seq(Nat) /\ bytes_written \in Nat /\ touched \in Nat
         /\ 0 <= BUF_SIZE /\ touched <= BUF_SIZE + 1
         /\ ~ignored => promised <= durable
         /\ file \o buffer \in Seq(Nat)
         /\ (file \o buffer) \o <<>> = file \o buffer
         /\ ~ignored => file \o buffer = Stream(bytes_written)
<1>1. file \o buffer \in Seq(Nat)
      /\ ~ignored => file \o buffer = Stream(bytes_written)
  BY ReadyStream
<1>2. (file \o buffer) \o <<>> = file \o buffer
  BY <1>1, NatSeqEmpty
<1>3. /\ TypeOK /\ alive /\ ~syncing /\ chunk = <<>> /\ touched <= BUF_SIZE + 1
      /\ ~ignored => promised <= durable
  BY DEF OutInv, Ready, OverrunIsOneByte
<1>4. /\ buffer \in Seq(Nat) /\ file \in Seq(Nat) /\ bytes_written \in Nat
      /\ touched \in Nat
  BY <1>3 DEF TypeOK
<1>5. 0 <= BUF_SIZE
  BY OutputAssumption
<1>6. QED
  BY <1>1, <1>2, <1>3, <1>4, <1>5

LEMMA CloseStep == OutInv /\ Close => OutInv'
<1> SUFFICES ASSUME OutInv, Close PROVE OutInv'
  OBVIOUS
<1>1. /\ Ready /\ ~flushed_on_close /\ flushed_on_close' = TRUE /\ Write(buffer)
      /\ buffer' = <<>>
      /\ UNCHANGED <<bytes_written, chunk, syncing, durable, alive, touched, promised>>
  BY DEF Close
<1>2. /\ TypeOK /\ alive /\ ~syncing /\ chunk = <<>> /\ buffer \in Seq(Nat)
      /\ 0 <= BUF_SIZE /\ touched <= BUF_SIZE + 1
      /\ ~ignored => promised <= durable
      /\ (file \o buffer) \o <<>> = file \o buffer
      /\ ~ignored => file \o buffer = Stream(bytes_written)
  BY <1>1, ReadyFacts
<1>3. /\ file' \in Seq(Nat) /\ Len(file) <= Len(file') /\ ignored' \in BOOLEAN
      /\ ~ignored' => ~ignored /\ ~flushed_on_close /\ file' = file \o buffer
  BY <1>1, <1>2, WriteEffect
<1>4. durable \in 0 .. Len(file')
  BY <1>2, <1>3, DurableStays
<1>5. TypeOK'
  BY <1>1, <1>2, <1>3, <1>4, NatSeqEmpty DEF TypeOK
<1>6. ~ignored' => (file' \o buffer') \o chunk' = Stream(bytes_written')
  BY <1>1, <1>2, <1>3
<1>7. QED
  BY <1>1, <1>2, <1>3, <1>5, <1>6, NatSeqEmpty, LivingStep

LEMMA ChecksumStep == OutInv /\ GetChecksum => OutInv'
<1> SUFFICES ASSUME OutInv, GetChecksum PROVE OutInv'
  OBVIOUS
<1>1. /\ Ready /\ ~flushed_on_close /\ Write(buffer) /\ syncing' = TRUE
      /\ UNCHANGED <<bytes_written, buffer, flushed_on_close, chunk, durable, alive,
                     touched, promised>>
  BY DEF GetChecksum
<1>2. /\ TypeOK /\ alive /\ chunk = <<>> /\ buffer \in Seq(Nat)
      /\ bytes_written \in Nat /\ touched <= BUF_SIZE + 1
      /\ ~ignored => promised <= durable
      /\ (file \o buffer) \o <<>> = file \o buffer
      /\ ~ignored => file \o buffer = Stream(bytes_written)
  BY <1>1, ReadyFacts
<1>3. /\ file' \in Seq(Nat) /\ Len(file) <= Len(file') /\ ignored' \in BOOLEAN
      /\ ~ignored' => ~ignored /\ file' = file \o buffer
  BY <1>1, <1>2, WriteEffect
<1>4. durable \in 0 .. Len(file')
  BY <1>2, <1>3, DurableStays
<1>5. TypeOK'
  BY <1>1, <1>2, <1>3, <1>4 DEF TypeOK
<1>6. Unwritten' = <<>>
  BY <1>1 DEF Unwritten
<1>7. ~ignored' => /\ (file' \o Unwritten') \o chunk' = Stream(bytes_written')
                   /\ file' = Stream(bytes_written')
  BY <1>1, <1>2, <1>3, <1>6
<1>8. ~ignored' => Len(file') <= bytes_written' /\ file' = Stream(Len(file'))
  BY <1>1, <1>2, <1>7, StreamProperties
<1>9. Len(buffer') <= BUF_SIZE
  BY <1>1 DEF OutInv
<1>10. QED
  BY <1>1, <1>2, <1>3, <1>5, <1>7, <1>8, <1>9 DEF OutInv, OverrunIsOneByte, InOrder

LEMMA ChecksumSyncStep == OutInv /\ SyncChecksummed => OutInv'
<1> SUFFICES ASSUME OutInv, SyncChecksummed PROVE OutInv'
  OBVIOUS
<1>1. /\ alive /\ syncing /\ syncing' = FALSE /\ buffer' = <<>>
      /\ promised' = bytes_written
      /\ UNCHANGED <<bytes_written, flushed_on_close, chunk, file, alive, touched>>
  BY DEF SyncChecksummed
<1>2. /\ TypeOK /\ ~flushed_on_close /\ chunk = <<>> /\ Unwritten = <<>>
      /\ file \in Seq(Nat) /\ bytes_written \in Nat /\ Len(file) \in Nat
      /\ touched <= BUF_SIZE + 1 /\ BUF_SIZE \in Nat
  BY <1>1, LenProperties, OutputAssumption
     DEF OutInv, TypeOK, OverrunIsOneByte, Unwritten
<1>3. (file \o <<>>) \o <<>> = file
  BY <1>2, NatSeqEmpty
<1>4. ~ignored => file = Stream(bytes_written) /\ Len(file) = bytes_written
  <2>1. ~ignored => (file \o Unwritten) \o chunk = Stream(bytes_written)
    BY <1>1 DEF OutInv, InOrder
  <2>2. ~ignored => file = Stream(bytes_written)
    BY <1>2, <1>3, <2>1
  <2>3. QED
    BY <1>2, <2>2, StreamProperties
<1>5. /\ durable' \in 0 .. Len(file') /\ ignored' \in BOOLEAN
      /\ ~ignored' => ~ignored /\ durable' = Len(file)
  <2>1. \/ durable' = Len(file) /\ ignored' = ignored
        \/ ignored' = TRUE /\ durable' = durable
    BY DEF SyncChecksummed
  <2>2. durable \in 0 .. Len(file) /\ ignored \in BOOLEAN
    BY <1>2 DEF TypeOK
  <2>3. CASE durable' = Len(file) /\ ignored' = ignored
    <3>1. durable' \in 0 .. Len(file')
      BY <1>1, <1>2, <2>3
    <3>2. QED
      BY <2>2, <2>3, <3>1, Zenon
  <2>4. CASE ignored' = TRUE /\ durable' = durable
    BY <1>1, <2>2, <2>4, Zenon
  <2>5. QED
    BY <2>1, <2>3, <2>4
<1>6. TypeOK'
  BY <1>1, <1>2, <1>5, NatSeqEmpty DEF TypeOK
<1>7. ~ignored' => /\ (file' \o buffer') \o chunk' = Stream(bytes_written')
                   /\ promised' <= durable'
  BY <1>1, <1>2, <1>3, <1>4, <1>5
<1>8. Len(buffer') <= BUF_SIZE /\ touched' <= BUF_SIZE + 1
  BY <1>1, <1>2, NatSeqEmpty
<1>9. QED
  BY <1>1, <1>2, <1>6, <1>7, <1>8, LivingStep

LEMMA SyncStep == OutInv /\ SyncFile => OutInv'
<1> SUFFICES ASSUME OutInv, SyncFile PROVE OutInv'
  OBVIOUS
<1>1. /\ Ready /\ durable' = Len(file)
      /\ promised' = IF flushed_on_close THEN bytes_written ELSE promised
      /\ UNCHANGED <<object, file, alive, touched, ignored>>
  BY DEF SyncFile
<1>2. /\ TypeOK /\ alive /\ chunk = <<>> /\ file \in Seq(Nat)
      /\ bytes_written \in Nat
      /\ ~ignored => file \o buffer = Stream(bytes_written)
      /\ file \o <<>> = file
  BY <1>1, ReadyFacts, NatSeqEmpty
<1>3. Len(file) \in Nat /\ durable <= Len(file) /\ durable \in Nat
      /\ promised \in Nat
  BY <1>2, LenProperties DEF TypeOK
<1>4. TypeOK'
  <2>1. durable' \in 0 .. Len(file') /\ promised' \in Nat
    BY <1>1, <1>2, <1>3
  <2>2. QED
    BY <1>1, <1>2, <2>1 DEF TypeOK, object
<1>5. ~ignored => promised' <= durable'
  <2>1. CASE flushed_on_close
    <3>1. ~ignored => buffer = <<>>
      BY <1>2, <2>1 DEF OutInv
    <3>2. ~ignored => Len(file) = bytes_written
      BY <1>2, <3>1, StreamProperties
    <3>3. QED
      BY <1>1, <1>2, <2>1, <3>2
  <2>2. CASE ~flushed_on_close
    BY <1>1, <1>3, <2>2 DEF OutInv
  <2>3. QED
    BY <2>1, <2>2
<1>6. QED
  BY <1>1, <1>4, <1>5 DEF OutInv, OverrunIsOneByte, InOrder, Unwritten, object

LEMMA CrashStep == OutInv /\ Crash => OutInv'
<1> SUFFICES ASSUME OutInv, Crash PROVE OutInv'
  OBVIOUS
<1>1. TypeOK'
  BY NatSeqEmpty DEF OutInv, Crash, TypeOK
<1>2. QED
  BY <1>1, OutputAssumption, NatSeqEmpty
     DEF OutInv, Crash, OverrunIsOneByte, InOrder

LEMMA PowerLossStep == OutInv /\ PowerLoss => OutInv'
<1> SUFFICES ASSUME OutInv, PowerLoss PROVE OutInv'
  OBVIOUS
<1>1. /\ file \in Seq(Nat) /\ durable \in 0 .. Len(file) /\ ~alive
      /\ Len(file) \in Nat
  BY LenProperties DEF OutInv, TypeOK, PowerLoss
<1>2. PICK k \in durable .. Len(file) : file' = SubSeq(file, 1, k)
  BY DEF PowerLoss
<1>3. k \in 0 .. Len(file) /\ k \in Nat /\ durable <= k
  BY <1>1, <1>2
<1>4. \A i \in 1 .. k : file[i] \in Nat
  BY <1>1, <1>3, ElementOfSeq
<1>5. file' \in Seq(Nat) /\ Len(file') = k
  BY <1>2, <1>3, <1>4, SubSeqProperties
<1>6. TypeOK'
  <2>1. durable' \in 0 .. Len(file')
    BY <1>1, <1>3, <1>5 DEF PowerLoss
  <2>2. QED
    BY <1>5, <2>1 DEF OutInv, TypeOK, PowerLoss, object
<1>7. ~ignored => Len(file') <= bytes_written /\ file' = Stream(Len(file'))
  <2>1. ~ignored => file' = SubSeq(Stream(Len(file)), 1, k)
    BY <1>2 DEF OutInv
  <2>2. SubSeq(Stream(Len(file)), 1, k) = Stream(k)
    BY <1>1, <1>3, StreamCut
  <2>3. ~ignored => Len(file) <= bytes_written
    BY DEF OutInv
  <2>4. bytes_written \in Nat
    BY DEF OutInv, TypeOK
  <2>5. ~ignored => k <= bytes_written
    BY <1>1, <1>3, <2>3, <2>4
  <2>6. ~ignored => file' = Stream(k)
    BY <2>1, <2>2
  <2>7. QED
    BY <1>5, <2>5, <2>6, Zenon
<1>8. QED
  BY <1>1, <1>6, <1>7 DEF OutInv, PowerLoss, OverrunIsOneByte, InOrder, object

LEMMA OutStep == OutInv /\ [Next]_vars => OutInv'
<1> SUFFICES ASSUME OutInv, [Next]_vars PROVE OutInv'
  OBVIOUS
<1>1. CASE WriteByte
  BY <1>1, ByteStep
<1>2. CASE \E length \in 0 .. MaxChunk : WriteBytes(length)
  <2>1. PICK length \in 0 .. MaxChunk : WriteBytes(length)
    BY <1>2
  <2>2. length \in Nat
    OBVIOUS
  <2>3. QED
    BY <2>1, <2>2, BytesStep
<1>3. CASE WriteDirect
  BY <1>3, DirectStep
<1>4. CASE Close
  BY <1>4, CloseStep
<1>5. CASE GetChecksum
  BY <1>5, ChecksumStep
<1>6. CASE SyncFile
  BY <1>6, SyncStep
<1>7. CASE Crash
  BY <1>7, CrashStep
<1>8. CASE PowerLoss
  BY <1>8, PowerLossStep
<1>9. CASE SyncChecksummed
  BY <1>9, ChecksumSyncStep
<1>10. CASE UNCHANGED vars
  BY <1>10 DEF OutInv, TypeOK, OverrunIsOneByte, InOrder, Unwritten, vars
<1>11. QED
  BY <1>1, <1>2, <1>3, <1>4, <1>5, <1>6, <1>7, <1>8, <1>9, <1>10 DEF Next

LEMMA OutInvariant == Spec => []OutInv
<1>1. Init => OutInv
  BY OutInit
<1>2. OutInv /\ [Next]_vars => OutInv'
  BY OutStep
<1>3. QED
  BY <1>1, <1>2, PTL DEF Spec

--------------------------------------------------------------------------------
(* The safety properties. *)

(* Every variable keeps its type; the buffer index never passes the end of the
   array between two calls. *)
THEOREM TypeCorrect == Spec => [](TypeOK /\ Len(buffer) <= BUF_SIZE)
<1>1. OutInv => TypeOK /\ Len(buffer) <= BUF_SIZE
  BY DEF OutInv
<1>2. QED
  BY <1>1, OutInvariant, PTL

(* WriteByte, the three paths of WriteBytes and GetChecksum in any order lose,
   double and move nothing, whatever the lengths. *)
THEOREM NothingLostOrMoved == Spec => []InOrder
<1>1. OutInv => InOrder
  BY DEF OutInv
<1>2. QED
  BY <1>1, OutInvariant, PTL

(* The store of WriteByte into a full buffer passes the end of the array by
   one byte at most. *)
THEOREM OverrunBounded == Spec => []OverrunIsOneByte
<1>1. OutInv => OverrunIsOneByte
  BY DEF OutInv
<1>2. QED
  BY <1>1, OutInvariant, PTL

(* After Close, of the caller or of the destructor, the file is the stream. *)
THEOREM CloseCompletes == Spec => []ClosedIsComplete
<1>1. OutInv => ClosedIsComplete
  <2> SUFFICES ASSUME OutInv, flushed_on_close, ~ignored, alive, chunk = <<>>
               PROVE  file = Stream(bytes_written)
    BY DEF ClosedIsComplete
  <2>1. Ready /\ buffer = <<>>
    BY DEF OutInv, Ready, TypeOK
  <2>2. file \in Seq(Nat) /\ file \o buffer = Stream(bytes_written)
    BY <2>1, ReadyFacts
  <2>3. QED
    BY <2>1, <2>2, NatSeqEmpty
<1>2. QED
  BY <1>1, OutInvariant, PTL

(* What a crash and a loss of power leave is a prefix of the stream and holds
   every byte that a GetChecksum, or a Sync after Close, covered. *)
THEOREM CrashSafe == Spec => []CrashLeavesPrefix
<1>1. OutInv => CrashLeavesPrefix
  <2> SUFFICES ASSUME OutInv, ~ignored
               PROVE  file = Stream(Len(file)) /\ Len(file) >= promised
    BY DEF CrashLeavesPrefix
  <2>1. /\ file = Stream(Len(file)) /\ promised <= durable
        /\ file \in Seq(Nat) /\ durable \in 0 .. Len(file) /\ promised \in Nat
    BY DEF OutInv, TypeOK
  <2>2. Len(file) \in Nat
    BY <2>1, LenProperties
  <2>3. Len(file) >= promised
    BY <2>1, <2>2
  <2>4. QED
    BY <2>1, <2>3
<1>2. QED
  BY <1>1, OutInvariant, PTL

--------------------------------------------------------------------------------
(* The refinement: every step of the output is a step of the log. *)

LEMMA LogInit == Init => Log!Init
<1>1. Len(<<>>) = 0
  BY EmptySeq
<1>2. QED
  BY <1>1 DEF Init, Log!Init, Phase

Accepting ==
  WriteByte \/ (\E length \in 0 .. MaxChunk : WriteBytes(length)) \/ WriteDirect

LEMMA AcceptingGrows ==
  ASSUME OutInv, Accepting
  PROVE  /\ Len(file) <= Len(file')
         /\ bytes_written <= bytes_written'
         /\ ~ignored' => ~ignored /\ ~flushed_on_close
         /\ alive /\ alive' = alive
         /\ flushed_on_close' = flushed_on_close /\ durable' = durable
<1>1. /\ TypeOK /\ file \in Seq(Nat) /\ buffer \in Seq(Nat)
      /\ chunk \in Seq(Nat) /\ bytes_written \in Nat /\ Len(file) \in Nat
  BY LenProperties DEF OutInv, TypeOK
<1>2. ASSUME NEW bytes \in Seq(Nat), Write(bytes)
      PROVE  /\ Len(file) <= Len(file')
             /\ ~ignored' => ~ignored /\ ~flushed_on_close
  BY <1>1, <1>2, WriteEffect
<1>3. ASSUME NoWrite
      PROVE  /\ Len(file) <= Len(file')
             /\ ~ignored' => ~ignored /\ ~flushed_on_close
  <2>1. file' = file /\ (~ignored' => ~ignored /\ ~flushed_on_close)
    BY <1>3, Zenon DEF NoWrite
  <2>2. Len(file) <= Len(file')
    BY <1>1, <2>1
  <2>3. QED
    BY <2>1, <2>2
<1>4. CASE WriteByte
  <2>1. Append(buffer, bytes_written + 1) \in Seq(Nat)
    BY <1>1, AppendProperties
  <2>2. Write(Append(buffer, bytes_written + 1)) \/ NoWrite
    BY <1>4 DEF WriteByte
  <2>3. /\ bytes_written <= bytes_written' /\ alive /\ alive' = alive
        /\ flushed_on_close' = flushed_on_close /\ durable' = durable
    BY <1>1, <1>4 DEF WriteByte, Ready
  <2>4. QED
    BY <1>2, <1>3, <2>1, <2>2, <2>3
<1>5. CASE \E length \in 0 .. MaxChunk : WriteBytes(length)
  <2>1. PICK length \in 0 .. MaxChunk : WriteBytes(length)
    BY <1>5
  <2>2. Write(buffer) \/ NoWrite
    BY <2>1 DEF WriteBytes
  <2>3. bytes_written' = bytes_written + length /\ length \in Nat
    BY <2>1 DEF WriteBytes
  <2>4. /\ bytes_written <= bytes_written' /\ alive /\ alive' = alive
        /\ flushed_on_close' = flushed_on_close /\ durable' = durable
    BY <1>1, <2>1, <2>3 DEF WriteBytes, Ready
  <2>5. QED
    BY <1>1, <1>2, <1>3, <2>2, <2>4
<1>6. CASE WriteDirect
  <2>1. Write(chunk) /\ bytes_written <= bytes_written' /\ alive /\ alive' = alive
        /\ flushed_on_close' = flushed_on_close /\ durable' = durable
    BY <1>1, <1>6 DEF WriteDirect
  <2>2. QED
    BY <1>1, <1>2, <2>1
<1>7. QED
  BY <1>4, <1>5, <1>6 DEF Accepting

LEMMA LogStep == OutInv /\ OutInv' /\ [Next]_vars => [Log!Next]_(Log!vars)
<1> SUFFICES ASSUME OutInv, OutInv', [Next]_vars, ~ignored'
             PROVE  [Log!Next]_(Log!vars)
  BY DEF Log!Next
<1>1. /\ file \in Seq(Nat) /\ file' \in Seq(Nat) /\ Len(file) \in Nat
      /\ Len(file') \in Nat /\ bytes_written \in Nat /\ bytes_written' \in Nat
      /\ Len(file') <= bytes_written' /\ durable \in 0 .. Len(file)
  BY LenProperties DEF OutInv, TypeOK
<1>2. CASE Accepting
  <2>1. /\ Len(file) <= Len(file') /\ bytes_written <= bytes_written'
        /\ ~ignored /\ ~flushed_on_close /\ alive /\ alive' = alive
        /\ flushed_on_close' = flushed_on_close /\ durable' = durable
    BY <1>2, AcceptingGrows
  <2>2. Phase = "open" /\ Phase' = Phase
    BY <2>1 DEF Phase
  <2>3. Len(file') \in Len(file) .. bytes_written' /\ bytes_written' >= bytes_written
    BY <1>1, <2>1
  <2>4. Log!Accept
    BY <2>1, <2>2, <2>3 DEF Log!Accept
  <2>5. QED
    BY <2>1, <2>4 DEF Log!Next, Log!Promise
<1>3. ASSUME NEW b, b = <<>>, (file' \o b) \o <<>> = Stream(bytes_written')
      PROVE  Len(file') = bytes_written'
  <2>1. file' \o <<>> = file' /\ file' = Stream(bytes_written')
    BY <1>1, <1>3, NatSeqEmpty
  <2>2. QED
    BY <1>1, <2>1, StreamProperties
<1>4. CASE Close
  <2>1. /\ Ready /\ alive /\ ~flushed_on_close /\ flushed_on_close' = TRUE
        /\ Write(buffer) /\ buffer' = <<>> /\ chunk' = <<>> /\ Unwritten' = <<>>
        /\ UNCHANGED <<bytes_written, durable, alive>>
    BY <1>4 DEF Close, Ready, Unwritten
  <2>2. ~ignored
    <3>1. TypeOK /\ buffer \in Seq(Nat)
      BY DEF OutInv, TypeOK
    <3>2. QED
      BY <2>1, <3>1, WriteEffect
  <2>3. (file' \o <<>>) \o <<>> = Stream(bytes_written')
    BY <2>1 DEF OutInv, InOrder
  <2>4. Len(file') = bytes_written
    BY <1>3, <2>1, <2>3
  <2>5. Phase = "open" /\ Phase' = "closed"
    BY <2>1 DEF Phase
  <2>6. Log!Finish
    BY <2>1, <2>4, <2>5 DEF Log!Finish
  <2>7. QED
    BY <2>2, <2>6 DEF Log!Next, Log!Promise
<1>5. CASE GetChecksum
  <2>1. /\ alive /\ ~flushed_on_close /\ Write(buffer)
        /\ UNCHANGED <<bytes_written, alive, flushed_on_close, durable>>
    BY <1>5 DEF GetChecksum, Ready
  <2>2. ~ignored /\ Len(file) <= Len(file')
    <3>1. TypeOK /\ buffer \in Seq(Nat)
      BY DEF OutInv, TypeOK
    <3>2. QED
      BY <2>1, <3>1, WriteEffect
  <2>3. Phase = "open" /\ Phase' = "open"
    BY <2>1 DEF Phase
  <2>4. Len(file') \in Len(file) .. bytes_written' /\ bytes_written' >= bytes_written
    BY <1>1, <2>1, <2>2
  <2>5. Log!Accept
    BY <2>1, <2>3, <2>4 DEF Log!Accept
  <2>6. QED
    BY <2>2, <2>5 DEF Log!Next, Log!Promise
<1>6. CASE SyncFile
  <2>1. /\ alive /\ durable' = Len(file) /\ ~ignored
        /\ UNCHANGED <<bytes_written, file, alive, flushed_on_close>>
    BY <1>6 DEF SyncFile, Ready, object
  <2>2. Phase # "dead" /\ Phase' = Phase
    BY <2>1 DEF Phase
  <2>3. Log!Secure
    BY <2>1, <2>2 DEF Log!Secure
  <2>4. QED
    BY <2>1, <2>3 DEF Log!Next, Log!Promise
<1>7. CASE Crash
  <2>1. ~ignored /\ Phase' = "dead"
    BY <1>7 DEF Crash, Phase
  <2>2. Log!Stop
    BY <1>7, <2>1 DEF Crash, Log!Stop
  <2>3. QED
    BY <2>1, <2>2 DEF Log!Next, Log!Promise
<1>8. CASE PowerLoss
  <2>1. ~ignored /\ Phase = "dead" /\ Phase' = "dead"
    BY <1>8 DEF PowerLoss, Phase
  <2>2. PICK k \in durable .. Len(file) : file' = SubSeq(file, 1, k)
    BY <1>8 DEF PowerLoss
  <2>3. k \in 0 .. Len(file) /\ k \in Nat
    BY <1>1, <2>2
  <2>4. \A i \in 1 .. k : file[i] \in Nat
    BY <1>1, <2>3, ElementOfSeq
  <2>5. Len(file') = k
    BY <2>2, <2>3, <2>4, SubSeqProperties
  <2>6. Log!PowerLoss
    BY <1>8, <2>1, <2>2, <2>5 DEF PowerLoss, object, Log!PowerLoss
  <2>7. QED
    BY <2>1, <2>6 DEF Log!Next, Log!Promise
<1>9. CASE SyncChecksummed
  <2>1. /\ alive /\ durable' = Len(file) /\ ~ignored
        /\ UNCHANGED <<bytes_written, file, alive, flushed_on_close>>
    BY <1>9 DEF SyncChecksummed
  <2>2. Phase # "dead" /\ Phase' = Phase
    BY <2>1 DEF Phase
  <2>3. Log!Secure
    BY <2>1, <2>2 DEF Log!Secure
  <2>4. QED
    BY <2>1, <2>3 DEF Log!Next, Log!Promise
<1>10. CASE UNCHANGED vars
  BY <1>10 DEF vars, Log!vars, Phase
<1>11. QED
  BY <1>2, <1>4, <1>5, <1>6, <1>7, <1>8, <1>9, <1>10 DEF Next, Accepting

(* FileIndexOutput is an append-only log that a crash can only shorten to what
   was secured, as long as no error is ignored. *)
THEOREM OutputImplementsLog == Spec => ImplementsLog
<1>1. Init => Log!Init
  BY LogInit
<1>2. OutInv /\ OutInv' /\ [Next]_vars => [Log!Next]_(Log!vars)
  BY LogStep
<1>3. QED
  BY <1>1, <1>2, OutInvariant, PTL DEF Spec, ImplementsLog, Log!Spec

===============================================================================
