---------------------------- MODULE FileIndexOutput ----------------------------
(***************************************************************************)
(* Store/DataOutput.h: FileIndexOutput, a buffered output over a file      *)
(* descriptor, with the process and the machine that may stop under it.    *)
(*                                                                         *)
(* A byte is its position in the stream the caller wrote, so the file and  *)
(* the buffer are sequences of positions and a byte that is lost, doubled  *)
(* or moved shows.  bytes_written stands for the CRC too: both are updated *)
(* with the same bytes at the start of every write.                        *)
(***************************************************************************)
EXTENDS Naturals, Sequences

CONSTANTS
  BUF_SIZE,   (* 8192 in the code                              *)
  MaxChunk,   (* longest argument of WriteBytes                *)
  MaxBytes    (* bound on the length of the stream             *)

ASSUME OutputAssumption ==
  /\ BUF_SIZE \in Nat \ {0}
  /\ MaxChunk \in Nat
  /\ MaxBytes \in Nat

VARIABLES
  (* The fields of the object. *)
  bytes_written,
  buffer,            \* buffer[0 .. buf_idx - 1]
  flushed_on_close,  \* and the descriptor is closed
  chunk,             \* the bytes a long WriteBytes has still to write(2)
  syncing,           \* GetChecksum has written the buffer and not yet synced
  (* The file. *)
  file,              \* the bytes in it
  durable,           \* how many of them survive a loss of power
  alive,             \* the process is running
  (* History. *)
  touched,           \* how many bytes of the array were ever stored to
  promised,          \* how many bytes the caller may think durable
  ignored            \* a write or fsync fell short and the code looked away

object == <<bytes_written, buffer, flushed_on_close, chunk, syncing>>
vars == <<bytes_written, buffer, flushed_on_close, chunk, syncing, file, durable,
          alive, touched, promised, ignored>>

(* The bytes of the stream after position n, up to position m. *)
Run(n, m) == [i \in 1 .. m - n |-> n + i]
Stream(n) == Run(0, n)

TypeOK ==
  /\ bytes_written \in Nat
  /\ buffer \in Seq(Nat)
  /\ flushed_on_close \in BOOLEAN
  /\ chunk \in Seq(Nat)
  /\ syncing \in BOOLEAN
  /\ file \in Seq(Nat)
  /\ durable \in 0 .. Len(file)
  /\ alive \in BOOLEAN
  /\ touched \in Nat
  /\ promised \in Nat
  /\ ignored \in BOOLEAN

Init ==
  /\ bytes_written = 0
  /\ buffer = <<>>
  /\ flushed_on_close = FALSE
  /\ chunk = <<>>
  /\ syncing = FALSE
  /\ file = <<>>
  /\ durable = 0
  /\ alive = TRUE
  /\ touched = 0
  /\ promised = 0
  /\ ignored = FALSE

--------------------------------------------------------------------------------

(* write(2), whose result nobody reads: it may store fewer bytes than asked,
   or none. After Close the descriptor is bad. *)
Write(bytes) ==
  \E k \in 0 .. Len(bytes) :
    /\ flushed_on_close => k = 0
    /\ file' = file \o SubSeq(bytes, 1, k)
    /\ ignored' = (ignored \/ k < Len(bytes) \/ flushed_on_close)

NoWrite ==
  /\ file' = file
  /\ ignored' = (ignored \/ flushed_on_close)

(* Bytes stored from the index Len(before) on. *)
Touch(before, n) ==
  touched' = IF Len(before) + n > touched THEN Len(before) + n ELSE touched

(* Between two calls of a living process. *)
Ready == alive /\ chunk = <<>> /\ ~syncing

WriteByte ==
  LET full == Append(buffer, bytes_written + 1) IN
  /\ Ready
  /\ bytes_written < MaxBytes
  /\ bytes_written' = bytes_written + 1
  /\ Touch(buffer, 1)
  /\ \/ /\ Len(full) >= BUF_SIZE
        /\ Write(full)
        /\ buffer' = <<>>
     \/ /\ Len(full) < BUF_SIZE
        /\ buffer' = full
        /\ NoWrite
  /\ UNCHANGED <<flushed_on_close, chunk, syncing, durable, alive, promised>>

(* Mutant: the buffer is thrown away, not flushed, before a long chunk. *)
WriteBytesDropping(length) ==
  LET bytes == Run(bytes_written, bytes_written + length) IN
  /\ Ready
  /\ bytes_written + length <= MaxBytes
  /\ bytes_written' = bytes_written + length
  /\ \/ /\ length > BUF_SIZE
        /\ NoWrite
        /\ buffer' = <<>>
        /\ chunk' = bytes
        /\ UNCHANGED touched
     \/ /\ length + Len(buffer) <= BUF_SIZE
        /\ NoWrite
        /\ buffer' = buffer \o bytes
        /\ Touch(buffer, length)
        /\ UNCHANGED chunk
  /\ UNCHANGED <<flushed_on_close, syncing, durable, alive, promised>>

(* Mutant: the comparisons with the room left in the buffer are off by one. *)
WriteBytesOffByOne(length) ==
  LET bytes == Run(bytes_written, bytes_written + length) IN
  /\ Ready
  /\ bytes_written + length <= MaxBytes
  /\ bytes_written' = bytes_written + length
  /\ length + Len(buffer) <= BUF_SIZE + 1
  /\ NoWrite
  /\ buffer' = buffer \o bytes
  /\ Touch(buffer, length)
  /\ UNCHANGED <<chunk, syncing, flushed_on_close, durable, alive, promised>>

(* A chunk that would not fit is preceded by a flush; one longer than the
   buffer goes to the file by itself, in a second write(2). *)
WriteBytes(length) ==
  LET bytes == Run(bytes_written, bytes_written + length) IN
  /\ Ready
  /\ bytes_written + length <= MaxBytes
  /\ bytes_written' = bytes_written + length
  /\ \/ /\ length > BUF_SIZE
        /\ Write(buffer)
        /\ buffer' = <<>>
        /\ chunk' = bytes
        /\ UNCHANGED touched
     \/ /\ length <= BUF_SIZE
        /\ length + Len(buffer) > BUF_SIZE
        /\ Write(buffer)
        /\ buffer' = bytes
        /\ Touch(<<>>, length)
        /\ UNCHANGED chunk
     \/ /\ length + Len(buffer) <= BUF_SIZE
        /\ NoWrite
        /\ buffer' = buffer \o bytes
        /\ Touch(buffer, length)
        /\ UNCHANGED chunk
  /\ UNCHANGED <<flushed_on_close, syncing, durable, alive, promised>>

WriteDirect ==
  /\ alive
  /\ chunk # <<>>
  /\ Write(chunk)
  /\ chunk' = <<>>
  /\ UNCHANGED <<bytes_written, buffer, flushed_on_close, syncing, durable, alive,
                 touched, promised>>

(* Mutant: without the flush. *)
CloseUnflushed ==
  /\ Ready
  /\ ~flushed_on_close
  /\ flushed_on_close' = TRUE
  /\ buffer' = <<>>
  /\ UNCHANGED <<bytes_written, chunk, syncing, file, durable, alive, touched,
                 promised, ignored>>

(* Close, by the caller or by the destructor; a second one does nothing. *)
Close ==
  /\ Ready
  /\ ~flushed_on_close
  /\ flushed_on_close' = TRUE
  /\ Write(buffer)
  /\ buffer' = <<>>
  /\ UNCHANGED <<bytes_written, chunk, syncing, durable, alive, touched, promised>>

(* On an open output GetChecksum writes the buffer, and then calls fsync, whose
   result is not read either; buf_idx is reset last. *)
GetChecksum ==
  /\ Ready
  /\ ~flushed_on_close
  /\ Write(buffer)
  /\ syncing' = TRUE
  /\ UNCHANGED <<bytes_written, buffer, flushed_on_close, chunk, durable, alive,
                 touched, promised>>

(* Mutant: buf_idx is not reset, so the buffer is written again later. *)
SyncAndKeep ==
  /\ alive
  /\ syncing
  /\ syncing' = FALSE
  /\ durable' = Len(file)
  /\ promised' = bytes_written
  /\ UNCHANGED <<bytes_written, buffer, flushed_on_close, chunk, file, alive,
                 touched, ignored>>

(* Mutant: the fsync is left out. *)
SyncNothing ==
  /\ alive
  /\ syncing
  /\ syncing' = FALSE
  /\ buffer' = <<>>
  /\ promised' = bytes_written
  /\ UNCHANGED <<bytes_written, flushed_on_close, chunk, file, durable, alive,
                 touched, ignored>>

SyncChecksummed ==
  /\ alive
  /\ syncing
  /\ syncing' = FALSE
  /\ buffer' = <<>>
  /\ promised' = bytes_written
  /\ \/ durable' = Len(file) /\ UNCHANGED ignored
     \/ ignored' = TRUE /\ UNCHANGED durable        \* fsync fails
  /\ UNCHANGED <<bytes_written, flushed_on_close, chunk, file, alive, touched>>

(* Directory::Sync of the file: an fsync through another descriptor, which
   knows nothing of the buffer. The caller may rely on it for an output that
   is closed; when the fsync fails it is told. *)
SyncFile ==
  /\ Ready
  /\ durable' = Len(file)
  /\ promised' = IF flushed_on_close THEN bytes_written ELSE promised
  /\ UNCHANGED <<object, file, alive, touched, ignored>>

Crash ==
  /\ alive
  /\ alive' = FALSE
  /\ buffer' = <<>>
  /\ chunk' = <<>>
  /\ syncing' = FALSE
  /\ UNCHANGED <<bytes_written, flushed_on_close, file, durable, touched,
                 promised, ignored>>

PowerLoss ==
  /\ ~alive
  /\ \E k \in durable .. Len(file) : file' = SubSeq(file, 1, k)
  /\ UNCHANGED <<object, durable, alive, touched, promised, ignored>>

Next ==
  \/ WriteByte
  \/ \E length \in 0 .. MaxChunk : WriteBytes(length)
  \/ WriteDirect
  \/ Close
  \/ GetChecksum
  \/ SyncChecksummed
  \/ SyncFile
  \/ Crash
  \/ PowerLoss

Spec == Init /\ [][Next]_vars

--------------------------------------------------------------------------------

(* The buffered bytes that are not in the file. *)
Unwritten == IF syncing THEN <<>> ELSE buffer

(* Unless an error was ignored, the file, the buffer and the rest of a long
   write are the stream, in order: none of the three paths through WriteBytes,
   nor GetChecksum in between, loses, doubles or moves a byte. *)
InOrder ==
  alive /\ ~ignored => (file \o Unwritten) \o chunk = Stream(bytes_written)

(* A closed output has left everything in the file, so its checksum is that of
   the file. *)
ClosedIsComplete ==
  flushed_on_close /\ ~ignored /\ alive /\ chunk = <<>> =>
    file = Stream(bytes_written)

(* After WriteBytes has filled the buffer to the brim, WriteByte stores one
   byte behind the array, in the padding of the object; never more than one. *)
OverrunIsOneByte == touched <= BUF_SIZE + 1

(* What a reader finds after a crash is a prefix of the stream, and no shorter
   than what GetChecksum, or Sync after Close, made durable. *)
CrashLeavesPrefix ==
  ~ignored => file = Stream(Len(file)) /\ Len(file) >= promised

Phase == IF ~alive THEN "dead" ELSE IF flushed_on_close THEN "closed" ELSE "open"

Log == INSTANCE AppendLog WITH
  log <- bytes_written, kept <- Len(file), secured <- durable,
  phase <- Phase, broken <- ignored

(* The output keeps the promise of an append-only log. *)
ImplementsLog == Log!Spec

===============================================================================
