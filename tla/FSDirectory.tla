------------------------------ MODULE FSDirectory ------------------------------
(***************************************************************************)
(* Store/Directory.cpp: FSDirectory and MMapDirectory over one POSIX       *)
(* directory.  Each element of Dirs is one directory object, in a process  *)
(* of its own or not, used by one thread at a time (Directory.h says of    *)
(* pending_deletes that it is not thread safe).  All of them share the     *)
(* path, so their system calls interleave: an action makes at most one     *)
(* system call, and pc says where in an operation the object is.           *)
(*                                                                         *)
(* A call that throws goes back to "idle"; which exception it throws is    *)
(* left out, and so are the calls that throw before they change anything   *)
(* (EnsureOpen, EnsureCanRead, SyncMetaData, whose open(2) of a directory  *)
(* for writing always fails) and the reads that change nothing (ListAll,   *)
(* FileLength): they are stuttering steps.                                 *)
(***************************************************************************)
EXTENDS Naturals, FiniteSets

CONSTANTS
  Dirs,       (* the directory objects                                       *)
  Plain,      (* file names the callers choose                               *)
  TempWidth,  (* next_temp_file_counter counts modulo this (2^32 in the code)*)
  MaxFiles,   (* how many files the file system can ever hold: then ENOSPC   *)
  MaxSync     (* how many names one call of Sync is given at most            *)

TempName(k) == <<"tmp", k>>   \* SegmentFileName(prefix, suffix_k, "tmp")
Names == Plain \cup { TempName(k) : k \in 0 .. TempWidth - 1 }
NoFile == 0

ASSUME DirectoryAssumption ==
  /\ TempWidth \in Nat \ {0}
  /\ MaxFiles \in Nat
  /\ MaxSync \in Nat

VARIABLES
  (* The file system, shared by every object. *)
  here,     \* the path is a directory
  files,    \* name -> the file (inode) it is linked to, or NoFile
  nfiles,   \* files created so far: they are numbered 1, 2, ...
  (* The fields of each object. *)
  is_open, pending_deletes, next_temp_file_counter,
  (* The operation each object is in. *)
  pc,       \* "none" before the constructor and after a crash
  cur,      \* the name the next system call is about
  todo,     \* names the loop of the operation has still to visit
  resume,   \* pc once DeletePendingFiles is done
  (* What callers hold. *)
  outs,     \* files the object's outputs have open for writing
  ins,      \* files the object's inputs have mapped
  (* History: files whose deletion the object accepted and still owes. *)
  deleted

disk  == <<here, files, nfiles>>
held  == <<outs, ins>>
frame == <<pc, cur, todo, resume>>
vars  == <<here, files, nfiles, is_open, pending_deletes, next_temp_file_counter,
           pc, cur, todo, resume, outs, ins, deleted>>

Counters == 0 .. TempWidth - 1

PC == {"none", "mkdir", "realpath", "idle", "delete", "retry", "drain",
       "probe", "create", "fsync", "open"}

TypeOK ==
  /\ here \in BOOLEAN
  /\ files \in [Names -> 0 .. nfiles]
  /\ nfiles \in 0 .. MaxFiles
  /\ is_open \in [Dirs -> BOOLEAN]
  /\ pending_deletes \in [Dirs -> SUBSET Names]
  /\ next_temp_file_counter \in [Dirs -> Counters]
  /\ pc \in [Dirs -> PC]
  /\ cur \in [Dirs -> Names]
  /\ todo \in [Dirs -> SUBSET Names]
  /\ resume \in [Dirs -> {"idle", "probe"}]
  /\ outs \in [Dirs -> SUBSET (1 .. nfiles)]
  /\ ins \in [Dirs -> SUBSET (1 .. nfiles)]
  /\ deleted \in [Dirs -> SUBSET (1 .. nfiles)]

AnyName == CHOOSE n \in Names : TRUE   \* cur when no system call is pending

Init ==
  /\ here = FALSE
  /\ files = [n \in Names |-> NoFile]
  /\ nfiles = 0
  /\ is_open = [d \in Dirs |-> FALSE]
  /\ pending_deletes = [d \in Dirs |-> {}]
  /\ next_temp_file_counter = [d \in Dirs |-> 0]
  /\ pc = [d \in Dirs |-> "none"]
  /\ cur = [d \in Dirs |-> AnyName]
  /\ todo = [d \in Dirs |-> {}]
  /\ resume = [d \in Dirs |-> "idle"]
  /\ outs = [d \in Dirs |-> {}]
  /\ ins = [d \in Dirs |-> {}]
  /\ deleted = [d \in Dirs |-> {}]

--------------------------------------------------------------------------------
(* Operations of the file system, as the code calls them. *)

Exists(n) == files[n] # NoFile

(* A new file linked as n, while there is room for one. *)
Link(n) ==
  /\ ~Exists(n)
  /\ nfiles < MaxFiles
  /\ nfiles' = nfiles + 1
  /\ files' = [files EXCEPT ![n] = nfiles + 1]

(* Mutant: open without O_EXCL, an existing file is opened again. *)
OpenShared(d, n) ==
  \/ /\ Link(n)
     /\ outs' = [outs EXCEPT ![d] = @ \cup {nfiles + 1}]
  \/ /\ Exists(n)
     /\ outs' = [outs EXCEPT ![d] = @ \cup {files[n]}]
     /\ UNCHANGED <<files, nfiles>>
  \/ /\ ~Exists(n) /\ nfiles = MaxFiles
     /\ UNCHANGED <<files, nfiles, outs>>

(* open(O_CREAT | O_WRONLY | O_EXCL) in FileIndexOutput's constructor. *)
OpenExclusive(d, n) ==
  \/ /\ Link(n)
     /\ outs' = [outs EXCEPT ![d] = @ \cup {nfiles + 1}]
  \/ /\ Exists(n) \/ nfiles = MaxFiles    \* EEXIST, ENOSPC: the output throws
     /\ UNCHANGED <<files, nfiles, outs>>

--------------------------------------------------------------------------------
(* The frame of an operation. *)

Goto(d, label) == pc' = [pc EXCEPT ![d] = label]

(* The call is over: it returns or throws. *)
Return(d) ==
  /\ Goto(d, "idle")
  /\ cur' = [cur EXCEPT ![d] = AnyName]
  /\ todo' = [todo EXCEPT ![d] = {}]
  /\ resume' = [resume EXCEPT ![d] = "idle"]

(* The object and what its process holds are gone; the files stay. *)
Die(d) ==
  /\ Goto(d, "none")
  /\ is_open' = [is_open EXCEPT ![d] = FALSE]
  /\ pending_deletes' = [pending_deletes EXCEPT ![d] = {}]
  /\ next_temp_file_counter' = [next_temp_file_counter EXCEPT ![d] = 0]
  /\ cur' = [cur EXCEPT ![d] = AnyName]
  /\ todo' = [todo EXCEPT ![d] = {}]
  /\ resume' = [resume EXCEPT ![d] = "idle"]
  /\ outs' = [outs EXCEPT ![d] = {}]
  /\ ins' = [ins EXCEPT ![d] = {}]
  /\ deleted' = [deleted EXCEPT ![d] = {}]

(* DeletePendingFiles over the names p, then on to the label after. *)
StartDrain(d, p, after) ==
  /\ Goto(d, "drain")
  /\ todo' = [todo EXCEPT ![d] = p]
  /\ cur' = [cur EXCEPT ![d] = AnyName]
  /\ resume' = [resume EXCEPT ![d] = after]

(* Mutant: the name is taken back, but not out of pending_deletes. *)
ForgetNothing(d, n) == UNCHANGED <<pending_deletes, deleted>>

(* pending_deletes.erase(n) by a caller who wants the name back: what the
   object owes for that name is forgotten. *)
Forget(d, n) ==
  /\ pending_deletes' = [pending_deletes EXCEPT ![d] = @ \ {n}]
  /\ deleted' = [deleted EXCEPT ![d] =
                   IF n \in pending_deletes[d] THEN @ \ {files[n]} ELSE @]

--------------------------------------------------------------------------------
(* The constructor.  IsDirectory ignores the result of stat(2): for a path
   that is not there it reads an uninitialized statbuf, and may say either. *)

Construct(d) ==
  /\ pc[d] = "none"
  /\ \/ Goto(d, "realpath")
     \/ ~here /\ Goto(d, "mkdir")
  /\ UNCHANGED <<disk, held, is_open, pending_deletes, next_temp_file_counter,
                 cur, todo, resume, deleted>>

(* mkdir(2); EEXIST when another object was faster: the constructor throws. *)
MakeDirectory(d) ==
  /\ pc[d] = "mkdir"
  /\ here' = TRUE
  /\ Goto(d, IF here THEN "none" ELSE "realpath")
  /\ UNCHANGED <<files, nfiles, held, is_open, pending_deletes,
                 next_temp_file_counter, cur, todo, resume, deleted>>

(* ToRealPath throws for a path that is not there. *)
Constructed(d) ==
  /\ pc[d] = "realpath"
  /\ Goto(d, IF here THEN "idle" ELSE "none")
  /\ is_open' = [is_open EXCEPT ![d] = here]
  /\ UNCHANGED <<disk, held, pending_deletes, next_temp_file_counter,
                 cur, todo, resume, deleted>>

(* The process is killed, or the object destroyed without Close. *)
Crash(d) ==
  /\ pc[d] # "none"
  /\ Die(d)
  /\ UNCHANGED disk

--------------------------------------------------------------------------------
(* Deletions. *)

(* DeleteFile: refused for a name that is pending already; ToRealPath, which
   stands before the try, throws for a name that is not there. *)
DeleteFile(d, n) ==
  /\ pc[d] = "idle"
  /\ n \notin pending_deletes[d]
  /\ Exists(n)
  /\ Goto(d, "delete")
  /\ cur' = [cur EXCEPT ![d] = n]
  /\ deleted' = [deleted EXCEPT ![d] = @ \cup {files[n]}]
  /\ UNCHANGED <<disk, held, is_open, pending_deletes, next_temp_file_counter,
                 todo, resume>>

(* remove(2) of cur[d]: FileUtil::Delete takes ENOENT for success. *)
Unlink(d) ==
  /\ files' = [files EXCEPT ![cur[d]] = NoFile]
  /\ pending_deletes' = [pending_deletes EXCEPT ![d] = @ \ {cur[d]}]
  /\ deleted' = [deleted EXCEPT ![d] = @ \ {files[cur[d]]}]

(* Mutant: a failed deletion is not remembered. *)
DeferNothing(d) ==
  /\ Exists(cur[d])
  /\ UNCHANGED <<pending_deletes, files, deleted>>

(* Any other errno: the deletion is deferred. *)
Defer(d) ==
  /\ Exists(cur[d])
  /\ pending_deletes' = [pending_deletes EXCEPT ![d] = @ \cup {cur[d]}]
  /\ UNCHANGED <<files, deleted>>

(* The remove(2) of a DeleteFile, then MaybeDeletePendingFiles. *)
RemoveFirst(d) ==
  /\ pc[d] = "delete"
  /\ Unlink(d) \/ Defer(d)
  /\ StartDrain(d, pending_deletes'[d], "idle")
  /\ UNCHANGED <<here, nfiles, held, is_open, next_temp_file_counter>>

(* The next name of the range-for in DeletePendingFiles. ToRealPath throws
   out of the whole operation when the file has gone. *)
Drain(d) ==
  /\ pc[d] = "drain"
  /\ \E n \in todo[d] :
       IF Exists(n)
       THEN /\ Goto(d, "retry")
            /\ cur' = [cur EXCEPT ![d] = n]
            /\ todo' = [todo EXCEPT ![d] = @ \ {n}]
            /\ UNCHANGED resume
       ELSE Return(d)
  /\ UNCHANGED <<disk, held, is_open, pending_deletes, next_temp_file_counter,
                 deleted>>

DrainEnd(d) ==
  /\ pc[d] = "drain"
  /\ todo[d] = {}
  /\ Goto(d, resume[d])
  /\ resume' = [resume EXCEPT ![d] = "idle"]
  /\ UNCHANGED <<disk, held, is_open, pending_deletes, next_temp_file_counter,
                 cur, todo, deleted>>

(* The remove(2) of a retry.  Success erases the very element the range-for
   stands on; going on from it is undefined: the loop may visit the names
   left, may end, or the process may die (RetryDies). *)
RetrySucceeds(d) ==
  /\ pc[d] = "retry"
  /\ Unlink(d)
  /\ \E left \in {todo[d], {}} : StartDrain(d, left, resume[d])
  /\ UNCHANGED <<here, nfiles, held, is_open, next_temp_file_counter>>

RetryFails(d) ==
  /\ pc[d] = "retry"
  /\ Defer(d)
  /\ StartDrain(d, todo[d], resume[d])
  /\ UNCHANGED <<here, nfiles, held, is_open, next_temp_file_counter>>

RetryDies(d) ==
  /\ pc[d] = "retry"
  /\ files' = [files EXCEPT ![cur[d]] = NoFile]
  /\ Die(d)
  /\ UNCHANGED <<here, nfiles>>

CheckPendingDeletions(d) ==
  /\ pc[d] = "idle"
  /\ pending_deletes[d] # {}
  /\ StartDrain(d, pending_deletes[d], "idle")
  /\ UNCHANGED <<disk, held, is_open, pending_deletes, next_temp_file_counter,
                 deleted>>

Close(d) ==
  /\ pc[d] = "idle"
  /\ is_open' = [is_open EXCEPT ![d] = FALSE]
  /\ StartDrain(d, pending_deletes[d], "idle")
  /\ UNCHANGED <<disk, held, pending_deletes, next_temp_file_counter, deleted>>

--------------------------------------------------------------------------------
(* Creating and renaming. *)

(* CreateOutput forgets a pending delete of the name before it knows whether
   the open succeeds. *)
CreateOutput(d, n) ==
  /\ pc[d] = "idle"
  /\ is_open[d]
  /\ Forget(d, n)
  /\ OpenExclusive(d, n)
  /\ UNCHANGED <<here, ins, is_open, next_temp_file_counter, frame>>

CreateTempOutput(d) ==
  /\ pc[d] = "idle"
  /\ is_open[d]
  /\ StartDrain(d, pending_deletes[d], "probe")
  /\ UNCHANGED <<disk, held, is_open, pending_deletes, next_temp_file_counter,
                 deleted>>

Taken(d, n) == n \in pending_deletes[d] \/ Exists(n)

(* Mutant: a taken name does not advance the counter. *)
ProbeAgain(d) ==
  LET name == TempName(next_temp_file_counter[d])
      free == ~Taken(d, name)
  IN
  /\ pc[d] = "probe"
  /\ Goto(d, IF free THEN "create" ELSE "probe")
  /\ cur' = [cur EXCEPT ![d] = IF free THEN name ELSE @]
  /\ UNCHANGED <<disk, held, is_open, pending_deletes, next_temp_file_counter,
                 todo, resume, deleted>>

(* One turn of the do-while: a pending name takes the `continue`, after which
   the condition looks at the directory itself and loops. *)
Probe(d) ==
  LET name == TempName(next_temp_file_counter[d])
      free == ~Taken(d, name)
  IN
  /\ pc[d] = "probe"
  /\ next_temp_file_counter' =
       [next_temp_file_counter EXCEPT ![d] = (@ + 1) % TempWidth]
  /\ Goto(d, IF free THEN "create" ELSE "probe")
  /\ cur' = [cur EXCEPT ![d] = IF free THEN name ELSE @]
  /\ UNCHANGED <<disk, held, is_open, pending_deletes, todo, resume, deleted>>

CreateTemp(d) ==
  /\ pc[d] = "create"
  /\ OpenExclusive(d, cur[d])
  /\ Return(d)
  /\ UNCHANGED <<here, ins, is_open, pending_deletes, next_temp_file_counter,
                 deleted>>

(* Rename forgets a pending delete of the destination first, too. *)
Rename(d, source, dest) ==
  /\ pc[d] = "idle"
  /\ is_open[d]
  /\ source \notin pending_deletes[d]
  /\ Forget(d, dest)
  /\ \/ /\ Exists(source)
        /\ files' = [files EXCEPT ![source] = NoFile, ![dest] = files[source]]
        /\ StartDrain(d, pending_deletes'[d], "idle")
     \/ UNCHANGED <<files, frame>>       \* rename(2) fails: IOException
  /\ UNCHANGED <<here, nfiles, held, is_open, next_temp_file_counter>>

--------------------------------------------------------------------------------
(* Syncing. FileUtil::Fsync opens with O_CREAT. *)

Sync(d, names) ==
  /\ pc[d] = "idle"
  /\ is_open[d]
  /\ Goto(d, "fsync")
  /\ todo' = [todo EXCEPT ![d] = names]
  /\ UNCHANGED <<disk, held, is_open, pending_deletes, next_temp_file_counter,
                 cur, resume, deleted>>

FsyncOne(d) ==
  /\ pc[d] = "fsync"
  /\ \E n \in todo[d] :
       \/ /\ Link(n) \/ (Exists(n) /\ UNCHANGED <<files, nfiles>>)
          /\ todo' = [todo EXCEPT ![d] = @ \ {n}]
          /\ UNCHANGED <<pc, cur, resume>>
       \/ /\ Link(n) \/ UNCHANGED <<files, nfiles>>
          /\ Return(d)                  \* open, fsync or close fails
  /\ UNCHANGED <<here, held, is_open, pending_deletes, next_temp_file_counter,
                 deleted>>

SyncEnd(d) ==
  /\ pc[d] = "fsync"
  /\ todo[d] = {}
  /\ StartDrain(d, pending_deletes[d], "idle")
  /\ UNCHANGED <<disk, held, is_open, pending_deletes, next_temp_file_counter,
                 deleted>>

--------------------------------------------------------------------------------
(* Reading: MMapDirectory::OpenInput. *)

(* Mutant: without EnsureCanRead. *)
OpenInputUnchecked(d, n) ==
  /\ pc[d] = "idle"
  /\ is_open[d]
  /\ Exists(n)
  /\ Goto(d, "open")
  /\ cur' = [cur EXCEPT ![d] = n]
  /\ UNCHANGED <<disk, held, is_open, pending_deletes, next_temp_file_counter,
                 todo, resume, deleted>>

OpenInput(d, n) ==
  /\ pc[d] = "idle"
  /\ is_open[d]
  /\ n \notin pending_deletes[d]         \* EnsureCanRead
  /\ Exists(n)                           \* else ToRealPath throws
  /\ Goto(d, "open")
  /\ cur' = [cur EXCEPT ![d] = n]
  /\ UNCHANGED <<disk, held, is_open, pending_deletes, next_temp_file_counter,
                 todo, resume, deleted>>

(* open, fstat, mmap, close: the file may have gone since; an empty file
   cannot be mapped. *)
MapInput(d) ==
  /\ pc[d] = "open"
  /\ \/ Exists(cur[d]) /\ ins' = [ins EXCEPT ![d] = @ \cup {files[cur[d]]}]
     \/ UNCHANGED ins
  /\ Return(d)
  /\ UNCHANGED <<disk, outs, is_open, pending_deletes, next_temp_file_counter,
                 deleted>>

CloseOutput(d) ==
  /\ pc[d] = "idle"
  /\ \E f \in outs[d] : outs' = [outs EXCEPT ![d] = @ \ {f}]
  /\ UNCHANGED <<disk, ins, is_open, pending_deletes, next_temp_file_counter,
                 frame, deleted>>

CloseInput(d) ==
  /\ pc[d] = "idle"
  /\ \E f \in ins[d] : ins' = [ins EXCEPT ![d] = @ \ {f}]
  /\ UNCHANGED <<disk, outs, is_open, pending_deletes, next_temp_file_counter,
                 frame, deleted>>

--------------------------------------------------------------------------------
Call(d) ==
  \/ Construct(d)
  \/ \E n \in Names : DeleteFile(d, n)
  \/ CheckPendingDeletions(d)
  \/ Close(d)
  \/ \E n \in Names : CreateOutput(d, n)
  \/ CreateTempOutput(d)
  \/ \E s, t \in Names : Rename(d, s, t)
  \/ \E S \in SUBSET Names : Cardinality(S) \in 1 .. MaxSync /\ Sync(d, S)
  \/ \E n \in Names : OpenInput(d, n)
  \/ CloseOutput(d)
  \/ CloseInput(d)

(* The rest of a call that has begun: the thread is running it. *)
Continue(d) ==
  \/ MakeDirectory(d)
  \/ Constructed(d)
  \/ RemoveFirst(d)
  \/ Drain(d)
  \/ DrainEnd(d)
  \/ RetrySucceeds(d)
  \/ RetryFails(d)
  \/ RetryDies(d)
  \/ Probe(d)
  \/ CreateTemp(d)
  \/ FsyncOne(d)
  \/ SyncEnd(d)
  \/ MapInput(d)

Next == \E d \in Dirs : Call(d) \/ Continue(d) \/ Crash(d)

Spec == Init /\ [][Next]_vars

(* A thread that has entered a call keeps running; callers owe nothing. *)
FairSpec == Spec /\ \A d \in Dirs : WF_vars(Continue(d))

--------------------------------------------------------------------------------
(* Properties of any number of objects over one path. *)

(* No file is ever open for writing in two directory objects, whatever they
   create, rename or delete between the Exists of CreateTempOutput and the
   open that follows it. *)
SingleWriter ==
  \A d, e \in Dirs : d # e => outs[d] \cap outs[e] = {}

(* A call always returns or throws: DeletePendingFiles ends although it changes
   the set it walks, and CreateTempOutput finds a name although it competes with
   other objects for them, skips those that are pending and counts modulo
   TempWidth.  Known not to return: a CreateTempOutput that finds each of the
   names taken, again and again, because all are or because others always take
   the next one: one name that is free for good is enough to end it. *)
CallsReturn ==
  \A d \in Dirs :
    \/ []<>(pc[d] \in {"idle", "none"})
    \/ /\ <>[](pc[d] = "probe")
       /\ \A k \in Counters : []<>Taken(d, TempName(k))

--------------------------------------------------------------------------------
(* Properties of an object that has the path for itself. *)

(* A file whose deletion was accepted is never lost sight of: as long as it is
   linked, its name is pending, unless the caller took the name back. *)
NoForgottenDelete ==
  \A d \in Dirs, n \in Names :
    files[n] \in deleted[d] =>
      n \in pending_deletes[d] \/ (pc[d] = "delete" /\ cur[d] = n)

(* And what the retries remove is never another file that got the name later,
   nor is a pending name ever without its file (ToRealPath would throw). *)
RetriesHitOwedFiles ==
  \A d \in Dirs, n \in Names :
    n \in pending_deletes[d] \/ (pc[d] \in {"delete", "retry"} /\ cur[d] = n) =>
      files[n] \in deleted[d]

(* The inductive invariant behind both: a loop over pending names only visits
   names that are still pending, the name under retry is not visited twice, no
   file has two names, and a file about to be mapped is not owed. *)
SoleInv ==
  /\ NoForgottenDelete
  /\ RetriesHitOwedFiles
  /\ \A n, m \in Names : files[n] = files[m] /\ Exists(n) => n = m
  /\ \A d \in Dirs :
       /\ pc[d] \in {"drain", "retry"} => todo[d] \subseteq pending_deletes[d]
       /\ pc[d] = "retry" => cur[d] \notin todo[d]
       /\ pc[d] = "open" => cur[d] \notin pending_deletes[d]

(* A deleted file that the system still holds is gone for the object's
   callers: no input ever maps it. *)
DeletedStaysUnread ==
  [][\A d \in Dirs : (ins'[d] \ ins[d]) \cap deleted[d] = {}]_vars

(* All of it together: an owner of the path sees every name keep its file until
   a rename or an accepted deletion takes it, a deletion that had to wait carried
   out on that very file or taken back with its name, and reads nothing that is
   owed, through the loops of DeletePendingFiles and crashes between any two
   system calls. *)
Promise == INSTANCE DeferredDeletes WITH
  made <- nfiles,
  owed <- UNION {deleted[d] : d \in Dirs},
  read <- UNION {ins[d] : d \in Dirs}
KeepsDeletePromise == Promise!Spec

================================================================================
