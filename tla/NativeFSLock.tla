------------------------------ MODULE NativeFSLock ------------------------------
(***************************************************************************)
(* Store/Lock.cpp: NativeFSLockFactory and NativeFSLock.  Threads of       *)
(* several processes obtain and close locks of one name in one directory.  *)
(* An action is one system call, or one step under close_mutex.            *)
(*                                                                         *)
(* flock(2) ties a lock to an open file description; nothing here dups or  *)
(* inherits a descriptor (O_CLOEXEC), so a description is a descriptor of  *)
(* a process.  A descriptor that is closed may be handed out again to any  *)
(* thread of the process at once: a second close of it would hit another   *)
(* owner.                                                                  *)
(*                                                                         *)
(* Left out: mkdir, which changes nothing in the directory an FSDirectory  *)
(* has made, and stat, whose result (uninitialized when the file has gone) *)
(* is stored and never read; EnsureValid and ClearLockHeld, which are      *)
(* empty.                                                                  *)
(***************************************************************************)
EXTENDS Naturals, FiniteSets

CONSTANTS
  Threads, Procs,
  Proc,       (* the process of each thread                                 *)
  FDs,        (* descriptor numbers, in each process                        *)
  Locks,      (* NativeFSLock objects: bounds how many exist at once        *)
  MaxFiles,   (* bounds how often the lock file is created                  *)
  MayDelete,  (* whether somebody deletes the lock file                     *)
  NoDescr, NoLock, NoThread

Descr == Procs \X FDs
Of(p) == {p} \X FDs   \* the descriptors of a process
NoFile == 0

ASSUME LockAssumption ==
  /\ Proc \in [Threads -> Procs]
  /\ MaxFiles \in Nat
  /\ MayDelete \in BOOLEAN
  /\ NoDescr \notin Descr
  /\ NoLock \notin Locks
  /\ NoThread \notin Threads

VARIABLES
  (* The system. *)
  entry,    \* the file the lock's name is linked to, or NoFile
  nfiles,   \* lock files created so far: they are numbered 1, 2, ...
  open,     \* descriptor -> the file it is open on, or NoFile
  flocked,  \* file -> the descriptor that holds its flock, or NoDescr
  (* Threads. *)
  pc,
  fd,       \* lock_file_fd, the local variable of ObtainFSLock
  at,       \* the lock whose Close the thread is in
  (* NativeFSLock objects. *)
  obj,      \* "none", "live" or "closed" (the field closed)
  descr,    \* the field fd
  mutex,    \* the thread that owns close_mutex
  (* History: the file a lock was granted for. *)
  file

kernel == <<entry, nfiles, open, flocked>>
object == <<obj, descr, mutex, file>>
vars == <<entry, nfiles, open, flocked, pc, fd, at, obj, descr, mutex, file>>

Obtaining == {"create", "made", "realpath", "open", "flock", "giveup"}
Closing == {"enter", "unlock", "close", "mark"}

TypeOK ==
  /\ entry \in 0 .. nfiles
  /\ nfiles \in 0 .. MaxFiles
  /\ open \in [Descr -> 0 .. nfiles]
  /\ flocked \in [1 .. MaxFiles -> Descr \cup {NoDescr}]
  /\ pc \in [Threads -> {"idle"} \cup Obtaining \cup Closing]
  /\ fd \in [Threads -> Descr \cup {NoDescr}]
  /\ at \in [Threads -> Locks \cup {NoLock}]
  /\ obj \in [Locks -> {"none", "live", "closed"}]
  /\ descr \in [Locks -> Descr \cup {NoDescr}]
  /\ mutex \in [Locks -> Threads \cup {NoThread}]
  /\ file \in [Locks -> 0 .. nfiles]

Init ==
  /\ entry = NoFile
  /\ nfiles = 0
  /\ open = [d \in Descr |-> NoFile]
  /\ flocked = [f \in 1 .. MaxFiles |-> NoDescr]
  /\ pc = [t \in Threads |-> "idle"]
  /\ fd = [t \in Threads |-> NoDescr]
  /\ at = [t \in Threads |-> NoLock]
  /\ obj = [l \in Locks |-> "none"]
  /\ descr = [l \in Locks |-> NoDescr]
  /\ mutex = [l \in Locks |-> NoThread]
  /\ file = [l \in Locks |-> NoFile]

--------------------------------------------------------------------------------
(* System calls. *)

Goto(t, label) == pc' = [pc EXCEPT ![t] = label]

(* open(2) of the file f by t, into any descriptor its process has free. *)
OpenFd(t, f) ==
  \E d \in Of(Proc[t]) :
    /\ open[d] = NoFile
    /\ open' = [open EXCEPT ![d] = f]
    /\ fd' = [fd EXCEPT ![t] = d]

(* Without the flock that a set of descriptors holds. *)
Unflocked(D) == [f \in 1 .. MaxFiles |-> IF flocked[f] \in D THEN NoDescr ELSE flocked[f]]

(* Mutant: locks as fcntl(2) would make them, gone with the first close of any
   descriptor of the process on the file. *)
CloseFdPosix(d) ==
  /\ open' = [e \in Descr |-> IF e = d THEN NoFile ELSE open[e]]
  /\ flocked' = [f \in 1 .. MaxFiles |->
       IF d # NoDescr /\ open[d] = f /\ \E p \in Procs : {d, flocked[f]} \subseteq Of(p)
       THEN NoDescr ELSE flocked[f]]

(* close(2): gives up the flock of this descriptor, and of no other one. *)
CloseFd(d) ==
  /\ open' = [e \in Descr |-> IF e = d THEN NoFile ELSE open[e]]
  /\ flocked' = Unflocked({d})

--------------------------------------------------------------------------------
(* ObtainFSLock. *)

(* There is an object for every lock that may be granted: a bound. *)
Room ==
  Cardinality({l \in Locks : obj[l] # "none"})
    + Cardinality({t \in Threads : pc[t] \in Obtaining}) < Cardinality(Locks)

ObtainLock(t) ==
  /\ pc[t] = "idle"
  /\ Room
  /\ Goto(t, "create")
  /\ UNCHANGED <<kernel, fd, at, object>>

(* open(O_CREAT | O_EXCL): whether it fails does not matter. *)
Create(t) ==
  /\ pc[t] = "create"
  /\ \/ /\ entry = NoFile
        /\ nfiles < MaxFiles
        /\ nfiles' = nfiles + 1
        /\ entry' = nfiles + 1
        /\ OpenFd(t, nfiles + 1)
        /\ Goto(t, "made")
     \/ /\ Goto(t, "realpath")
        /\ UNCHANGED <<entry, nfiles, open, fd>>
  /\ UNCHANGED <<flocked, at, object>>

CloseCreated(t) ==
  /\ pc[t] = "made"
  /\ CloseFd(fd[t])
  /\ fd' = [fd EXCEPT ![t] = NoDescr]
  /\ Goto(t, "realpath")
  /\ UNCHANGED <<entry, nfiles, at, object>>

(* realpath(3) gives NULL for a file that is not there, and the constructor
   of std::string throws. *)
RealPath(t) ==
  /\ pc[t] = "realpath"
  /\ Goto(t, IF entry = NoFile THEN "idle" ELSE "open")
  /\ UNCHANGED <<kernel, fd, at, object>>

(* open(O_RDONLY): when it fails, -1 goes to flock. *)
Open(t) ==
  /\ pc[t] = "open"
  /\ Goto(t, "flock")
  /\ \/ entry # NoFile /\ OpenFd(t, entry)
     \/ UNCHANGED <<open, fd>>
  /\ UNCHANGED <<entry, nfiles, flocked, at, object>>

CanLock(t) == fd[t] # NoDescr /\ flocked[open[fd[t]]] = NoDescr

(* Mutant: flock(LOCK_SH), which other shared locks do not hinder. *)
GrantShared(t, l) ==
  /\ pc[t] = "flock"
  /\ fd[t] # NoDescr
  /\ obj[l] = "none"
  /\ flocked' = [flocked EXCEPT ![open[fd[t]]] = fd[t]]
  /\ obj' = [obj EXCEPT ![l] = "live"]
  /\ descr' = [descr EXCEPT ![l] = fd[t]]
  /\ file' = [file EXCEPT ![l] = open[fd[t]]]
  /\ fd' = [fd EXCEPT ![t] = NoDescr]
  /\ Goto(t, "idle")
  /\ UNCHANGED <<entry, nfiles, open, at, mutex>>

(* flock(LOCK_EX | LOCK_NB) succeeds, and the lock is returned. *)
Grant(t, l) ==
  /\ pc[t] = "flock"
  /\ CanLock(t)
  /\ obj[l] = "none"
  /\ flocked' = [flocked EXCEPT ![open[fd[t]]] = fd[t]]
  /\ obj' = [obj EXCEPT ![l] = "live"]
  /\ descr' = [descr EXCEPT ![l] = fd[t]]
  /\ file' = [file EXCEPT ![l] = open[fd[t]]]
  /\ fd' = [fd EXCEPT ![t] = NoDescr]
  /\ Goto(t, "idle")
  /\ UNCHANGED <<entry, nfiles, open, at, mutex>>

(* It fails: somebody holds the lock, the descriptor is -1, or the system cannot
   lock (ENOLCK, EINTR). *)
Refuse(t) ==
  /\ pc[t] = "flock"
  /\ Goto(t, "giveup")
  /\ UNCHANGED <<kernel, fd, at, object>>

(* Mutant: the exception is thrown without the close. *)
GiveUpOpen(t) ==
  /\ pc[t] = "giveup"
  /\ fd' = [fd EXCEPT ![t] = NoDescr]
  /\ Goto(t, "idle")
  /\ UNCHANGED <<kernel, at, object>>

(* close, and "Lock held by another program" is thrown. *)
GiveUp(t) ==
  /\ pc[t] = "giveup"
  /\ CloseFd(fd[t])
  /\ fd' = [fd EXCEPT ![t] = NoDescr]
  /\ Goto(t, "idle")
  /\ UNCHANGED <<entry, nfiles, at, object>>

--------------------------------------------------------------------------------
(* NativeFSLock::Close, by any thread of the process, several at once, before
   or in the destructor. *)

Close(t, l) ==
  /\ pc[t] = "idle"
  /\ obj[l] # "none"
  /\ descr[l] \in Of(Proc[t])
  /\ at' = [at EXCEPT ![t] = l]
  /\ Goto(t, "enter")
  /\ UNCHANGED <<kernel, fd, object>>

(* Mutant: the early return for a closed lock keeps close_mutex. *)
EnterForGood(t) ==
  /\ pc[t] = "enter"
  /\ mutex[at[t]] = NoThread
  /\ mutex' = [mutex EXCEPT ![at[t]] = t]
  /\ \/ /\ obj[at[t]] = "closed"
        /\ Goto(t, "idle")
        /\ at' = [at EXCEPT ![t] = NoLock]
     \/ /\ obj[at[t]] # "closed"
        /\ Goto(t, "unlock")
        /\ UNCHANGED at
  /\ UNCHANGED <<kernel, fd, obj, descr, file>>

(* The guard on close_mutex, and the test of closed under it. *)
Enter(t) ==
  /\ pc[t] = "enter"
  /\ mutex[at[t]] = NoThread
  /\ \/ /\ obj[at[t]] = "closed"
        /\ Goto(t, "idle")
        /\ at' = [at EXCEPT ![t] = NoLock]
        /\ UNCHANGED mutex
     \/ /\ obj[at[t]] # "closed"
        /\ mutex' = [mutex EXCEPT ![at[t]] = t]
        /\ Goto(t, "unlock")
        /\ UNCHANGED at
  /\ UNCHANGED <<kernel, fd, obj, descr, file>>

Unlock(t) ==   \* flock(fd, LOCK_UN)
  /\ pc[t] = "unlock"
  /\ flocked' = Unflocked({descr[at[t]]})
  /\ Goto(t, "close")
  /\ UNCHANGED <<entry, nfiles, open, fd, at, object>>

CloseFile(t) ==
  /\ pc[t] = "close"
  /\ CloseFd(descr[at[t]])
  /\ Goto(t, "mark")
  /\ UNCHANGED <<entry, nfiles, fd, at, object>>

Mark(t) ==
  /\ pc[t] = "mark"
  /\ obj' = [obj EXCEPT ![at[t]] = "closed"]
  /\ mutex' = [mutex EXCEPT ![at[t]] = NoThread]
  /\ at' = [at EXCEPT ![t] = NoLock]
  /\ Goto(t, "idle")
  /\ UNCHANGED <<kernel, fd, descr, file>>

(* The object's memory is gone once its last Close, the destructor's, is. *)
Free(l) ==
  /\ obj[l] = "closed"
  /\ \A t \in Threads : at[t] # l
  /\ obj' = [obj EXCEPT ![l] = "none"]
  /\ descr' = [descr EXCEPT ![l] = NoDescr]
  /\ file' = [file EXCEPT ![l] = NoFile]
  /\ UNCHANGED <<kernel, pc, fd, at, mutex>>

--------------------------------------------------------------------------------
(* The environment. *)

(* A process dies: the system closes its descriptors, its objects are gone. *)
Crash(p) ==
  LET lost == { l \in Locks : descr[l] \in Of(p) } IN
  /\ open' = [d \in Descr |-> IF d \in Of(p) THEN NoFile ELSE open[d]]
  /\ flocked' = Unflocked(Of(p))
  /\ pc' = [t \in Threads |-> IF Proc[t] = p THEN "idle" ELSE pc[t]]
  /\ fd' = [t \in Threads |-> IF Proc[t] = p THEN NoDescr ELSE fd[t]]
  /\ at' = [t \in Threads |-> IF Proc[t] = p THEN NoLock ELSE at[t]]
  /\ obj' = [l \in Locks |-> IF l \in lost THEN "none" ELSE obj[l]]
  /\ descr' = [l \in Locks |-> IF l \in lost THEN NoDescr ELSE descr[l]]
  /\ mutex' = [l \in Locks |-> IF l \in lost THEN NoThread ELSE mutex[l]]
  /\ file' = [l \in Locks |-> IF l \in lost THEN NoFile ELSE file[l]]
  /\ UNCHANGED <<entry, nfiles>>

(* DeleteFile of the lock's name, through any directory object. *)
DeleteLockFile ==
  /\ MayDelete
  /\ entry' = NoFile
  /\ UNCHANGED <<nfiles, open, flocked, pc, fd, at, object>>

Step(t) ==   \* the rest of a call that has begun
  \/ Create(t)
  \/ CloseCreated(t)
  \/ RealPath(t)
  \/ Open(t)
  \/ \E l \in Locks : Grant(t, l)
  \/ Refuse(t)
  \/ GiveUp(t)
  \/ Enter(t)
  \/ Unlock(t)
  \/ CloseFile(t)
  \/ Mark(t)

Next ==
  \/ \E t \in Threads : ObtainLock(t) \/ (\E l \in Locks : Close(t, l)) \/ Step(t)
  \/ \E l \in Locks : Free(l)
  \/ \E p \in Procs : Crash(p)
  \/ DeleteLockFile

Spec == Init /\ [][Next]_vars

(* A thread that has entered a call keeps running. *)
FairSpec == Spec /\ \A t \in Threads : WF_vars(Step(t))

--------------------------------------------------------------------------------
(* Properties. *)

(* A lock is its caller's from the return of ObtainLock until a Close gets to
   the flock(LOCK_UN); its descriptor is open until the close(2) after that. *)
Owned(l) ==
  /\ obj[l] = "live"
  /\ mutex[l] = NoThread \/ pc[mutex[l]] = "unlock"

HasFile(l) ==
  /\ obj[l] = "live"
  /\ mutex[l] = NoThread \/ pc[mutex[l]] \in {"unlock", "close"}

(* Two callers never own a lock at the same time, in one process or in two, as
   long as there has been one lock file only, which is so for ever if nobody
   deletes it (FilesInv); a lock whose owner died is not in the way. *)
SingleOwner ==
  nfiles <= 1 => \A l, m \in Locks : Owned(l) /\ Owned(m) => l = m

(* As long as a lock is owned its descriptor is open on its file and holds the
   flock: no Close, no failed ObtainLock and no reuse of a descriptor number
   takes it away. *)
OwnerHoldsFlock ==
  \A l \in Locks : Owned(l) => open[descr[l]] = file[l] /\ flocked[file[l]] = descr[l]

(* Every open descriptor has a user that will close it, and every flock that
   is taken an owner: neither failures nor deaths leave anything behind. *)
NothingLeaks ==
  /\ \A d \in Descr : open[d] # NoFile =>
       \/ \E t \in Threads : fd[t] = d
       \/ \E l \in Locks : HasFile(l) /\ descr[l] = d
  /\ \A f \in 1 .. MaxFiles : flocked[f] # NoDescr =>
       \E l \in Locks : Owned(l) /\ file[l] = f /\ descr[l] = flocked[f]

(* The inductive invariant behind them: every descriptor in use has one user, a
   thread in ObtainFSLock or a lock object, of its own process; a lock object
   is alive as long as a thread is in its Close, and only the owner of
   close_mutex is past the test of closed. *)
ThreadsInv ==
  \A t \in Threads :
    /\ fd[t] # NoDescr => /\ pc[t] \in {"made", "flock", "giveup"}
                         /\ open[fd[t]] # NoFile
                         /\ fd[t] \in Of(Proc[t])
    /\ pc[t] = "made" => fd[t] # NoDescr
    /\ pc[t] \in Closing <=> at[t] # NoLock
    /\ at[t] # NoLock => obj[at[t]] # "none" /\ descr[at[t]] \in Of(Proc[t])
    /\ pc[t] \in {"unlock", "close", "mark"} => mutex[at[t]] = t

LocksInv ==
  \A l \in Locks :
    /\ obj[l] = "none" <=> descr[l] = NoDescr
    /\ mutex[l] # NoThread =>
         /\ obj[l] = "live"
         /\ at[mutex[l]] = l
         /\ pc[mutex[l]] \in {"unlock", "close", "mark"}
    /\ HasFile(l) => file[l] # NoFile /\ open[descr[l]] = file[l]

OneUser ==
  /\ \A t, u \in Threads : fd[t] = fd[u] /\ fd[t] # NoDescr => t = u
  /\ \A l, m \in Locks : HasFile(l) /\ HasFile(m) /\ descr[l] = descr[m] => l = m
  /\ \A t \in Threads, l \in Locks : HasFile(l) => fd[t] # descr[l]

FilesInv ==
  ~MayDelete => nfiles = 0 \/ (nfiles = 1 /\ entry = 1)

LockInv ==
  /\ TypeOK
  /\ FilesInv
  /\ ThreadsInv
  /\ LocksInv
  /\ OneUser
  /\ OwnerHoldsFlock
  /\ NothingLeaks

(* ObtainLock and Close return or throw: LOCK_NB does not wait, and who waits
   for close_mutex gets it. *)
CallsReturn == \A t \in Threads : pc[t] # "idle" ~> pc[t] = "idle"

FL == INSTANCE FileLocks WITH
  Files <- 1 .. MaxFiles,
  holding <- { <<l, file[l]>> : l \in {m \in Locks : Owned(m)} }

(* Per lock file, deleted or not, the locks are exclusive. *)
ImplementsFileLocks == FL!Spec

================================================================================
