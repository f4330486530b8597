-------------------------- MODULE NativeFSLockProofs --------------------------
(***************************************************************************)
(* Theorems about NativeFSLock for any number of processes, threads and    *)
(* locks.                                                                  *)
(***************************************************************************)
EXTENDS NativeFSLock, TLAPS

(* What the proofs use of descriptors: they belong to one process each. *)
LEMMA DescrFacts ==
  /\ \A t \in Threads : Proc[t] \in Procs
  /\ \A p \in Procs : Of(p) \subseteq Descr
  /\ \A p, q \in Procs : \A d \in Of(p) : d \in Of(q) => p = q
  /\ NoDescr \notin Descr
<1>1. \A p \in Procs : Of(p) \subseteq Descr
  BY DEF Of, Descr
<1>2. \A p, q \in Procs : \A d \in Of(p) : d \in Of(q) => p = q
  BY DEF Of
<1>3. QED
  BY <1>1, <1>2, LockAssumption

LEMMA InitInv == Init => LockInv
<1> SUFFICES ASSUME Init PROVE LockInv
  OBVIOUS
<1> USE DescrFacts, LockAssumption DEF Init
<1>1. TypeOK
  BY DEF TypeOK, NoFile
<1>2. FilesInv
  BY DEF FilesInv
<1>3. ThreadsInv
  BY DEF ThreadsInv, Closing
<1>4. LocksInv
  BY DEF LocksInv, HasFile
<1>5. OneUser
  BY DEF OneUser, HasFile
<1>6. OwnerHoldsFlock
  BY DEF OwnerHoldsFlock, Owned
<1>7. NothingLeaks
  BY DEF NothingLeaks
<1>8. QED
  BY <1>1, <1>2, <1>3, <1>4, <1>5, <1>6, <1>7 DEF LockInv

(* The parts of the invariant that speak of the kernel depend on a lock only
   through these. *)
LEMMA TypeStep == TypeOK /\ [Next]_vars => TypeOK'
<1> SUFFICES ASSUME TypeOK, [Next]_vars PROVE TypeOK'
  OBVIOUS
<1> USE DescrFacts, LockAssumption DEF TypeOK, Goto, NoFile, kernel, object
<1>1. ASSUME NEW t \in Threads, ObtainLock(t) PROVE TypeOK'
  BY <1>1 DEF ObtainLock, Obtaining
<1>2. ASSUME NEW t \in Threads, NEW l \in Locks, Close(t, l) PROVE TypeOK'
  BY <1>2 DEF Close, Closing
<1>3. ASSUME NEW t \in Threads, Create(t) PROVE TypeOK'
  <2>1. CASE /\ nfiles < MaxFiles /\ nfiles' = nfiles + 1 /\ entry' = nfiles + 1
             /\ OpenFd(t, nfiles + 1) /\ Goto(t, "made")
    <3>1. PICK d \in Descr : /\ open' = [open EXCEPT ![d] = nfiles + 1]
                             /\ fd' = [fd EXCEPT ![t] = d]
      BY <2>1 DEF OpenFd
    <3>2. /\ entry' \in 0 .. nfiles' /\ nfiles' \in 0 .. MaxFiles
          /\ nfiles + 1 \in 0 .. nfiles'
          /\ \A f \in 0 .. nfiles : f \in 0 .. nfiles'
      BY <2>1
    <3>3. open' \in [Descr -> 0 .. nfiles'] /\ fd' \in [Threads -> Descr \cup {NoDescr}]
      BY <3>1, <3>2
    <3>4. file' \in [Locks -> 0 .. nfiles']
      BY <1>3, <3>2 DEF Create
    <3>5. pc' \in [Threads -> {"idle"} \cup Obtaining \cup Closing]
      BY <2>1 DEF Obtaining
    <3>6. QED
      BY <1>3, <3>2, <3>3, <3>4, <3>5 DEF Create
  <2>2. CASE Goto(t, "realpath") /\ UNCHANGED <<entry, nfiles, open, fd>>
    BY <1>3, <2>2 DEF Create, Obtaining
  <2>3. QED
    BY <1>3, <2>1, <2>2 DEF Create
<1>4. ASSUME NEW t \in Threads, CloseCreated(t) PROVE TypeOK'
  BY <1>4 DEF CloseCreated, CloseFd, Unflocked, Obtaining
<1>5. ASSUME NEW t \in Threads, RealPath(t) PROVE TypeOK'
  BY <1>5 DEF RealPath, Obtaining
<1>6. ASSUME NEW t \in Threads, Open(t) PROVE TypeOK'
  <2>1. CASE OpenFd(t, entry)
    <3>1. PICK d \in Descr : /\ open' = [open EXCEPT ![d] = entry]
                             /\ fd' = [fd EXCEPT ![t] = d]
      BY <2>1 DEF OpenFd
    <3>2. open' \in [Descr -> 0 .. nfiles] /\ fd' \in [Threads -> Descr \cup {NoDescr}]
      BY <3>1
    <3>3. QED
      BY <1>6, <3>2 DEF Open, Obtaining
  <2>2. CASE UNCHANGED <<open, fd>>
    BY <1>6, <2>2 DEF Open, Obtaining
  <2>3. QED
    BY <1>6, <2>1, <2>2 DEF Open
<1>7. ASSUME NEW t \in Threads, NEW l \in Locks, Grant(t, l) PROVE TypeOK'
  BY <1>7 DEF Grant, CanLock
<1>8. ASSUME NEW t \in Threads, Refuse(t) PROVE TypeOK'
  BY <1>8 DEF Refuse, Obtaining
<1>9. ASSUME NEW t \in Threads, GiveUp(t) PROVE TypeOK'
  <2>1. /\ open' \in [Descr -> 0 .. nfiles]
        /\ flocked' \in [1 .. MaxFiles -> Descr \cup {NoDescr}]
    BY <1>9 DEF GiveUp, CloseFd, Unflocked
  <2>2. QED
    BY <1>9, <2>1 DEF GiveUp
<1>10. ASSUME NEW t \in Threads, Enter(t) PROVE TypeOK'
  <2>1. pc' \in [Threads -> {"idle"} \cup Obtaining \cup Closing]
    BY <1>10 DEF Enter, Closing
  <2>2. at' \in [Threads -> Locks \cup {NoLock}]
    BY <1>10 DEF Enter
  <2>3. mutex' \in [Locks -> Threads \cup {NoThread}]
    BY <1>10 DEF Enter
  <2>4. QED
    BY <1>10, <2>1, <2>2, <2>3 DEF Enter
<1>11. ASSUME NEW t \in Threads, Unlock(t) PROVE TypeOK'
  BY <1>11 DEF Unlock, Unflocked, Closing
<1>12. ASSUME NEW t \in Threads, CloseFile(t) PROVE TypeOK'
  BY <1>12 DEF CloseFile, CloseFd, Unflocked, Closing
<1>13. ASSUME NEW t \in Threads, Mark(t) PROVE TypeOK'
  BY <1>13 DEF Mark
<1>14. ASSUME NEW l \in Locks, Free(l) PROVE TypeOK'
  BY <1>14 DEF Free
<1>15. ASSUME NEW p \in Procs, Crash(p) PROVE TypeOK'
  BY <1>15 DEF Crash, Unflocked
<1>16. CASE DeleteLockFile
  BY <1>16 DEF DeleteLockFile
<1>17. CASE UNCHANGED vars
  BY <1>17 DEF vars
<1>18. QED
  BY <1>1, <1>2, <1>3, <1>4, <1>5, <1>6, <1>7, <1>8, <1>9, <1>10, <1>11,
     <1>12, <1>13, <1>14, <1>15, <1>16, <1>17 DEF Next, Step

(* What an action has to show for NothingLeaks: whoever used a descriptor that
   stays open, or owned a flock that stays taken, does so still, or has handed
   it to a lock. *)
LEMMA LeaksStep ==
  ASSUME TypeOK, TypeOK', NothingLeaks, LocksInv,
         \A d \in Descr : open'[d] # NoFile =>
           \/ open[d] # NoFile
           \/ \E t \in Threads : fd'[t] = d,
         \A t \in Threads : fd[t] # NoDescr /\ open'[fd[t]] # NoFile =>
           \/ fd'[t] = fd[t]
           \/ \E l \in Locks : HasFile(l)' /\ descr'[l] = fd[t],
         \A l \in Locks : HasFile(l) /\ open'[descr[l]] # NoFile =>
           HasFile(l)' /\ descr'[l] = descr[l],
         \A f \in 1 .. MaxFiles : flocked'[f] # NoDescr =>
           \/ flocked'[f] = flocked[f]
           \/ \E l \in Locks :
                Owned(l)' /\ file'[l] = f /\ descr'[l] = flocked'[f],
         \A l \in Locks : Owned(l) /\ flocked'[file[l]] # NoDescr =>
           Owned(l)' /\ file'[l] = file[l] /\ descr'[l] = descr[l]
  PROVE  NothingLeaks'
<1>1. ASSUME NEW d \in Descr, open'[d] # NoFile
      PROVE  \/ \E t \in Threads : fd'[t] = d
             \/ \E l \in Locks : HasFile(l)' /\ descr'[l] = d
  <2>1. CASE open[d] # NoFile
    <3>1. \/ \E t \in Threads : fd[t] = d
          \/ \E l \in Locks : HasFile(l) /\ descr[l] = d
      BY <2>1, Zenon DEF NothingLeaks
    <3>2. CASE \E t \in Threads : fd[t] = d
      <4>1. PICK t \in Threads : fd[t] = d
        BY <3>2
      <4>2. fd[t] # NoDescr /\ open'[fd[t]] # NoFile
        BY <1>1, <4>1, DescrFacts
      <4>3. \/ fd'[t] = d
            \/ \E l \in Locks : HasFile(l)' /\ descr'[l] = d
        BY <4>1, <4>2, Zenon
      <4>4. QED
        BY <4>3, Zenon
    <3>3. CASE \E l \in Locks : HasFile(l) /\ descr[l] = d
      <4>1. PICK l \in Locks : HasFile(l) /\ descr[l] = d
        BY <3>3
      <4>2. HasFile(l)' /\ descr'[l] = d
        BY <1>1, <4>1, Zenon
      <4>3. QED
        BY <4>2, Zenon
    <3>4. QED
      BY <3>1, <3>2, <3>3, Zenon
  <2>2. QED
    BY <1>1, <2>1, Zenon
<1>2. ASSUME NEW f \in 1 .. MaxFiles, flocked'[f] # NoDescr
      PROVE  \E l \in Locks : Owned(l)' /\ file'[l] = f /\ descr'[l] = flocked'[f]
  <2>1. CASE flocked'[f] = flocked[f]
    <3>1. PICK l \in Locks : Owned(l) /\ file[l] = f /\ descr[l] = flocked[f]
      BY <1>2, <2>1, Zenon DEF NothingLeaks
    <3>2. QED
      BY <1>2, <2>1, <3>1, Zenon
  <2>2. QED
    BY <1>2, <2>1, Zenon
<1>3. QED
  BY <1>1, <1>2, Zenon DEF NothingLeaks

(* A descriptor fresh from open(2) has no user. *)
LEMMA OpenFdFresh ==
  ASSUME LockInv, NEW t \in Threads, NEW f, OpenFd(t, f)
  PROVE  \E d \in Descr :
           /\ fd' = [fd EXCEPT ![t] = d]
           /\ open' = [open EXCEPT ![d] = f]
           /\ \A u \in Threads : fd[u] # d
           /\ \A l \in Locks : HasFile(l) => descr[l] # d
<1>1. PICK d \in Of(Proc[t]) : /\ open[d] = NoFile
                              /\ open' = [open EXCEPT ![d] = f]
                              /\ fd' = [fd EXCEPT ![t] = d]
  BY DEF OpenFd
<1>2. d \in Descr /\ d # NoDescr
  BY DescrFacts
<1>3. \A u \in Threads : fd[u] # d
  BY <1>1, <1>2 DEF LockInv, ThreadsInv
<1>4. \A l \in Locks : HasFile(l) => descr[l] # d
  BY <1>1 DEF LockInv, LocksInv
<1>5. QED
  BY <1>1, <1>2, <1>3, <1>4

LEMMA ObtainLockStep ==
  ASSUME LockInv, TypeOK', NEW t \in Threads, ObtainLock(t)
  PROVE  LockInv'
<1> USE DescrFacts, LockAssumption DEF TypeOK, Goto, NoFile, kernel, object
<1>1. FilesInv'
  BY DEF LockInv, FilesInv, ObtainLock
<1>2. ThreadsInv'
  BY DEF LockInv, ThreadsInv, Closing, ObtainLock
<1>3. LocksInv'
  BY DEF LockInv, LocksInv, HasFile, ObtainLock
<1>4. OneUser'
  BY DEF LockInv, OneUser, HasFile, ObtainLock
<1>5. OwnerHoldsFlock'
  BY DEF LockInv, OwnerHoldsFlock, Owned, ObtainLock
<1>6. NothingLeaks'
  <2>1. \A e \in Descr : open'[e] # NoFile =>
          \/ open[e] # NoFile
          \/ \E u \in Threads : fd'[u] = e
    BY DEF LockInv, ObtainLock
  <2>2. \A u \in Threads : fd[u] # NoDescr /\ open'[fd[u]] # NoFile =>
          \/ fd'[u] = fd[u]
          \/ \E m \in Locks : HasFile(m)' /\ descr'[m] = fd[u]
    BY DEF LockInv, HasFile, ObtainLock
  <2>3. \A m \in Locks : HasFile(m) /\ open'[descr[m]] # NoFile =>
          HasFile(m)' /\ descr'[m] = descr[m]
    BY DEF LockInv, HasFile, ObtainLock
  <2>4. \A f \in 1 .. MaxFiles : flocked'[f] # NoDescr =>
          \/ flocked'[f] = flocked[f]
          \/ \E m \in Locks :
               Owned(m)' /\ file'[m] = f /\ descr'[m] = flocked'[f]
    BY DEF LockInv, Owned, ObtainLock
  <2>5. \A m \in Locks : Owned(m) /\ flocked'[file[m]] # NoDescr =>
          Owned(m)' /\ file'[m] = file[m] /\ descr'[m] = descr[m]
    BY DEF LockInv, Owned, ObtainLock
  <2>6. QED
    BY <2>1, <2>2, <2>3, <2>4, <2>5, LeaksStep DEF LockInv
<1>7. QED
  BY <1>1, <1>2, <1>3, <1>4, <1>5, <1>6 DEF LockInv

LEMMA CreateStep ==
  ASSUME LockInv, TypeOK', NEW t \in Threads, Create(t)
  PROVE  LockInv'
<1> USE DescrFacts, LockAssumption DEF TypeOK, Goto, NoFile, kernel, object
<1>1. FilesInv'
  BY DEF LockInv, FilesInv, Create
<1>2. ThreadsInv'
  BY DEF LockInv, ThreadsInv, Obtaining, Closing, Create, OpenFd
<1>3. LocksInv'
  BY DEF LockInv, LocksInv, HasFile, Create, OpenFd
<1>4. OneUser'
  <2>1. CASE OpenFd(t, nfiles + 1)
    <3>1. PICK d \in Descr : /\ fd' = [fd EXCEPT ![t] = d]
                             /\ \A u \in Threads : fd[u] # d
                             /\ \A l \in Locks : HasFile(l) => descr[l] # d
      BY <2>1, OpenFdFresh
    <3>2. \A l \in Locks : (HasFile(l)' <=> HasFile(l)) /\ descr'[l] = descr[l]
      BY DEF LockInv, HasFile, Create
    <3>3. QED
      BY <3>1, <3>2 DEF LockInv, OneUser
  <2>2. CASE fd' = fd
    BY <2>2 DEF LockInv, OneUser, HasFile, Create
  <2>3. QED
    BY <2>1, <2>2 DEF Create
<1>5. OwnerHoldsFlock'
  BY DEF LockInv, LocksInv, HasFile, OwnerHoldsFlock, Owned, Create, OpenFd
<1>6. NothingLeaks'
  <2>1. \A e \in Descr : open'[e] # NoFile =>
          \/ open[e] # NoFile
          \/ \E u \in Threads : fd'[u] = e
    BY DEF LockInv, Create, OpenFd
  <2>2. \A u \in Threads : fd[u] # NoDescr /\ open'[fd[u]] # NoFile =>
          \/ fd'[u] = fd[u]
          \/ \E m \in Locks : HasFile(m)' /\ descr'[m] = fd[u]
    <3>1. fd[t] = NoDescr
      BY DEF LockInv, ThreadsInv, Create
    <3>2. fd' = fd \/ \E e \in Of(Proc[t]) : fd' = [fd EXCEPT ![t] = e]
      BY DEF Create, OpenFd
    <3>3. ASSUME NEW u \in Threads, fd[u] # NoDescr PROVE fd'[u] = fd[u]
      BY <3>1, <3>2, <3>3
    <3>4. QED
      BY <3>3
  <2>3. \A m \in Locks : HasFile(m) /\ open'[descr[m]] # NoFile =>
          HasFile(m)' /\ descr'[m] = descr[m]
    BY DEF LockInv, HasFile, Create
  <2>4. \A f \in 1 .. MaxFiles : flocked'[f] # NoDescr =>
          \/ flocked'[f] = flocked[f]
          \/ \E m \in Locks :
               Owned(m)' /\ file'[m] = f /\ descr'[m] = flocked'[f]
    BY DEF LockInv, Create, OpenFd
  <2>5. \A m \in Locks : Owned(m) /\ flocked'[file[m]] # NoDescr =>
          Owned(m)' /\ file'[m] = file[m] /\ descr'[m] = descr[m]
    BY DEF LockInv, Owned, Create
  <2>6. QED
    BY <2>1, <2>2, <2>3, <2>4, <2>5, LeaksStep DEF LockInv
<1>7. QED
  BY <1>1, <1>2, <1>3, <1>4, <1>5, <1>6 DEF LockInv

LEMMA CloseCreatedStep ==
  ASSUME LockInv, TypeOK', NEW t \in Threads, CloseCreated(t)
  PROVE  LockInv'
<1> USE DescrFacts, LockAssumption DEF TypeOK, Goto, NoFile, kernel, object
<1>1. FilesInv'
  BY DEF LockInv, FilesInv, CloseCreated
<1>2. ThreadsInv'
  BY DEF LockInv, ThreadsInv, OneUser, Closing, CloseCreated, CloseFd
<1>3. LocksInv'
  BY DEF LockInv, LocksInv, OneUser, HasFile, CloseCreated, CloseFd
<1>4. OneUser'
  BY DEF LockInv, LocksInv, OneUser, HasFile, CloseCreated
<1>5. OwnerHoldsFlock'
  BY DEF LockInv, LocksInv, OneUser, HasFile, OwnerHoldsFlock, Owned,
     CloseCreated, CloseFd, Unflocked
<1>6. NothingLeaks'
  <2>1. \A e \in Descr : open'[e] # NoFile =>
          \/ open[e] # NoFile
          \/ \E u \in Threads : fd'[u] = e
    BY DEF LockInv, CloseCreated, CloseFd
  <2>2. \A u \in Threads : fd[u] # NoDescr /\ open'[fd[u]] # NoFile =>
          \/ fd'[u] = fd[u]
          \/ \E m \in Locks : HasFile(m)' /\ descr'[m] = fd[u]
    BY DEF LockInv, CloseCreated, CloseFd
  <2>3. \A m \in Locks : HasFile(m) /\ open'[descr[m]] # NoFile =>
          HasFile(m)' /\ descr'[m] = descr[m]
    BY DEF LockInv, HasFile, CloseCreated
  <2>4. \A f \in 1 .. MaxFiles : flocked'[f] # NoDescr =>
          \/ flocked'[f] = flocked[f]
          \/ \E m \in Locks :
               Owned(m)' /\ file'[m] = f /\ descr'[m] = flocked'[f]
    BY DEF LockInv, CloseCreated, CloseFd, Unflocked
  <2>5. \A m \in Locks : Owned(m) /\ flocked'[file[m]] # NoDescr =>
          Owned(m)' /\ file'[m] = file[m] /\ descr'[m] = descr[m]
    BY DEF LockInv, Owned, CloseCreated
  <2>6. QED
    BY <2>1, <2>2, <2>3, <2>4, <2>5, LeaksStep DEF LockInv
<1>7. QED
  BY <1>1, <1>2, <1>3, <1>4, <1>5, <1>6 DEF LockInv

LEMMA RealPathStep ==
  ASSUME LockInv, TypeOK', NEW t \in Threads, RealPath(t)
  PROVE  LockInv'
<1> USE DescrFacts, LockAssumption DEF TypeOK, Goto, NoFile, kernel, object
<1>1. FilesInv'
  BY DEF LockInv, FilesInv, RealPath
<1>2. ThreadsInv'
  BY DEF LockInv, ThreadsInv, Closing, RealPath
<1>3. LocksInv'
  BY DEF LockInv, LocksInv, HasFile, RealPath
<1>4. OneUser'
  BY DEF LockInv, OneUser, HasFile, RealPath
<1>5. OwnerHoldsFlock'
  BY DEF LockInv, OwnerHoldsFlock, Owned, RealPath
<1>6. NothingLeaks'
  <2>1. \A e \in Descr : open'[e] # NoFile =>
          \/ open[e] # NoFile
          \/ \E u \in Threads : fd'[u] = e
    BY DEF LockInv, RealPath
  <2>2. \A u \in Threads : fd[u] # NoDescr /\ open'[fd[u]] # NoFile =>
          \/ fd'[u] = fd[u]
          \/ \E m \in Locks : HasFile(m)' /\ descr'[m] = fd[u]
    BY DEF LockInv, HasFile, RealPath
  <2>3. \A m \in Locks : HasFile(m) /\ open'[descr[m]] # NoFile =>
          HasFile(m)' /\ descr'[m] = descr[m]
    BY DEF LockInv, HasFile, RealPath
  <2>4. \A f \in 1 .. MaxFiles : flocked'[f] # NoDescr =>
          \/ flocked'[f] = flocked[f]
          \/ \E m \in Locks :
               Owned(m)' /\ file'[m] = f /\ descr'[m] = flocked'[f]
    BY DEF LockInv, Owned, RealPath
  <2>5. \A m \in Locks : Owned(m) /\ flocked'[file[m]] # NoDescr =>
          Owned(m)' /\ file'[m] = file[m] /\ descr'[m] = descr[m]
    BY DEF LockInv, Owned, RealPath
  <2>6. QED
    BY <2>1, <2>2, <2>3, <2>4, <2>5, LeaksStep DEF LockInv
<1>7. QED
  BY <1>1, <1>2, <1>3, <1>4, <1>5, <1>6 DEF LockInv

LEMMA OpenStep ==
  ASSUME LockInv, TypeOK', NEW t \in Threads, Open(t)
  PROVE  LockInv'
<1> USE DescrFacts, LockAssumption DEF TypeOK, Goto, NoFile, kernel, object
<1>1. FilesInv'
  BY DEF LockInv, FilesInv, Open
<1>2. ThreadsInv'
  BY DEF LockInv, ThreadsInv, Closing, Open, OpenFd
<1>3. LocksInv'
  BY DEF LockInv, LocksInv, HasFile, Open, OpenFd
<1>4. OneUser'
  <2>1. CASE OpenFd(t, entry)
    <3>1. PICK d \in Descr : /\ fd' = [fd EXCEPT ![t] = d]
                             /\ \A u \in Threads : fd[u] # d
                             /\ \A l \in Locks : HasFile(l) => descr[l] # d
      BY <2>1, OpenFdFresh
    <3>2. \A l \in Locks : (HasFile(l)' <=> HasFile(l)) /\ descr'[l] = descr[l]
      BY DEF LockInv, HasFile, Open
    <3>3. QED
      BY <3>1, <3>2 DEF LockInv, OneUser
  <2>2. CASE fd' = fd
    BY <2>2 DEF LockInv, OneUser, HasFile, Open
  <2>3. QED
    BY <2>1, <2>2 DEF Open
<1>5. OwnerHoldsFlock'
  BY DEF LockInv, LocksInv, HasFile, OwnerHoldsFlock, Owned, Open, OpenFd
<1>6. NothingLeaks'
  <2>1. \A e \in Descr : open'[e] # NoFile =>
          \/ open[e] # NoFile
          \/ \E u \in Threads : fd'[u] = e
    BY DEF LockInv, Open, OpenFd
  <2>2. \A u \in Threads : fd[u] # NoDescr /\ open'[fd[u]] # NoFile =>
          \/ fd'[u] = fd[u]
          \/ \E m \in Locks : HasFile(m)' /\ descr'[m] = fd[u]
    <3>1. fd[t] = NoDescr
      BY DEF LockInv, ThreadsInv, Open
    <3>2. fd' = fd \/ \E e \in Of(Proc[t]) : fd' = [fd EXCEPT ![t] = e]
      BY DEF Open, OpenFd
    <3>3. ASSUME NEW u \in Threads, fd[u] # NoDescr PROVE fd'[u] = fd[u]
      BY <3>1, <3>2, <3>3
    <3>4. QED
      BY <3>3
  <2>3. \A m \in Locks : HasFile(m) /\ open'[descr[m]] # NoFile =>
          HasFile(m)' /\ descr'[m] = descr[m]
    BY DEF LockInv, HasFile, Open
  <2>4. \A f \in 1 .. MaxFiles : flocked'[f] # NoDescr =>
          \/ flocked'[f] = flocked[f]
          \/ \E m \in Locks :
               Owned(m)' /\ file'[m] = f /\ descr'[m] = flocked'[f]
    BY DEF LockInv, Open, OpenFd
  <2>5. \A m \in Locks : Owned(m) /\ flocked'[file[m]] # NoDescr =>
          Owned(m)' /\ file'[m] = file[m] /\ descr'[m] = descr[m]
    BY DEF LockInv, Owned, Open
  <2>6. QED
    BY <2>1, <2>2, <2>3, <2>4, <2>5, LeaksStep DEF LockInv
<1>7. QED
  BY <1>1, <1>2, <1>3, <1>4, <1>5, <1>6 DEF LockInv

LEMMA GrantStep ==
  ASSUME LockInv, TypeOK', NEW t \in Threads, NEW l \in Locks, Grant(t, l)
  PROVE  LockInv'
<1> USE DescrFacts, LockAssumption DEF TypeOK, Goto, NoFile, kernel, object
<1>1. FilesInv'
  BY DEF LockInv, FilesInv, Grant
<1>2. ThreadsInv'
  BY DEF LockInv, ThreadsInv, Closing, Grant
<1>3. LocksInv'
  BY DEF LockInv, LocksInv, HasFile, Grant, CanLock
<1>4. OneUser'
  BY DEF LockInv, LocksInv, OneUser, HasFile, Grant, CanLock
<1>5. OwnerHoldsFlock'
  BY DEF LockInv, LocksInv, OwnerHoldsFlock, Owned, Grant, CanLock
<1>6. NothingLeaks'
  <2>1. \A e \in Descr : open'[e] # NoFile =>
          \/ open[e] # NoFile
          \/ \E u \in Threads : fd'[u] = e
    BY DEF LockInv, Grant, CanLock
  <2>2. \A u \in Threads : fd[u] # NoDescr /\ open'[fd[u]] # NoFile =>
          \/ fd'[u] = fd[u]
          \/ \E m \in Locks : HasFile(m)' /\ descr'[m] = fd[u]
    BY DEF LockInv, LocksInv, HasFile, Grant
  <2>3. \A m \in Locks : HasFile(m) /\ open'[descr[m]] # NoFile =>
          HasFile(m)' /\ descr'[m] = descr[m]
    BY DEF LockInv, HasFile, Grant
  <2>4. \A f \in 1 .. MaxFiles : flocked'[f] # NoDescr =>
          \/ flocked'[f] = flocked[f]
          \/ \E m \in Locks :
               Owned(m)' /\ file'[m] = f /\ descr'[m] = flocked'[f]
    BY DEF LockInv, LocksInv, Owned, Grant
  <2>5. \A m \in Locks : Owned(m) /\ flocked'[file[m]] # NoDescr =>
          Owned(m)' /\ file'[m] = file[m] /\ descr'[m] = descr[m]
    BY DEF LockInv, Owned, Grant
  <2>6. QED
    BY <2>1, <2>2, <2>3, <2>4, <2>5, LeaksStep DEF LockInv
<1>7. QED
  BY <1>1, <1>2, <1>3, <1>4, <1>5, <1>6 DEF LockInv

LEMMA RefuseStep ==
  ASSUME LockInv, TypeOK', NEW t \in Threads, Refuse(t)
  PROVE  LockInv'
<1> USE DescrFacts, LockAssumption DEF TypeOK, Goto, NoFile, kernel, object
<1>1. FilesInv'
  BY DEF LockInv, FilesInv, Refuse
<1>2. ThreadsInv'
  BY DEF LockInv, ThreadsInv, Closing, Refuse
<1>3. LocksInv'
  BY DEF LockInv, LocksInv, HasFile, Refuse
<1>4. OneUser'
  BY DEF LockInv, OneUser, HasFile, Refuse
<1>5. OwnerHoldsFlock'
  BY DEF LockInv, OwnerHoldsFlock, Owned, Refuse
<1>6. NothingLeaks'
  <2>1. \A e \in Descr : open'[e] # NoFile =>
          \/ open[e] # NoFile
          \/ \E u \in Threads : fd'[u] = e
    BY DEF LockInv, Refuse
  <2>2. \A u \in Threads : fd[u] # NoDescr /\ open'[fd[u]] # NoFile =>
          \/ fd'[u] = fd[u]
          \/ \E m \in Locks : HasFile(m)' /\ descr'[m] = fd[u]
    BY DEF LockInv, HasFile, Refuse
  <2>3. \A m \in Locks : HasFile(m) /\ open'[descr[m]] # NoFile =>
          HasFile(m)' /\ descr'[m] = descr[m]
    BY DEF LockInv, HasFile, Refuse
  <2>4. \A f \in 1 .. MaxFiles : flocked'[f] # NoDescr =>
          \/ flocked'[f] = flocked[f]
          \/ \E m \in Locks :
               Owned(m)' /\ file'[m] = f /\ descr'[m] = flocked'[f]
    BY DEF LockInv, Owned, Refuse
  <2>5. \A m \in Locks : Owned(m) /\ flocked'[file[m]] # NoDescr =>
          Owned(m)' /\ file'[m] = file[m] /\ descr'[m] = descr[m]
    BY DEF LockInv, Owned, Refuse
  <2>6. QED
    BY <2>1, <2>2, <2>3, <2>4, <2>5, LeaksStep DEF LockInv
<1>7. QED
  BY <1>1, <1>2, <1>3, <1>4, <1>5, <1>6 DEF LockInv

LEMMA GiveUpStep ==
  ASSUME LockInv, TypeOK', NEW t \in Threads, GiveUp(t)
  PROVE  LockInv'
<1> USE DescrFacts, LockAssumption DEF TypeOK, Goto, NoFile, kernel, object
<1>1. FilesInv'
  BY DEF LockInv, FilesInv, GiveUp
<1>2. ThreadsInv'
  BY DEF LockInv, ThreadsInv, OneUser, Closing, GiveUp, CloseFd
<1>3. LocksInv'
  BY DEF LockInv, LocksInv, OneUser, HasFile, GiveUp, CloseFd
<1>4. OneUser'
  BY DEF LockInv, LocksInv, OneUser, HasFile, GiveUp
<1>5. OwnerHoldsFlock'
  BY DEF LockInv, LocksInv, OneUser, HasFile, OwnerHoldsFlock, Owned, GiveUp,
     CloseFd, Unflocked
<1>6. NothingLeaks'
  <2>1. \A e \in Descr : open'[e] # NoFile =>
          \/ open[e] # NoFile
          \/ \E u \in Threads : fd'[u] = e
    BY DEF LockInv, GiveUp, CloseFd
  <2>2. \A u \in Threads : fd[u] # NoDescr /\ open'[fd[u]] # NoFile =>
          \/ fd'[u] = fd[u]
          \/ \E m \in Locks : HasFile(m)' /\ descr'[m] = fd[u]
    BY DEF LockInv, GiveUp, CloseFd
  <2>3. \A m \in Locks : HasFile(m) /\ open'[descr[m]] # NoFile =>
          HasFile(m)' /\ descr'[m] = descr[m]
    BY DEF LockInv, HasFile, GiveUp
  <2>4. \A f \in 1 .. MaxFiles : flocked'[f] # NoDescr =>
          \/ flocked'[f] = flocked[f]
          \/ \E m \in Locks :
               Owned(m)' /\ file'[m] = f /\ descr'[m] = flocked'[f]
    BY DEF LockInv, GiveUp, CloseFd, Unflocked
  <2>5. \A m \in Locks : Owned(m) /\ flocked'[file[m]] # NoDescr =>
          Owned(m)' /\ file'[m] = file[m] /\ descr'[m] = descr[m]
    BY DEF LockInv, Owned, GiveUp
  <2>6. QED
    BY <2>1, <2>2, <2>3, <2>4, <2>5, LeaksStep DEF LockInv
<1>7. QED
  BY <1>1, <1>2, <1>3, <1>4, <1>5, <1>6 DEF LockInv

LEMMA CloseStep ==
  ASSUME LockInv, TypeOK', NEW t \in Threads, NEW l \in Locks, Close(t, l)
  PROVE  LockInv'
<1> USE DescrFacts, LockAssumption DEF TypeOK, Goto, NoFile, kernel, object
<1>1. FilesInv'
  BY DEF LockInv, FilesInv, Close
<1>2. ThreadsInv'
  BY DEF LockInv, ThreadsInv, Closing, Close
<1>3. LocksInv'
  BY DEF LockInv, LocksInv, HasFile, Close
<1>4. OneUser'
  BY DEF LockInv, OneUser, HasFile, Close
<1>5. OwnerHoldsFlock'
  BY DEF LockInv, OwnerHoldsFlock, Owned, Close
<1>6. NothingLeaks'
  <2>1. \A e \in Descr : open'[e] # NoFile =>
          \/ open[e] # NoFile
          \/ \E u \in Threads : fd'[u] = e
    BY DEF LockInv, Close
  <2>2. \A u \in Threads : fd[u] # NoDescr /\ open'[fd[u]] # NoFile =>
          \/ fd'[u] = fd[u]
          \/ \E m \in Locks : HasFile(m)' /\ descr'[m] = fd[u]
    BY DEF LockInv, HasFile, Close
  <2>3. \A m \in Locks : HasFile(m) /\ open'[descr[m]] # NoFile =>
          HasFile(m)' /\ descr'[m] = descr[m]
    BY DEF LockInv, HasFile, Close
  <2>4. \A f \in 1 .. MaxFiles : flocked'[f] # NoDescr =>
          \/ flocked'[f] = flocked[f]
          \/ \E m \in Locks :
               Owned(m)' /\ file'[m] = f /\ descr'[m] = flocked'[f]
    BY DEF LockInv, Owned, Close
  <2>5. \A m \in Locks : Owned(m) /\ flocked'[file[m]] # NoDescr =>
          Owned(m)' /\ file'[m] = file[m] /\ descr'[m] = descr[m]
    BY DEF LockInv, Owned, Close
  <2>6. QED
    BY <2>1, <2>2, <2>3, <2>4, <2>5, LeaksStep DEF LockInv
<1>7. QED
  BY <1>1, <1>2, <1>3, <1>4, <1>5, <1>6 DEF LockInv

LEMMA EnterStep ==
  ASSUME LockInv, TypeOK', NEW t \in Threads, Enter(t)
  PROVE  LockInv'
<1> USE DescrFacts, LockAssumption DEF TypeOK, Goto, NoFile, kernel, object
<1>1. FilesInv'
  BY DEF LockInv, FilesInv, Enter
<1>2. ThreadsInv'
  BY DEF LockInv, ThreadsInv, Closing, Enter
<1>3. LocksInv'
  BY DEF LockInv, ThreadsInv, LocksInv, HasFile, Enter
<1>4. OneUser'
  <2>1. \A l \in Locks : HasFile(l)' => HasFile(l)
    <3>1. ASSUME NEW l \in Locks, HasFile(l)' PROVE HasFile(l)
      <4>1. CASE mutex'[l] = mutex[l]
        BY <3>1, <4>1 DEF LockInv, LocksInv, HasFile, Enter
      <4>2. CASE mutex'[l] # mutex[l]
        BY <3>1, <4>2 DEF LockInv, HasFile, Enter
      <4>3. QED
        BY <4>1, <4>2
    <3>2. QED
      BY <3>1
  <2>2. QED
    BY <2>1 DEF LockInv, OneUser, Enter
<1>5. OwnerHoldsFlock'
  BY DEF LockInv, LocksInv, OwnerHoldsFlock, Owned, Closing, Enter
<1>6. NothingLeaks'
  <2>1. \A e \in Descr : open'[e] # NoFile =>
          \/ open[e] # NoFile
          \/ \E u \in Threads : fd'[u] = e
    BY DEF LockInv, Enter
  <2>2. \A u \in Threads : fd[u] # NoDescr /\ open'[fd[u]] # NoFile =>
          \/ fd'[u] = fd[u]
          \/ \E m \in Locks : HasFile(m)' /\ descr'[m] = fd[u]
    BY DEF LockInv, HasFile, Enter
  <2>3. \A m \in Locks : HasFile(m) /\ open'[descr[m]] # NoFile =>
          HasFile(m)' /\ descr'[m] = descr[m]
    <3>1. ASSUME NEW m \in Locks, HasFile(m) PROVE HasFile(m)'
      <4>1. CASE mutex'[m] = mutex[m]
        BY <3>1, <4>1 DEF LockInv, HasFile, Enter
      <4>2. CASE mutex'[m] # mutex[m]
        BY <3>1, <4>2 DEF LockInv, HasFile, Enter
      <4>3. QED
        BY <4>1, <4>2
    <3>2. QED
      BY <3>1 DEF Enter
  <2>4. \A f \in 1 .. MaxFiles : flocked'[f] # NoDescr =>
          \/ flocked'[f] = flocked[f]
          \/ \E m \in Locks :
               Owned(m)' /\ file'[m] = f /\ descr'[m] = flocked'[f]
    BY DEF LockInv, Owned, Enter
  <2>5. \A m \in Locks : Owned(m) /\ flocked'[file[m]] # NoDescr =>
          Owned(m)' /\ file'[m] = file[m] /\ descr'[m] = descr[m]
    BY DEF LockInv, ThreadsInv, OwnerHoldsFlock, Owned, Closing, Enter
  <2>6. QED
    BY <2>1, <2>2, <2>3, <2>4, <2>5, LeaksStep DEF LockInv
<1>7. QED
  BY <1>1, <1>2, <1>3, <1>4, <1>5, <1>6 DEF LockInv

LEMMA UnlockStep ==
  ASSUME LockInv, TypeOK', NEW t \in Threads, Unlock(t)
  PROVE  LockInv'
<1> USE DescrFacts, LockAssumption DEF TypeOK, Goto, NoFile, kernel, object
<1>1. FilesInv'
  BY DEF LockInv, FilesInv, Unlock
<1>2. ThreadsInv'
  BY DEF LockInv, ThreadsInv, Closing, Unlock
<1>3. LocksInv'
  BY DEF LockInv, LocksInv, HasFile, Unlock
<1>4. OneUser'
  BY DEF LockInv, OneUser, HasFile, Unlock
<1>5. OwnerHoldsFlock'
  <2>1. ASSUME NEW l \in Locks, Owned(l)'
        PROVE  open'[descr'[l]] = file'[l] /\ flocked'[file'[l]] = descr'[l]
    <3>1. Owned(l) /\ HasFile(l) /\ l # at[t]
      BY <2>1 DEF LockInv, ThreadsInv, HasFile, Owned, Unlock
    <3>2. HasFile(at[t]) /\ at[t] \in Locks
      BY DEF LockInv, ThreadsInv, LocksInv, HasFile, Closing, Unlock
    <3>3. descr[l] # descr[at[t]]
      BY <3>1, <3>2 DEF LockInv, OneUser
    <3>4. /\ open[descr[l]] = file[l] /\ flocked[file[l]] = descr[l]
          /\ file[l] # NoFile /\ file[l] \in 1 .. MaxFiles
      <4>1. open[descr[l]] = file[l] /\ flocked[file[l]] = descr[l] /\ file[l] # NoFile
        BY <3>1 DEF LockInv, LocksInv, OwnerHoldsFlock
      <4>2. file[l] \in 0 .. nfiles /\ nfiles \in 0 .. MaxFiles
        BY DEF LockInv
      <4>3. QED
        BY <4>1, <4>2
    <3>5. QED
      BY <3>3, <3>4 DEF Unlock, Unflocked
  <2>2. QED
    BY <2>1 DEF OwnerHoldsFlock
<1>6. NothingLeaks'
  <2>1. \A e \in Descr : open'[e] # NoFile =>
          \/ open[e] # NoFile
          \/ \E u \in Threads : fd'[u] = e
    BY DEF LockInv, Unlock, Unflocked
  <2>2. \A u \in Threads : fd[u] # NoDescr /\ open'[fd[u]] # NoFile =>
          \/ fd'[u] = fd[u]
          \/ \E m \in Locks : HasFile(m)' /\ descr'[m] = fd[u]
    BY DEF LockInv, Unlock, Unflocked
  <2>3. \A m \in Locks : HasFile(m) /\ open'[descr[m]] # NoFile =>
          HasFile(m)' /\ descr'[m] = descr[m]
    BY DEF LockInv, HasFile, Unlock
  <2>4. \A f \in 1 .. MaxFiles : flocked'[f] # NoDescr =>
          \/ flocked'[f] = flocked[f]
          \/ \E m \in Locks :
               Owned(m)' /\ file'[m] = f /\ descr'[m] = flocked'[f]
    BY DEF LockInv, Unlock, Unflocked
  <2>5. \A m \in Locks : Owned(m) /\ flocked'[file[m]] # NoDescr =>
          Owned(m)' /\ file'[m] = file[m] /\ descr'[m] = descr[m]
    BY DEF LockInv, LocksInv, OwnerHoldsFlock, Owned, HasFile, Unlock,
       Unflocked
  <2>6. QED
    BY <2>1, <2>2, <2>3, <2>4, <2>5, LeaksStep DEF LockInv
<1>7. QED
  BY <1>1, <1>2, <1>3, <1>4, <1>5, <1>6 DEF LockInv

LEMMA CloseFileStep ==
  ASSUME LockInv, TypeOK', NEW t \in Threads, CloseFile(t)
  PROVE  LockInv'
<1> USE DescrFacts, LockAssumption DEF TypeOK, Goto, NoFile, kernel, object
<1>1. FilesInv'
  BY DEF LockInv, FilesInv, CloseFile
<1>2. ThreadsInv'
  BY DEF LockInv, ThreadsInv, LocksInv, OneUser, HasFile, Closing, CloseFile,
     CloseFd
<1>3. LocksInv'
  BY DEF LockInv, ThreadsInv, LocksInv, OneUser, HasFile, Closing, CloseFile,
     CloseFd
<1>4. OneUser'
  BY DEF LockInv, OneUser, HasFile, CloseFile
<1>5. OwnerHoldsFlock'
  BY DEF LockInv, ThreadsInv, LocksInv, OneUser, HasFile, OwnerHoldsFlock,
     Owned, Closing, CloseFile, CloseFd, Unflocked
<1>6. NothingLeaks'
  <2>1. \A e \in Descr : open'[e] # NoFile =>
          \/ open[e] # NoFile
          \/ \E u \in Threads : fd'[u] = e
    BY DEF LockInv, CloseFile, CloseFd
  <2>2. \A u \in Threads : fd[u] # NoDescr /\ open'[fd[u]] # NoFile =>
          \/ fd'[u] = fd[u]
          \/ \E m \in Locks : HasFile(m)' /\ descr'[m] = fd[u]
    BY DEF LockInv, CloseFile, Unflocked
  <2>3. \A m \in Locks : HasFile(m) /\ open'[descr[m]] # NoFile =>
          HasFile(m)' /\ descr'[m] = descr[m]
    BY DEF LockInv, LocksInv, HasFile, CloseFile, CloseFd
  <2>4. \A f \in 1 .. MaxFiles : flocked'[f] # NoDescr =>
          \/ flocked'[f] = flocked[f]
          \/ \E m \in Locks :
               Owned(m)' /\ file'[m] = f /\ descr'[m] = flocked'[f]
    BY DEF LockInv, CloseFile, CloseFd, Unflocked
  <2>5. \A m \in Locks : Owned(m) /\ flocked'[file[m]] # NoDescr =>
          Owned(m)' /\ file'[m] = file[m] /\ descr'[m] = descr[m]
    BY DEF LockInv, Owned, CloseFile
  <2>6. QED
    BY <2>1, <2>2, <2>3, <2>4, <2>5, LeaksStep DEF LockInv
<1>7. QED
  BY <1>1, <1>2, <1>3, <1>4, <1>5, <1>6 DEF LockInv

LEMMA MarkStep ==
  ASSUME LockInv, TypeOK', NEW t \in Threads, Mark(t)
  PROVE  LockInv'
<1> USE DescrFacts, LockAssumption DEF TypeOK, Goto, NoFile, kernel, object
<1>1. FilesInv'
  BY DEF LockInv, FilesInv, Mark
<1>2. ThreadsInv'
  BY DEF LockInv, ThreadsInv, Closing, Mark
<1>3. LocksInv'
  BY DEF LockInv, ThreadsInv, LocksInv, HasFile, Mark
<1>4. OneUser'
  BY DEF LockInv, OneUser, HasFile, Mark
<1>5. OwnerHoldsFlock'
  BY DEF LockInv, OwnerHoldsFlock, Owned, Mark
<1>6. NothingLeaks'
  <2>1. \A e \in Descr : open'[e] # NoFile =>
          \/ open[e] # NoFile
          \/ \E u \in Threads : fd'[u] = e
    BY DEF LockInv, Mark
  <2>2. \A u \in Threads : fd[u] # NoDescr /\ open'[fd[u]] # NoFile =>
          \/ fd'[u] = fd[u]
          \/ \E m \in Locks : HasFile(m)' /\ descr'[m] = fd[u]
    BY DEF LockInv, HasFile, Mark
  <2>3. \A m \in Locks : HasFile(m) /\ open'[descr[m]] # NoFile =>
          HasFile(m)' /\ descr'[m] = descr[m]
    BY DEF LockInv, ThreadsInv, HasFile, Mark
  <2>4. \A f \in 1 .. MaxFiles : flocked'[f] # NoDescr =>
          \/ flocked'[f] = flocked[f]
          \/ \E m \in Locks :
               Owned(m)' /\ file'[m] = f /\ descr'[m] = flocked'[f]
    BY DEF LockInv, Owned, Mark
  <2>5. \A m \in Locks : Owned(m) /\ flocked'[file[m]] # NoDescr =>
          Owned(m)' /\ file'[m] = file[m] /\ descr'[m] = descr[m]
    BY DEF LockInv, ThreadsInv, Owned, Mark
  <2>6. QED
    BY <2>1, <2>2, <2>3, <2>4, <2>5, LeaksStep DEF LockInv
<1>7. QED
  BY <1>1, <1>2, <1>3, <1>4, <1>5, <1>6 DEF LockInv

LEMMA FreeStep ==
  ASSUME LockInv, TypeOK', NEW l \in Locks, Free(l)
  PROVE  LockInv'
<1> USE DescrFacts, LockAssumption DEF TypeOK, Goto, NoFile, kernel, object
<1>1. FilesInv'
  BY DEF LockInv, FilesInv, Free
<1>2. ThreadsInv'
  BY DEF LockInv, ThreadsInv, Free
<1>3. LocksInv'
  BY DEF LockInv, LocksInv, HasFile, Free
<1>4. OneUser'
  BY DEF LockInv, OneUser, HasFile, Free
<1>5. OwnerHoldsFlock'
  BY DEF LockInv, OwnerHoldsFlock, Owned, Free
<1>6. NothingLeaks'
  <2>1. \A e \in Descr : open'[e] # NoFile =>
          \/ open[e] # NoFile
          \/ \E u \in Threads : fd'[u] = e
    BY DEF LockInv, Free
  <2>2. \A u \in Threads : fd[u] # NoDescr /\ open'[fd[u]] # NoFile =>
          \/ fd'[u] = fd[u]
          \/ \E m \in Locks : HasFile(m)' /\ descr'[m] = fd[u]
    BY DEF LockInv, HasFile, Free
  <2>3. \A m \in Locks : HasFile(m) /\ open'[descr[m]] # NoFile =>
          HasFile(m)' /\ descr'[m] = descr[m]
    BY DEF LockInv, HasFile, Free
  <2>4. \A f \in 1 .. MaxFiles : flocked'[f] # NoDescr =>
          \/ flocked'[f] = flocked[f]
          \/ \E m \in Locks :
               Owned(m)' /\ file'[m] = f /\ descr'[m] = flocked'[f]
    BY DEF LockInv, Owned, Free
  <2>5. \A m \in Locks : Owned(m) /\ flocked'[file[m]] # NoDescr =>
          Owned(m)' /\ file'[m] = file[m] /\ descr'[m] = descr[m]
    BY DEF LockInv, Owned, Free
  <2>6. QED
    BY <2>1, <2>2, <2>3, <2>4, <2>5, LeaksStep DEF LockInv
<1>7. QED
  BY <1>1, <1>2, <1>3, <1>4, <1>5, <1>6 DEF LockInv

LEMMA CrashStep ==
  ASSUME LockInv, TypeOK', NEW p \in Procs, Crash(p)
  PROVE  LockInv'
<1> USE DescrFacts, LockAssumption DEF TypeOK, Goto, NoFile, kernel, object
<1>1. FilesInv'
  BY DEF LockInv, FilesInv, Crash
<1>2. ThreadsInv'
  BY DEF LockInv, ThreadsInv, Closing, Crash
<1>3. LocksInv'
  BY DEF LockInv, ThreadsInv, LocksInv, HasFile, Crash
<1>4. OneUser'
  BY DEF LockInv, LocksInv, OneUser, HasFile, Crash
<1>5. OwnerHoldsFlock'
  BY DEF LockInv, LocksInv, HasFile, OwnerHoldsFlock, Owned, Crash, Unflocked
<1>6. NothingLeaks'
  <2>1. \A e \in Descr : open'[e] # NoFile =>
          \/ open[e] # NoFile
          \/ \E u \in Threads : fd'[u] = e
    BY DEF LockInv, Crash, Unflocked
  <2>2. \A u \in Threads : fd[u] # NoDescr /\ open'[fd[u]] # NoFile =>
          \/ fd'[u] = fd[u]
          \/ \E m \in Locks : HasFile(m)' /\ descr'[m] = fd[u]
    BY DEF LockInv, ThreadsInv, Crash
  <2>3. \A m \in Locks : HasFile(m) /\ open'[descr[m]] # NoFile =>
          HasFile(m)' /\ descr'[m] = descr[m]
    BY DEF LockInv, ThreadsInv, LocksInv, HasFile, Crash
  <2>4. \A f \in 1 .. MaxFiles : flocked'[f] # NoDescr =>
          \/ flocked'[f] = flocked[f]
          \/ \E m \in Locks :
               Owned(m)' /\ file'[m] = f /\ descr'[m] = flocked'[f]
    BY DEF LockInv, Crash, Unflocked
  <2>5. \A m \in Locks : Owned(m) /\ flocked'[file[m]] # NoDescr =>
          Owned(m)' /\ file'[m] = file[m] /\ descr'[m] = descr[m]
    BY DEF LockInv, ThreadsInv, LocksInv, OwnerHoldsFlock, Owned, HasFile,
       Crash, Unflocked
  <2>6. QED
    BY <2>1, <2>2, <2>3, <2>4, <2>5, LeaksStep DEF LockInv
<1>7. QED
  BY <1>1, <1>2, <1>3, <1>4, <1>5, <1>6 DEF LockInv

LEMMA DeleteLockFileStep ==
  ASSUME LockInv, TypeOK', DeleteLockFile
  PROVE  LockInv'
<1> USE DescrFacts, LockAssumption DEF TypeOK, Goto, NoFile, kernel, object
<1>1. FilesInv'
  BY DEF LockInv, FilesInv, DeleteLockFile
<1>2. ThreadsInv'
  BY DEF LockInv, ThreadsInv, DeleteLockFile
<1>3. LocksInv'
  BY DEF LockInv, LocksInv, HasFile, DeleteLockFile
<1>4. OneUser'
  BY DEF LockInv, OneUser, HasFile, DeleteLockFile
<1>5. OwnerHoldsFlock'
  BY DEF LockInv, OwnerHoldsFlock, Owned, DeleteLockFile
<1>6. NothingLeaks'
  <2>1. \A e \in Descr : open'[e] # NoFile =>
          \/ open[e] # NoFile
          \/ \E u \in Threads : fd'[u] = e
    BY DEF LockInv, DeleteLockFile
  <2>2. \A u \in Threads : fd[u] # NoDescr /\ open'[fd[u]] # NoFile =>
          \/ fd'[u] = fd[u]
          \/ \E m \in Locks : HasFile(m)' /\ descr'[m] = fd[u]
    BY DEF LockInv, HasFile, DeleteLockFile
  <2>3. \A m \in Locks : HasFile(m) /\ open'[descr[m]] # NoFile =>
          HasFile(m)' /\ descr'[m] = descr[m]
    BY DEF LockInv, HasFile, DeleteLockFile
  <2>4. \A f \in 1 .. MaxFiles : flocked'[f] # NoDescr =>
          \/ flocked'[f] = flocked[f]
          \/ \E m \in Locks :
               Owned(m)' /\ file'[m] = f /\ descr'[m] = flocked'[f]
    BY DEF LockInv, Owned, DeleteLockFile
  <2>5. \A m \in Locks : Owned(m) /\ flocked'[file[m]] # NoDescr =>
          Owned(m)' /\ file'[m] = file[m] /\ descr'[m] = descr[m]
    BY DEF LockInv, Owned, DeleteLockFile
  <2>6. QED
    BY <2>1, <2>2, <2>3, <2>4, <2>5, LeaksStep DEF LockInv
<1>7. QED
  BY <1>1, <1>2, <1>3, <1>4, <1>5, <1>6 DEF LockInv

LEMMA LockStep == LockInv /\ [Next]_vars => LockInv'
<1> SUFFICES ASSUME LockInv, [Next]_vars PROVE LockInv'
  OBVIOUS
<1>1. TypeOK'
  BY TypeStep DEF LockInv
<1>2. ASSUME NEW t \in Threads, Step(t) PROVE LockInv'
  BY <1>1, <1>2, CreateStep, CloseCreatedStep, RealPathStep, OpenStep,
     GrantStep, RefuseStep, GiveUpStep, EnterStep, UnlockStep, CloseFileStep,
     MarkStep DEF Step
<1>3. CASE UNCHANGED vars
  BY <1>3 DEF vars, LockInv, TypeOK, FilesInv, ThreadsInv, LocksInv, OneUser,
     OwnerHoldsFlock, NothingLeaks, HasFile, Owned
<1>4. QED
  BY <1>1, <1>2, <1>3, ObtainLockStep, CloseStep, FreeStep, CrashStep,
     DeleteLockFileStep DEF Next

LEMMA LockInvariant == Spec => []LockInv
<1>1. Init => LockInv
  BY InitInv
<1>2. LockInv /\ [Next]_vars => LockInv'
  BY LockStep
<1>3. QED
  BY <1>1, <1>2, PTL DEF Spec

--------------------------------------------------------------------------------
(* The safety properties. *)

(* Every variable keeps its type. *)
THEOREM TypeCorrect == Spec => []TypeOK
<1>1. LockInv => TypeOK
  BY DEF LockInv
<1>2. QED
  BY <1>1, LockInvariant, PTL

(* The owner of a lock has its descriptor open and the flock on it. *)
THEOREM OwnersHoldTheFlock == Spec => []OwnerHoldsFlock
<1>1. LockInv => OwnerHoldsFlock
  BY DEF LockInv
<1>2. QED
  BY <1>1, LockInvariant, PTL

(* Descriptors and flocks have a user at all times, through failures, double
   closes and crashes. *)
THEOREM NothingLeaksEver == Spec => []NothingLeaks
<1>1. LockInv => NothingLeaks
  BY DEF LockInv
<1>2. QED
  BY <1>1, LockInvariant, PTL

LEMMA OneOwnerPerFile ==
  ASSUME LockInv, NEW l \in Locks, NEW m \in Locks, Owned(l), Owned(m),
         file[l] = file[m]
  PROVE  l = m
<1>1. descr[l] = descr[m]
  BY DEF LockInv, OwnerHoldsFlock
<1>2. HasFile(l) /\ HasFile(m)
  BY DEF Owned, HasFile
<1>3. QED
  BY <1>1, <1>2 DEF LockInv, OneUser

(* The lock is a lock: at most one owner at a time, as long as there has been
   one lock file only. *)
THEOREM MutualExclusion == Spec => []SingleOwner
<1>1. LockInv => SingleOwner
  <2> SUFFICES ASSUME LockInv, nfiles <= 1, NEW l \in Locks, NEW m \in Locks,
                      Owned(l), Owned(m)
               PROVE  l = m
    BY DEF SingleOwner
  <2>1. \A k \in Locks : Owned(k) => file[k] = 1
    <3>1. \A k \in Locks : Owned(k) => file[k] # 0
      BY DEF LockInv, LocksInv, HasFile, Owned, NoFile
    <3>2. nfiles \in Nat /\ \A k \in Locks : file[k] \in 0 .. nfiles
      BY LockAssumption DEF LockInv, TypeOK, LockAssumption
    <3>3. QED
      BY <3>1, <3>2
  <2>2. QED
    BY <2>1, OneOwnerPerFile
<1>2. QED
  BY <1>1, LockInvariant, PTL

(* And if nobody deletes the lock file there is never a second one. *)
THEOREM OneLockFile == Spec => [](~MayDelete => nfiles <= 1)
<1>1. LockInv => (~MayDelete => nfiles <= 1)
  BY DEF LockInv, FilesInv
<1>2. QED
  BY <1>1, LockInvariant, PTL

--------------------------------------------------------------------------------
(* The refinement. *)

Holding == { <<l, file[l]>> : l \in {m \in Locks : Owned(m)} }

LEMMA HoldingShrinks ==
  ASSUME \A l \in Locks : Owned(l)' => Owned(l) /\ file'[l] = file[l]
  PROVE  Holding' \subseteq Holding
BY DEF Holding

(* No step but Grant makes an owner. *)
LEMMA OnlyGrantOwns ==
  ASSUME LockInv, LockInv', [Next]_vars,
         ~ \E t \in Threads, l \in Locks : Grant(t, l)
  PROVE  \A l \in Locks : Owned(l)' => Owned(l) /\ file'[l] = file[l]
<1> USE DEF Goto, kernel, object
<1>1. ASSUME NEW t \in Threads, ObtainLock(t), NEW l \in Locks, Owned(l)'
      PROVE  Owned(l) /\ file'[l] = file[l]
  BY <1>1 DEF ObtainLock, Owned, LockInv
<1>2. ASSUME NEW t \in Threads, Create(t), NEW l \in Locks, Owned(l)'
      PROVE  Owned(l) /\ file'[l] = file[l]
  BY <1>2 DEF Create, Owned, LockInv, TypeOK
<1>3. ASSUME NEW t \in Threads, CloseCreated(t), NEW l \in Locks, Owned(l)'
      PROVE  Owned(l) /\ file'[l] = file[l]
  BY <1>3 DEF CloseCreated, Owned, LockInv
<1>4. ASSUME NEW t \in Threads, RealPath(t), NEW l \in Locks, Owned(l)'
      PROVE  Owned(l) /\ file'[l] = file[l]
  BY <1>4 DEF RealPath, Owned, LockInv
<1>5. ASSUME NEW t \in Threads, Open(t), NEW l \in Locks, Owned(l)'
      PROVE  Owned(l) /\ file'[l] = file[l]
  BY <1>5 DEF Open, Owned, LockInv
<1>6. ASSUME NEW t \in Threads, Refuse(t), NEW l \in Locks, Owned(l)'
      PROVE  Owned(l) /\ file'[l] = file[l]
  BY <1>6 DEF Refuse, Owned, LockInv
<1>7. ASSUME NEW t \in Threads, GiveUp(t), NEW l \in Locks, Owned(l)'
      PROVE  Owned(l) /\ file'[l] = file[l]
  BY <1>7 DEF GiveUp, Owned, LockInv
<1>8. ASSUME NEW t \in Threads, Enter(t), NEW l \in Locks, Owned(l)'
      PROVE  Owned(l) /\ file'[l] = file[l]
  BY <1>8 DEF Enter, Owned, LockInv, LocksInv, TypeOK
<1>9. ASSUME NEW t \in Threads, Unlock(t), NEW l \in Locks, Owned(l)'
      PROVE  Owned(l) /\ file'[l] = file[l]
  BY <1>9 DEF Unlock, Owned, LockInv
<1>10. ASSUME NEW t \in Threads, CloseFile(t), NEW l \in Locks, Owned(l)'
      PROVE  Owned(l) /\ file'[l] = file[l]
  BY <1>10 DEF CloseFile, Owned, LockInv
<1>11. ASSUME NEW t \in Threads, Mark(t), NEW l \in Locks, Owned(l)'
      PROVE  Owned(l) /\ file'[l] = file[l]
  BY <1>11 DEF Mark, Owned, LockInv, TypeOK
<1>12. ASSUME NEW t \in Threads, NEW m \in Locks, Close(t, m), NEW l \in Locks, Owned(l)'
      PROVE  Owned(l) /\ file'[l] = file[l]
  BY <1>12 DEF Close, Owned, LockInv
<1>13. ASSUME NEW m \in Locks, Free(m), NEW l \in Locks, Owned(l)'
      PROVE  Owned(l) /\ file'[l] = file[l]
  BY <1>13 DEF Free, Owned, LockInv
<1>14. ASSUME NEW p \in Procs, Crash(p), NEW l \in Locks, Owned(l)'
      PROVE  Owned(l) /\ file'[l] = file[l]
  BY <1>14 DEF Crash, Owned, LockInv, TypeOK
<1>15. ASSUME DeleteLockFile, NEW l \in Locks, Owned(l)'
      PROVE  Owned(l) /\ file'[l] = file[l]
  BY <1>15 DEF DeleteLockFile, Owned, LockInv
<1>16. CASE UNCHANGED vars
  BY <1>16 DEF vars, Owned
<1>17. QED
  BY <1>1, <1>2, <1>3, <1>4, <1>5, <1>6, <1>7, <1>8, <1>9, <1>10, <1>11, <1>12,
     <1>13, <1>14, <1>15, <1>16 DEF Next, Step

LEMMA HoldingStep == LockInv /\ LockInv' /\ [Next]_vars => [FL!Next]_Holding
<1> SUFFICES ASSUME LockInv, LockInv', [Next]_vars PROVE [FL!Next]_Holding
  OBVIOUS
<1>1. ASSUME NEW t \in Threads, NEW l \in Locks, Grant(t, l)
      PROVE  \E f \in 1 .. MaxFiles : /\ \A h \in Holding : h[2] # f
                                      /\ Holding' = Holding \cup {<<l, f>>}
  <2> DEFINE f == open[fd[t]]
  <2>1. /\ f \in 1 .. MaxFiles
        /\ file' = [file EXCEPT ![l] = f] /\ obj' = [obj EXCEPT ![l] = "live"]
        /\ mutex' = mutex /\ pc' = [pc EXCEPT ![t] = "idle"] /\ obj[l] = "none"
        /\ flocked[f] = NoDescr
    <3>1. f \in 0 .. nfiles /\ nfiles \in 0 .. MaxFiles
      BY <1>1 DEF Grant, LockInv, TypeOK
    <3>2. f # 0
      BY <1>1 DEF Grant, CanLock, LockInv, ThreadsInv, NoFile
    <3>3. f \in 1 .. MaxFiles
      BY <3>1, <3>2, LockAssumption
    <3>4. QED
      BY <1>1, <3>3 DEF Grant, CanLock, Goto
  <2> HIDE DEF f
  <2>2. \A m \in Locks : Owned(m) => file[m] # f
    BY <2>1, DescrFacts DEF LockInv, OwnerHoldsFlock, LocksInv, Owned
  <2>3. Owned(l)' /\ file'[l] = f /\ ~Owned(l)
    BY <1>1, <2>1 DEF Owned, LockInv, LocksInv, TypeOK
  <2>4. \A m \in Locks : m # l => /\ Owned(m)' <=> Owned(m)
                                  /\ file'[m] = file[m]
    BY <1>1, <2>1 DEF Owned, Grant, LockInv
  <2>5. Holding' = Holding \cup {<<l, f>>}
    BY <2>3, <2>4 DEF Holding
  <2>6. \A h \in Holding : h[2] # f
    BY <2>2 DEF Holding
  <2>7. QED
    BY <2>1, <2>5, <2>6
<1>2. CASE \E t \in Threads, l \in Locks : Grant(t, l)
  BY <1>1, <1>2 DEF FL!Next, FL!Grant, Holding
<1>3. CASE ~ \E t \in Threads, l \in Locks : Grant(t, l)
  <2>1. Holding' \subseteq Holding
    BY <1>3, OnlyGrantOwns, HoldingShrinks
  <2>2. QED
    BY <2>1 DEF FL!Next, FL!GiveUp, Holding
<1>4. QED
  BY <1>2, <1>3

(* Per lock file the locks are exclusive, even when the file is deleted and
   made again under the owner of the first one. *)
THEOREM LocksImplementFileLocks == Spec => ImplementsFileLocks
<1>1. Init => FL!Init
  BY DEF Init, FL!Init, Owned
<1>2. LockInv /\ LockInv' /\ [Next]_vars => [FL!Next]_Holding
  BY HoldingStep
<1>3. QED
  BY <1>1, <1>2, LockInvariant, PTL DEF Spec, ImplementsFileLocks, FL!Spec,
     Holding

===============================================================================
