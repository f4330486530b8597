--------------------------- MODULE FSDirectoryProofs ---------------------------
(***************************************************************************)
(* Theorems about FSDirectory for every set of directory objects, every    *)
(* set of names and every bound.                                           *)
(***************************************************************************)
EXTENDS FSDirectory, TLAPS

(* There is a name, so AnyName is one. *)
LEMMA AnyNameIsName == AnyName \in Names
<1>1. TempName(0) \in Names
  BY DirectoryAssumption DEF Names
<1>2. QED
  BY <1>1 DEF AnyName

(* The temp names the counter yields are names, and it stays in range. *)
LEMMA CounterYieldsNames ==
  ASSUME NEW k \in Counters
  PROVE  TempName(k) \in Names /\ (k + 1) % TempWidth \in Counters
  BY DirectoryAssumption DEF Names, Counters

(* Linking a new file keeps what is known of the files and their number. *)
LEMMA LinkType ==
  ASSUME TypeOK, NEW n \in Names, Link(n)
  PROVE  /\ files' \in [Names -> 0 .. nfiles']
         /\ nfiles' \in 0 .. MaxFiles
         /\ nfiles' = nfiles + 1
         /\ nfiles \in Nat
  BY DirectoryAssumption DEF TypeOK, Link, NoFile, Exists

(* The types survive every step of every operation. *)
LEMMA TypeStep == TypeOK /\ [Next]_vars => TypeOK'
<1> SUFFICES ASSUME TypeOK, [Next]_vars PROVE TypeOK'
  OBVIOUS
<1>w. /\ nfiles \in Nat
      /\ \A S \in SUBSET (1 .. nfiles) : S \in SUBSET (1 .. nfiles + 1)
      /\ 0 .. nfiles \subseteq 0 .. nfiles + 1
  BY DirectoryAssumption DEF TypeOK
<1>a. AnyName \in Names
  BY AnyNameIsName
<1>1. ASSUME NEW d \in Dirs, Call(d) PROVE TypeOK'
  <2>1. CASE Construct(d)
    BY <2>1 DEF Construct, TypeOK, PC, Goto, disk, held
  <2>2. ASSUME NEW n \in Names, DeleteFile(d, n) PROVE TypeOK'
    <3>1. files[n] \in 1 .. nfiles
      BY <2>2, <1>w DEF DeleteFile, TypeOK, Exists, NoFile
    <3>2. QED
      BY <2>2, <3>1 DEF DeleteFile, TypeOK, PC, Goto, disk, held
  <2>3. CASE CheckPendingDeletions(d)
    BY <2>3, <1>a DEF CheckPendingDeletions, StartDrain, TypeOK, PC, Goto, disk, held
  <2>4. CASE Close(d)
    BY <2>4, <1>a DEF Close, StartDrain, TypeOK, PC, Goto, disk, held
  <2>5. ASSUME NEW n \in Names, CreateOutput(d, n) PROVE TypeOK'
    <3>1. CASE Link(n) /\ outs' = [outs EXCEPT ![d] = @ \cup {nfiles + 1}]
      <4>1. /\ files' \in [Names -> 0 .. nfiles']
            /\ nfiles' \in 0 .. MaxFiles
            /\ nfiles' = nfiles + 1
        BY <3>1, LinkType
      <4>2. pending_deletes' \in [Dirs -> SUBSET Names]
        BY <2>5 DEF CreateOutput, Forget, TypeOK
      <4>3. deleted' \in [Dirs -> SUBSET (1 .. nfiles)]
        BY <2>5 DEF CreateOutput, Forget, TypeOK
      <4>4. deleted' \in [Dirs -> SUBSET (1 .. nfiles')]
        BY <4>1, <4>3, <1>w
      <4>5. outs' \in [Dirs -> SUBSET (1 .. nfiles')]
        BY <3>1, <4>1, <1>w DEF TypeOK
      <4>6. ins' \in [Dirs -> SUBSET (1 .. nfiles')]
        BY <2>5, <4>1, <1>w DEF CreateOutput, TypeOK
      <4>7. QED
        BY <2>5, <4>1, <4>2, <4>4, <4>5, <4>6 DEF CreateOutput, TypeOK, frame
    <3>2. CASE UNCHANGED <<files, nfiles, outs>>
      <4>1. pending_deletes' \in [Dirs -> SUBSET Names]
        BY <2>5 DEF CreateOutput, Forget, TypeOK
      <4>2. deleted' \in [Dirs -> SUBSET (1 .. nfiles)]
        BY <2>5 DEF CreateOutput, Forget, TypeOK
      <4>3. QED
        BY <2>5, <3>2, <4>1, <4>2 DEF CreateOutput, TypeOK, frame
    <3>3. QED
      BY <2>5, <3>1, <3>2 DEF CreateOutput, OpenExclusive
  <2>6. CASE CreateTempOutput(d)
    BY <2>6, <1>a DEF CreateTempOutput, StartDrain, TypeOK, PC, Goto, disk, held
  <2>7. ASSUME NEW s \in Names, NEW t \in Names, Rename(d, s, t) PROVE TypeOK'
    <3>1. /\ pending_deletes' \in [Dirs -> SUBSET Names]
          /\ deleted' \in [Dirs -> SUBSET (1 .. nfiles)]
      BY <2>7 DEF Rename, Forget, TypeOK
    <3>2. CASE /\ files' = [files EXCEPT ![s] = NoFile, ![t] = files[s]]
               /\ StartDrain(d, pending_deletes'[d], "idle")
      <4>1. files' \in [Names -> 0 .. nfiles]
        BY <3>2, <1>w DEF TypeOK, NoFile
      <4>2. /\ pc' \in [Dirs -> PC] /\ cur' \in [Dirs -> Names]
            /\ todo' \in [Dirs -> SUBSET Names]
            /\ resume' \in [Dirs -> {"idle", "probe"}]
        BY <3>1, <3>2, <1>a DEF StartDrain, Goto, TypeOK, PC
      <4>3. QED
        BY <2>7, <3>1, <4>1, <4>2 DEF Rename, TypeOK, held
    <3>3. CASE UNCHANGED <<files, frame>>
      BY <2>7, <3>1, <3>3 DEF Rename, TypeOK, held, frame
    <3>4. QED
      BY <2>7, <3>2, <3>3 DEF Rename
  <2>8. ASSUME NEW S \in SUBSET Names, Sync(d, S) PROVE TypeOK'
    BY <2>8 DEF Sync, TypeOK, PC, Goto, disk, held
  <2>9. ASSUME NEW n \in Names, OpenInput(d, n) PROVE TypeOK'
    BY <2>9 DEF OpenInput, TypeOK, PC, Goto, disk, held
  <2>10. CASE CloseOutput(d)
    BY <2>10 DEF CloseOutput, TypeOK, disk, frame
  <2>11. CASE CloseInput(d)
    BY <2>11 DEF CloseInput, TypeOK, disk, frame
  <2>12. QED
    BY <1>1, <2>1, <2>2, <2>3, <2>4, <2>5, <2>6, <2>7, <2>8, <2>9, <2>10,
       <2>11 DEF Call
<1>2. ASSUME NEW d \in Dirs, Continue(d) PROVE TypeOK'
  <2>1. CASE MakeDirectory(d)
    BY <2>1 DEF MakeDirectory, TypeOK, PC, Goto, held
  <2>2. CASE Constructed(d)
    BY <2>2 DEF Constructed, TypeOK, PC, Goto, disk, held
  <2>3. ASSUME Unlink(d), pc[d] \in {"delete", "retry"}
        PROVE  /\ files' \in [Names -> 0 .. nfiles]
               /\ pending_deletes' \in [Dirs -> SUBSET Names]
               /\ deleted' \in [Dirs -> SUBSET (1 .. nfiles)]
    BY <2>3, <1>w DEF Unlink, TypeOK, NoFile
  <2>4. ASSUME Defer(d), pc[d] \in {"delete", "retry"}
        PROVE  /\ files' \in [Names -> 0 .. nfiles]
               /\ pending_deletes' \in [Dirs -> SUBSET Names]
               /\ deleted' \in [Dirs -> SUBSET (1 .. nfiles)]
    BY <2>4 DEF Defer, TypeOK
  <2>5. ASSUME NEW p \in SUBSET Names, NEW r \in {"idle", "probe"},
               StartDrain(d, p, r)
        PROVE  /\ pc' \in [Dirs -> PC] /\ cur' \in [Dirs -> Names]
               /\ todo' \in [Dirs -> SUBSET Names]
               /\ resume' \in [Dirs -> {"idle", "probe"}]
    BY <2>5, <1>a DEF StartDrain, TypeOK, PC, Goto
  <2>6. ASSUME Return(d)
        PROVE  /\ pc' \in [Dirs -> PC] /\ cur' \in [Dirs -> Names]
               /\ todo' \in [Dirs -> SUBSET Names]
               /\ resume' \in [Dirs -> {"idle", "probe"}]
    BY <2>6, <1>a DEF Return, TypeOK, PC, Goto
  <2>7. CASE RemoveFirst(d)
    <3>1. /\ files' \in [Names -> 0 .. nfiles]
          /\ pending_deletes' \in [Dirs -> SUBSET Names]
          /\ deleted' \in [Dirs -> SUBSET (1 .. nfiles)]
      BY <2>3, <2>4, <2>7 DEF RemoveFirst
    <3>2. pending_deletes'[d] \in SUBSET Names
      BY <3>1
    <3>3. /\ pc' \in [Dirs -> PC] /\ cur' \in [Dirs -> Names]
          /\ todo' \in [Dirs -> SUBSET Names]
          /\ resume' \in [Dirs -> {"idle", "probe"}]
      BY <2>5, <2>7, <3>2 DEF RemoveFirst
    <3>4. QED
      BY <2>7, <3>1, <3>3 DEF RemoveFirst, TypeOK, held
  <2>8. CASE Drain(d)
    BY <2>8, <1>a DEF Drain, Return, Goto, TypeOK, PC, disk, held
  <2>9. CASE DrainEnd(d)
    BY <2>9 DEF DrainEnd, Goto, TypeOK, PC, disk, held
  <2>10. CASE RetrySucceeds(d)
    <3>1. PICK left \in {todo[d], {}} : StartDrain(d, left, resume[d])
      BY <2>10 DEF RetrySucceeds
    <3>2. left \in SUBSET Names /\ resume[d] \in {"idle", "probe"}
      BY DEF TypeOK
    <3>3. /\ pc' \in [Dirs -> PC] /\ cur' \in [Dirs -> Names]
          /\ todo' \in [Dirs -> SUBSET Names]
          /\ resume' \in [Dirs -> {"idle", "probe"}]
      BY <2>5, <3>1, <3>2
    <3>4. QED
      BY <2>3, <2>10, <3>3 DEF RetrySucceeds, TypeOK, held
  <2>11. CASE RetryFails(d)
    <3>1. todo[d] \in SUBSET Names /\ resume[d] \in {"idle", "probe"}
      BY DEF TypeOK
    <3>2. /\ pc' \in [Dirs -> PC] /\ cur' \in [Dirs -> Names]
          /\ todo' \in [Dirs -> SUBSET Names]
          /\ resume' \in [Dirs -> {"idle", "probe"}]
      BY <2>5, <2>11, <3>1 DEF RetryFails
    <3>3. QED
      BY <2>4, <2>11, <3>2 DEF RetryFails, TypeOK, held
  <2>12. CASE RetryDies(d)
    BY <2>12, <1>a, <1>w, DirectoryAssumption
       DEF RetryDies, Die, Goto, TypeOK, PC, NoFile, Counters
  <2>13. CASE Probe(d)
    <3> DEFINE k == next_temp_file_counter[d]
    <3>1. TempName(k) \in Names /\ (k + 1) % TempWidth \in Counters
      BY CounterYieldsNames DEF TypeOK
    <3>2. next_temp_file_counter' \in [Dirs -> Counters]
      BY <2>13, <3>1 DEF Probe, TypeOK
    <3>3. cur' \in [Dirs -> Names] /\ pc' \in [Dirs -> PC]
      BY <2>13, <3>1 DEF Probe, TypeOK, Goto, PC
    <3>4. QED
      BY <2>13, <3>2, <3>3 DEF Probe, TypeOK, disk, held
  <2>14. CASE CreateTemp(d)
    <3>1. /\ pc' \in [Dirs -> PC] /\ cur' \in [Dirs -> Names]
          /\ todo' \in [Dirs -> SUBSET Names]
          /\ resume' \in [Dirs -> {"idle", "probe"}]
      BY <2>6, <2>14 DEF CreateTemp
    <3>2. cur[d] \in Names
      BY DEF TypeOK
    <3>3. CASE /\ Link(cur[d])
               /\ outs' = [outs EXCEPT ![d] = @ \cup {nfiles + 1}]
      <4>1. /\ files' \in [Names -> 0 .. nfiles']
            /\ nfiles' \in 0 .. MaxFiles
            /\ nfiles' = nfiles + 1
        BY <3>2, <3>3, LinkType
      <4>2. outs' \in [Dirs -> SUBSET (1 .. nfiles')]
        BY <3>3, <4>1, <1>w DEF TypeOK
      <4>3. /\ ins' \in [Dirs -> SUBSET (1 .. nfiles')]
            /\ deleted' \in [Dirs -> SUBSET (1 .. nfiles')]
        BY <2>14, <4>1, <1>w DEF CreateTemp, TypeOK
      <4>4. QED
        BY <2>14, <3>1, <4>1, <4>2, <4>3 DEF CreateTemp, TypeOK
    <3>4. CASE UNCHANGED <<files, nfiles, outs>>
      BY <2>14, <3>1, <3>4 DEF CreateTemp, TypeOK
    <3>5. QED
      BY <2>14, <3>3, <3>4 DEF CreateTemp, OpenExclusive
  <2>15. CASE FsyncOne(d)
    <3>1. PICK n \in todo[d] :
            \/ /\ Link(n) \/ (Exists(n) /\ UNCHANGED <<files, nfiles>>)
               /\ todo' = [todo EXCEPT ![d] = @ \ {n}]
               /\ UNCHANGED <<pc, cur, resume>>
            \/ /\ Link(n) \/ UNCHANGED <<files, nfiles>>
               /\ Return(d)
      BY <2>15 DEF FsyncOne
    <3>2. n \in Names
      BY DEF TypeOK
    <3>3. /\ pc' \in [Dirs -> PC] /\ cur' \in [Dirs -> Names]
          /\ todo' \in [Dirs -> SUBSET Names]
          /\ resume' \in [Dirs -> {"idle", "probe"}]
      BY <2>6, <3>1 DEF TypeOK
    <3>4. CASE Link(n)
      <4>1. /\ files' \in [Names -> 0 .. nfiles']
            /\ nfiles' \in 0 .. MaxFiles
            /\ nfiles' = nfiles + 1
        BY <3>2, <3>4, LinkType
      <4>2. /\ outs' \in [Dirs -> SUBSET (1 .. nfiles')]
            /\ ins' \in [Dirs -> SUBSET (1 .. nfiles')]
            /\ deleted' \in [Dirs -> SUBSET (1 .. nfiles')]
        BY <2>15, <4>1, <1>w DEF FsyncOne, TypeOK, held
      <4>3. QED
        BY <2>15, <3>3, <4>1, <4>2 DEF FsyncOne, TypeOK
    <3>5. CASE UNCHANGED <<files, nfiles>>
      BY <2>15, <3>3, <3>5 DEF FsyncOne, TypeOK, held
    <3>6. QED
      BY <3>1, <3>4, <3>5
  <2>16. CASE SyncEnd(d)
    BY <2>16, <1>a DEF SyncEnd, StartDrain, Goto, TypeOK, PC, disk, held
  <2>17. CASE MapInput(d)
    <3>1. Exists(cur[d]) => files[cur[d]] \in 1 .. nfiles
      BY <1>w DEF TypeOK, Exists, NoFile
    <3>2. QED
      BY <2>6, <2>17, <3>1 DEF MapInput, TypeOK, disk
  <2>18. QED
    BY <1>2, <2>1, <2>2, <2>7, <2>8, <2>9, <2>10, <2>11, <2>12, <2>13, <2>14,
       <2>15, <2>16, <2>17 DEF Continue
<1>3. ASSUME NEW d \in Dirs, Crash(d) PROVE TypeOK'
  BY <1>3, <1>a, DirectoryAssumption
     DEF Crash, Die, Goto, TypeOK, PC, Counters, disk
<1>4. CASE UNCHANGED vars
  BY <1>4 DEF vars, TypeOK
<1>5. QED
  BY <1>1, <1>2, <1>3, <1>4 DEF Next

(* Type correctness of every field of every object, of the loop of an
   interrupted operation and of the files that outputs and inputs hold. *)
THEOREM TypeCorrect == Spec => []TypeOK
<1>1. ASSUME Init PROVE TypeOK
  <2>1. 0 \in Counters /\ 0 \in 0 .. 0 /\ nfiles \in 0 .. MaxFiles
    BY <1>1, DirectoryAssumption DEF Init, Counters
  <2>2. files \in [Names -> 0 .. nfiles]
    BY <1>1, <2>1 DEF Init, NoFile
  <2>3. /\ outs \in [Dirs -> SUBSET (1 .. nfiles)]
        /\ ins \in [Dirs -> SUBSET (1 .. nfiles)]
        /\ deleted \in [Dirs -> SUBSET (1 .. nfiles)]
    BY <1>1 DEF Init
  <2>4. QED
    BY <1>1, <2>1, <2>2, <2>3, AnyNameIsName DEF Init, TypeOK, PC
<1>2. QED
  BY <1>1, TypeStep, PTL DEF Spec

--------------------------------------------------------------------------------

(* Two objects never write one file: a step that opens an output either adds a
   file nobody holds, numbered nfiles + 1, or opens none. *)
THEOREM OneWriterPerFile == Spec => []SingleWriter
<1>1. Init => SingleWriter
  BY DEF Init, SingleWriter
<1>2. ASSUME TypeOK, SingleWriter, [Next]_vars PROVE SingleWriter'
  <2>n. nfiles \in Nat /\ \A d \in Dirs : nfiles + 1 \notin outs[d]
    BY <1>2, DirectoryAssumption DEF TypeOK
  <2>1. ASSUME NEW d \in Dirs,
               outs' \in {[outs EXCEPT ![d] = @ \cup {nfiles + 1}], outs}
        PROVE  SingleWriter'
    BY <1>2, <2>1, <2>n DEF SingleWriter, TypeOK
  <2>2. ASSUME NEW d \in Dirs, NEW S \in SUBSET outs[d],
               outs' = [outs EXCEPT ![d] = S]
        PROVE  SingleWriter'
    BY <1>2, <2>2 DEF SingleWriter, TypeOK
  <2>3. ASSUME NEW d \in Dirs, Call(d) PROVE SingleWriter'
    <3>1. CASE UNCHANGED outs
      BY <1>2, <3>1 DEF SingleWriter
    <3>2. CASE CloseOutput(d)
      BY <2>2, <3>2 DEF CloseOutput
    <3>3. ASSUME NEW n \in Names, CreateOutput(d, n) PROVE SingleWriter'
      BY <2>1, <3>3 DEF CreateOutput, OpenExclusive
    <3>4. QED
      BY <2>3, <3>1, <3>2, <3>3 DEF Call, Construct, DeleteFile, Close, held,
         CheckPendingDeletions, CreateTempOutput, Rename, Sync, OpenInput,
         CloseInput
  <2>4. ASSUME NEW d \in Dirs, Continue(d) PROVE SingleWriter'
    <3>1. CASE UNCHANGED outs
      BY <1>2, <3>1 DEF SingleWriter
    <3>2. CASE CreateTemp(d)
      BY <2>1, <3>2 DEF CreateTemp, OpenExclusive
    <3>3. CASE RetryDies(d)
      BY <2>2, <3>3 DEF RetryDies, Die
    <3>4. QED
      BY <2>4, <3>1, <3>2, <3>3 DEF Continue, MakeDirectory, Constructed, held,
         RemoveFirst, Drain, DrainEnd, RetrySucceeds, RetryFails, Probe,
         FsyncOne, SyncEnd, MapInput
  <2>5. ASSUME NEW d \in Dirs, Crash(d) PROVE SingleWriter'
    BY <2>2, <2>5 DEF Crash, Die
  <2>6. CASE UNCHANGED vars
    BY <1>2, <2>6 DEF vars, SingleWriter
  <2>7. QED
    BY <1>2, <2>3, <2>4, <2>5, <2>6 DEF Next
<1>3. QED
  BY <1>1, <1>2, TypeCorrect, PTL DEF Spec

--------------------------------------------------------------------------------
(***************************************************************************)
(* One object that has the path for itself.                                *)
(***************************************************************************)

SoleOwner == \A d, e \in Dirs : d = e

(* A new file is owed by nobody, under a name that is pending for nobody. *)
LEMMA LinkKeepsSoleInv ==
  ASSUME TypeOK, SoleInv, NEW n \in Names, Link(n),
         UNCHANGED <<pending_deletes, deleted>>,
         NEW d \in Dirs, SoleOwner, pc[d] \in {"idle", "create", "fsync"},
         pc'[d] \in {"idle", "fsync"}
  PROVE  SoleInv'
<1> USE DEF SoleInv
<1>1. /\ nfiles \in Nat
      /\ \A m \in Names : files[m] # nfiles + 1
      /\ \A e \in Dirs : nfiles + 1 \notin deleted[e] /\ NoFile \notin deleted[e]
  BY DirectoryAssumption DEF TypeOK, NoFile
<1>2. files' = [files EXCEPT ![n] = nfiles + 1] /\ files[n] = NoFile
  BY DEF Link, Exists
<1>3. \A m, k \in Names : files'[m] = files'[k] /\ files'[m] # NoFile => m = k
  BY <1>1, <1>2 DEF TypeOK, Exists
<1>4. \A e \in Dirs : e = d
  BY DEF SoleOwner
<1>5. NoForgottenDelete'
  BY <1>1, <1>2, <1>4 DEF NoForgottenDelete, TypeOK
<1>6. RetriesHitOwedFiles'
  BY <1>1, <1>2, <1>4 DEF RetriesHitOwedFiles, TypeOK
<1>7. QED
  BY <1>3, <1>4, <1>5, <1>6 DEF Exists

(* Taking a name back keeps the rest: no other name has its file. *)
LEMMA ForgetKeepsSoleInv ==
  ASSUME SoleOwner, TypeOK, SoleInv, NEW d \in Dirs, NEW n \in Names,
         pc[d] = "idle", Forget(d, n), UNCHANGED <<files, frame>>
  PROVE  SoleInv'
<1> USE DEF SoleInv
<1>d. \A e \in Dirs : e = d
  BY DEF SoleOwner
<1>0. NoFile \notin deleted[d]
  BY DirectoryAssumption DEF TypeOK, NoFile
<1>1. /\ pending_deletes'[d] = pending_deletes[d] \ {n}
      /\ deleted'[d] = IF n \in pending_deletes[d] THEN deleted[d] \ {files[n]}
                                                   ELSE deleted[d]
      /\ files' = files /\ pc' = pc /\ cur' = cur /\ todo' = todo
  BY DEF Forget, frame, TypeOK
<1>2. NoForgottenDelete'
  BY <1>d, <1>1 DEF NoForgottenDelete
<1>3. ASSUME NEW m \in pending_deletes[d], m # n, m \in Names
      PROVE  files[m] \in deleted'[d]
  <2>1. files[m] \in deleted[d] /\ files[m] # NoFile
    BY <1>0, <1>3 DEF RetriesHitOwedFiles
  <2>2. files[m] # files[n]
    BY <1>3, <2>1 DEF Exists
  <2>3. QED
    BY <1>1, <2>1, <2>2
<1>4. RetriesHitOwedFiles'
  BY <1>d, <1>1, <1>3 DEF RetriesHitOwedFiles
<1>5. QED
  BY <1>d, <1>1, <1>2, <1>4 DEF Exists

(* Every step of the owner keeps what it owes and what it will retry equal. *)
LEMMA SoleStep ==
  ASSUME SoleOwner, TypeOK, SoleInv, [Next]_vars
  PROVE  SoleInv'
<1> USE DEF SoleInv
<1>f. \A e \in Dirs : NoFile \notin deleted[e]
  BY DirectoryAssumption DEF TypeOK, NoFile
<1>1. ASSUME NEW d \in Dirs, Call(d) PROVE SoleInv'
  <2>d. \A e \in Dirs : e = d
    BY DEF SoleOwner
  <2> USE <2>d
  <2> USE DEF NoForgottenDelete, RetriesHitOwedFiles
  <2>1. CASE Construct(d)
    BY <2>1 DEF Construct, TypeOK, Goto, disk, held, Exists
  <2>2. ASSUME NEW n \in Names, DeleteFile(d, n) PROVE SoleInv'
    BY <2>2 DEF DeleteFile, TypeOK, Goto, disk, held, Exists
  <2>3. CASE CheckPendingDeletions(d)
    BY <2>3 DEF CheckPendingDeletions, StartDrain, TypeOK, Goto, disk, held, Exists
  <2>4. CASE Close(d)
    BY <2>4 DEF Close, StartDrain, TypeOK, Goto, disk, held, Exists
  <2>5. ASSUME NEW n \in Names, CreateOutput(d, n) PROVE SoleInv'
    <3>1. CASE Link(n)
      <4>1. n \notin pending_deletes[d]
        BY <3>1, <1>f DEF Link, Exists
      <4>2. UNCHANGED <<pending_deletes, deleted>>
        BY <2>5, <4>1 DEF CreateOutput, Forget, TypeOK
      <4>3. QED
        BY <2>5, <3>1, <4>2, LinkKeepsSoleInv DEF CreateOutput, frame
    <3>2. CASE UNCHANGED files
      BY <2>5, <3>2, ForgetKeepsSoleInv DEF CreateOutput
    <3>3. QED
      BY <2>5, <3>1, <3>2 DEF CreateOutput, OpenExclusive
  <2>6. CASE CreateTempOutput(d)
    BY <2>6 DEF CreateTempOutput, StartDrain, TypeOK, Goto, disk, held, Exists
  <2>7. ASSUME NEW s \in Names, NEW t \in Names, Rename(d, s, t) PROVE SoleInv'
    <3>1. CASE /\ Exists(s)
               /\ files' = [files EXCEPT ![s] = NoFile, ![t] = files[s]]
               /\ StartDrain(d, pending_deletes'[d], "idle")
      <4> DEFINE owed == IF t \in pending_deletes[d] THEN deleted[d] \ {files[t]}
                                                       ELSE deleted[d]
      <4>1. /\ pending_deletes'[d] = pending_deletes[d] \ {t}
            /\ deleted'[d] = owed
            /\ pc'[d] = "drain" /\ todo'[d] = pending_deletes'[d]
            /\ pc[d] = "idle" /\ s \notin pending_deletes[d]
        BY <2>7, <3>1 DEF Rename, Forget, StartDrain, Goto, TypeOK
      <4>2. \A m \in Names : files'[m] = IF m = t THEN files[s]
                                  ELSE IF m = s THEN NoFile ELSE files[m]
        BY <3>1 DEF TypeOK
      <4>3. files[s] \notin deleted[d] /\ NoFile \notin deleted[d]
        BY <4>1, <1>f DEF NoForgottenDelete
      <4>4. NoForgottenDelete'
        BY <4>1, <4>2, <4>3 DEF NoForgottenDelete
      <4>5. \A m \in pending_deletes'[d] :
              m \in Names /\ m # t /\ m # s /\ files[m] \in deleted[d]
        BY <4>1 DEF RetriesHitOwedFiles, TypeOK
      <4>6. \A m \in pending_deletes'[d] : files[m] # files[t]
        BY <4>3, <4>5 DEF Exists
      <4>7. RetriesHitOwedFiles'
        BY <4>1, <4>2, <4>5, <4>6 DEF RetriesHitOwedFiles
      <4>8. \A m, k \in Names : files'[m] = files'[k] /\ files'[m] # NoFile => m = k
        BY <3>1, <4>2 DEF Exists
      <4>9. QED
        BY <4>1, <4>4, <4>7, <4>8 DEF Exists
    <3>2. CASE UNCHANGED <<files, frame>>
      BY <2>7, <3>2, ForgetKeepsSoleInv DEF Rename
    <3>3. QED
      BY <2>7, <3>1, <3>2 DEF Rename
  <2>8. ASSUME NEW S \in SUBSET Names, Sync(d, S) PROVE SoleInv'
    BY <2>8 DEF Sync, TypeOK, Goto, disk, held, Exists
  <2>9. ASSUME NEW n \in Names, OpenInput(d, n) PROVE SoleInv'
    BY <2>9 DEF OpenInput, TypeOK, Goto, disk, held, Exists
  <2>10. CASE CloseOutput(d)
    BY <2>10 DEF CloseOutput, disk, frame, Exists
  <2>11. CASE CloseInput(d)
    BY <2>11 DEF CloseInput, disk, frame, Exists
  <2>12. QED
    BY <1>1, <2>1, <2>2, <2>3, <2>4, <2>5, <2>6, <2>7, <2>8, <2>9, <2>10,
       <2>11 DEF Call
<1>2. ASSUME NEW d \in Dirs, Continue(d) PROVE SoleInv'
  <2>d. \A e \in Dirs : e = d
    BY DEF SoleOwner
  <2> USE <2>d
  <2> USE DEF NoForgottenDelete, RetriesHitOwedFiles
  <2>1. CASE MakeDirectory(d)
    BY <2>1 DEF MakeDirectory, TypeOK, Goto, held, Exists
  <2>2. CASE Constructed(d)
    BY <2>2 DEF Constructed, TypeOK, Goto, disk, held, Exists
  <2>3. CASE RemoveFirst(d)
    <3>1. CASE Unlink(d)
      BY <2>3, <3>1, <1>f DEF RemoveFirst, Unlink, StartDrain, Goto, TypeOK, Exists
    <3>2. CASE Defer(d)
      BY <2>3, <3>2 DEF RemoveFirst, Defer, StartDrain, Goto, TypeOK, Exists
    <3>3. QED
      BY <2>3, <3>1, <3>2 DEF RemoveFirst
  <2>4. CASE Drain(d)
    <3>1. PICK n \in todo[d] :
            IF Exists(n)
            THEN /\ Goto(d, "retry")
                 /\ cur' = [cur EXCEPT ![d] = n]
                 /\ todo' = [todo EXCEPT ![d] = @ \ {n}]
                 /\ UNCHANGED resume
            ELSE Return(d)
      BY <2>4 DEF Drain
    <3>2. n \in pending_deletes[d] /\ Exists(n)
      BY <2>4, <1>f DEF Drain, TypeOK, Exists
    <3>3. QED
      BY <2>4, <3>1, <3>2 DEF Drain, Goto, TypeOK, Exists, disk, held
  <2>5. CASE DrainEnd(d)
    BY <2>5 DEF DrainEnd, TypeOK, Goto, disk, held, Exists
  <2>6. CASE RetrySucceeds(d)
    BY <2>6, <1>f DEF RetrySucceeds, Unlink, StartDrain, Goto, TypeOK, Exists
  <2>7. CASE RetryFails(d)
    BY <2>7 DEF RetryFails, Defer, StartDrain, Goto, TypeOK, Exists
  <2>8. CASE RetryDies(d)
    BY <2>8, <1>f DEF RetryDies, Die, Goto, TypeOK, Exists
  <2>9. CASE Probe(d)
    BY <2>9 DEF Probe, TypeOK, Goto, disk, held, Exists
  <2>10. CASE CreateTemp(d)
    <3>1. CASE Link(cur[d])
      BY <2>10, <3>1, LinkKeepsSoleInv DEF CreateTemp, Return, Goto, TypeOK
    <3>2. CASE UNCHANGED files
      BY <2>10, <3>2 DEF CreateTemp, Return, Goto, TypeOK, Exists
    <3>3. QED
      BY <2>10, <3>1, <3>2 DEF CreateTemp, OpenExclusive
  <2>11. CASE FsyncOne(d)
    <3>1. CASE UNCHANGED files
      BY <2>11, <3>1 DEF FsyncOne, Return, Goto, TypeOK, Exists, held
    <3>2. ASSUME NEW n \in todo[d], Link(n) PROVE SoleInv'
      BY <2>11, <3>2, LinkKeepsSoleInv DEF FsyncOne, Return, Goto, TypeOK
    <3>3. QED
      BY <2>11, <3>1, <3>2 DEF FsyncOne
  <2>12. CASE SyncEnd(d)
    BY <2>12 DEF SyncEnd, StartDrain, TypeOK, Goto, disk, held, Exists
  <2>13. CASE MapInput(d)
    BY <2>13 DEF MapInput, Return, Goto, TypeOK, disk, Exists
  <2>14. QED
    BY <1>2, <2>1, <2>2, <2>3, <2>4, <2>5, <2>6, <2>7, <2>8, <2>9, <2>10,
       <2>11, <2>12, <2>13 DEF Continue
<1>3. ASSUME NEW d \in Dirs, Crash(d) PROVE SoleInv'
  <2>1. \A e \in Dirs : e = d
    BY DEF SoleOwner
  <2>2. QED
    BY <1>3, <2>1 DEF Crash, Die, Goto, disk, TypeOK, Exists,
       NoForgottenDelete, RetriesHitOwedFiles
<1>4. CASE UNCHANGED vars
  BY <1>4 DEF vars, NoForgottenDelete, RetriesHitOwedFiles, Exists
<1>5. QED
  BY <1>1, <1>2, <1>3, <1>4 DEF Next

LEMMA SoleInvariant == ASSUME SoleOwner PROVE Spec => []SoleInv
<1>1. Init => SoleInv
  BY DEF Init, SoleInv, NoForgottenDelete, RetriesHitOwedFiles, Exists
<1>2. TypeOK /\ SoleInv /\ [Next]_vars => SoleInv'
  BY SoleStep
<1>3. QED
  BY <1>1, <1>2, TypeCorrect, PTL DEF Spec

(* An accepted deletion is carried out, or stays on the list, or is withdrawn by
   the caller: an error from remove(2) never makes the object forget it. *)
THEOREM DeletesNotForgotten == ASSUME SoleOwner PROVE Spec => []NoForgottenDelete
<1>1. SoleInv => NoForgottenDelete
  BY DEF SoleInv
<1>2. QED
  BY <1>1, SoleInvariant, PTL

(* A retry removes the very file whose deletion was accepted, never one that
   took its name. *)
THEOREM RetriesAreSafe == ASSUME SoleOwner PROVE Spec => []RetriesHitOwedFiles
<1>1. SoleInv => RetriesHitOwedFiles
  BY DEF SoleInv
<1>2. QED
  BY <1>1, SoleInvariant, PTL

(* No OpenInput maps a file whose deletion is owed. *)
THEOREM OwedFilesAreNotRead == ASSUME SoleOwner PROVE Spec => DeletedStaysUnread
<1> DEFINE Unread == \A d \in Dirs : (ins'[d] \ ins[d]) \cap deleted[d] = {}
<1>1. ASSUME TypeOK, SoleInv, Next PROVE Unread
  <2>1. PICK d \in Dirs : Call(d) \/ Continue(d) \/ Crash(d)
    BY <1>1 DEF Next
  <2>2. \A e \in Dirs : e = d
    BY DEF SoleOwner
  <2>3. CASE ins'[d] \subseteq ins[d]
    BY <2>2, <2>3
  <2>4. CASE MapInput(d)
    <3>1. pc[d] = "open" /\ cur[d] \in Names /\ cur[d] \notin pending_deletes[d]
      BY <1>1, <2>4 DEF MapInput, SoleInv, TypeOK
    <3>2. files[cur[d]] \notin deleted[d]
      BY <1>1, <3>1 DEF SoleInv, NoForgottenDelete
    <3>3. ins'[d] \subseteq ins[d] \cup {files[cur[d]]}
      BY <1>1, <2>4 DEF MapInput, TypeOK
    <3>4. QED
      BY <2>2, <3>2, <3>3
  <2>5. CASE CloseInput(d)
    BY <1>1, <2>3, <2>5 DEF CloseInput, TypeOK
  <2>6. CASE RetryDies(d) \/ Crash(d)
    BY <1>1, <2>3, <2>6 DEF RetryDies, Crash, Die, TypeOK
  <2>7. CASE UNCHANGED ins
    BY <2>3, <2>7
  <2>8. QED
    BY <2>1, <2>4, <2>5, <2>6, <2>7 DEF Call, Continue, Construct, DeleteFile,
       CheckPendingDeletions, Close, CreateOutput, CreateTempOutput, Rename,
       Sync, OpenInput, CloseOutput, MakeDirectory, Constructed, RemoveFirst,
       Drain, DrainEnd, RetrySucceeds, RetryFails, Probe, CreateTemp, FsyncOne,
       SyncEnd, held
<1>2. TypeOK /\ SoleInv /\ [Next]_vars => [Unread]_vars
  BY <1>1
<1>3. QED
  BY <1>2, TypeCorrect, SoleInvariant, PTL DEF Spec, DeletedStaysUnread

--------------------------------------------------------------------------------
(***************************************************************************)
(* The promise of DeferredDeletes, kept by an owner.                       *)
(***************************************************************************)

LEMMA OwnersUnion ==
  ASSUME SoleOwner, NEW d \in Dirs
  PROVE  /\ UNION {deleted[e] : e \in Dirs} = deleted[d]
         /\ UNION {deleted'[e] : e \in Dirs} = deleted'[d]
         /\ UNION {ins[e] : e \in Dirs} = ins[d]
         /\ UNION {ins'[e] : e \in Dirs} = ins'[d]
<1>1. \A e \in Dirs : e = d
  BY DEF SoleOwner
<1>2. \A e \in Dirs : deleted[e] = deleted[d] /\ deleted'[e] = deleted'[d]
  BY <1>1
<1>3. \A e \in Dirs : ins[e] = ins[d] /\ ins'[e] = ins'[d]
  BY <1>1
<1>4. QED
  BY <1>2, <1>3, Zenon

(* Each call begins, and each system call is, a step of the promise or none. *)
LEMMA PromiseStep ==
  ASSUME SoleOwner, TypeOK, SoleInv, [Next]_vars
  PROVE  [Promise!Next]_(Promise!vars)
<1>1. ASSUME NEW d \in Dirs, Call(d) \/ Continue(d) \/ Crash(d)
      PROVE  [Promise!Next]_(Promise!vars)
  <2>d. /\ UNION {deleted[e] : e \in Dirs} = deleted[d]
        /\ UNION {deleted'[e] : e \in Dirs} = deleted'[d]
        /\ UNION {ins[e] : e \in Dirs} = ins[d]
        /\ UNION {ins'[e] : e \in Dirs} = ins'[d]
    BY OwnersUnion
  <2>t. /\ deleted \in [Dirs -> SUBSET (1..nfiles)] /\ ins \in [Dirs -> SUBSET (1..nfiles)]
        /\ nfiles \in Nat /\ files \in [Names -> 0..nfiles] /\ cur[d] \in Names
    BY DirectoryAssumption DEF TypeOK
  <2>f. NoFile \notin deleted[d] /\ Promise!NoFile = NoFile
    BY <2>t DEF NoFile, Promise!NoFile
  <2>p. /\ \A n \in Names : files[n] \in deleted[d] =>
             n \in pending_deletes[d] \/ (pc[d] = "delete" /\ cur[d] = n)
        /\ \A n \in Names :
             n \in pending_deletes[d] \/ (pc[d] \in {"delete", "retry"} /\ cur[d] = n) =>
               files[n] \in deleted[d]
    BY DEF SoleInv, NoForgottenDelete, RetriesHitOwedFiles
  <2> DEFINE Same == UNCHANGED <<files, nfiles, deleted, ins>>
  <2>s. ASSUME Same PROVE [Promise!Next]_(Promise!vars)
    BY <2>s DEF Promise!vars
  <2>l. ASSUME NEW n \in Names, Link(n), UNCHANGED <<deleted, ins>>
        PROVE  [Promise!Next]_(Promise!vars)
    <3>1. Promise!Create(n)
      BY <2>l, <2>f DEF Link, Exists, Promise!Create, Promise!Linked
    <3>2. QED
      BY <3>1 DEF Promise!Next
  <2>u. ASSUME pc[d] \in {"delete", "retry"}, Unlink(d), UNCHANGED <<nfiles, ins>>
        PROVE  [Promise!Next]_(Promise!vars)
    <3>1. files[cur[d]] \in deleted[d]
      BY <2>t, <2>p, <2>u
    <3>2. deleted'[d] = deleted[d] \ {files[cur[d]]}
      BY <2>t, <2>u DEF Unlink
    <3>3. PICK n \in Names : n = cur[d]
      BY <2>t
    <3>4. Promise!CarryOut(n)
      BY <2>d, <2>f, <2>u, <3>1, <3>2, <3>3 DEF Unlink, Promise!CarryOut
    <3>5. QED
      BY <3>4 DEF Promise!Next
  <2>b. ASSUME NEW n \in Names, pc[d] = "idle", Forget(d, n), UNCHANGED <<files, nfiles, ins>>
        PROVE  [Promise!Next]_(Promise!vars)
    <3>1. CASE n \in pending_deletes[d]
      <4>1. files[n] \in deleted[d]
        BY <2>p, <3>1
      <4>2. deleted'[d] = deleted[d] \ {files[n]}
        BY <2>t, <2>b, <3>1 DEF Forget
      <4>3. Promise!TakeBack(n)
        BY <2>d, <2>b, <4>1, <4>2 DEF Promise!TakeBack
      <4>4. QED
        BY <4>3 DEF Promise!Next
    <3>2. CASE n \notin pending_deletes[d]
      <4>1. deleted' = deleted
        BY <2>t, <2>b, <3>2 DEF Forget
      <4>2. QED
        BY <2>s, <2>b, <4>1
    <3>3. QED
      BY <3>1, <3>2
  <2> HIDE DEF Same
  <2>1. ASSUME NEW n \in Names, DeleteFile(d, n) PROVE [Promise!Next]_(Promise!vars)
    <3>1. files[n] \notin deleted[d] /\ files[n] # NoFile
      BY <2>p, <2>1 DEF DeleteFile, Exists
    <3>2. deleted'[d] = deleted[d] \cup {files[n]}
      BY <2>t, <2>1 DEF DeleteFile
    <3>3. Promise!Accept(n)
      BY <2>d, <2>f, <2>1, <3>1, <3>2 DEF DeleteFile, disk, held, Promise!Accept, Promise!Linked
    <3>4. QED
      BY <3>3 DEF Promise!Next
  <2>2. ASSUME NEW n \in Names, CreateOutput(d, n) PROVE [Promise!Next]_(Promise!vars)
    <3>1. CASE Link(n)
      <4>1. n \notin pending_deletes[d]
        BY <2>p, <2>f, <3>1 DEF Link, Exists
      <4>2. deleted' = deleted
        BY <2>t, <2>2, <4>1 DEF CreateOutput, Forget
      <4>3. QED
        BY <2>l, <2>2, <3>1, <4>2 DEF CreateOutput
    <3>2. CASE UNCHANGED <<files, nfiles>>
      BY <2>b, <2>2, <3>2 DEF CreateOutput
    <3>3. QED
      BY <2>2, <3>1, <3>2 DEF CreateOutput, OpenExclusive
  <2>3. ASSUME NEW source \in Names, NEW dest \in Names, Rename(d, source, dest)
        PROVE  [Promise!Next]_(Promise!vars)
    <3>1. pc[d] = "idle" /\ source \notin pending_deletes[d] /\ Forget(d, dest)
          /\ UNCHANGED <<nfiles, ins>>
      BY <2>3 DEF Rename, held
    <3>2. CASE UNCHANGED files
      BY <2>b, <3>1, <3>2
    <3>3. CASE /\ Exists(source)
               /\ files' = [files EXCEPT ![source] = NoFile, ![dest] = files[source]]
      <4>1. files[source] # NoFile /\ files[source] \notin deleted[d]
        BY <2>p, <3>1, <3>3 DEF Exists
      <4>2. deleted'[d] = deleted[d] \ {files[dest]}
        <5>1. dest \notin pending_deletes[d] => files[dest] \notin deleted[d]
          BY <2>p, <3>1
        <5>2. QED
          BY <2>t, <3>1, <5>1 DEF Forget
      <4>3. Promise!Rename(source, dest)
        BY <2>d, <2>f, <3>1, <3>3, <4>1, <4>2 DEF Promise!Rename, Promise!Linked
      <4>4. QED
        BY <4>3 DEF Promise!Next
    <3>4. QED
      BY <2>3, <3>2, <3>3 DEF Rename
  <2>4. CASE CloseInput(d)
    <3>1. ins'[d] \subseteq ins[d]
      BY <2>t, <2>4 DEF CloseInput
    <3>2. Promise!Release
      BY <2>d, <2>4, <3>1 DEF CloseInput, disk, Promise!Release
    <3>3. QED
      BY <3>2 DEF Promise!Next
  <2>5. ASSUME Call(d) PROVE [Promise!Next]_(Promise!vars)
    <3>1. \/ Same \/ CloseInput(d)
          \/ \E n \in Names : DeleteFile(d, n)
          \/ \E n \in Names : CreateOutput(d, n)
          \/ \E s, t \in Names : Rename(d, s, t)
      BY <2>5 DEF Call, Construct, CheckPendingDeletions, Close, CreateTempOutput, Sync,
         OpenInput, CloseOutput, disk, held, Same
    <3>2. QED
      BY <2>1, <2>2, <2>3, <2>4, <2>s, <3>1
  <2>6. CASE RemoveFirst(d) \/ RetrySucceeds(d) \/ RetryFails(d)
    <3>1. pc[d] \in {"delete", "retry"} /\ UNCHANGED <<nfiles, ins>>
      BY <2>6 DEF RemoveFirst, RetrySucceeds, RetryFails, held
    <3>2. Unlink(d) \/ UNCHANGED <<files, deleted>>
      BY <2>6 DEF RemoveFirst, RetrySucceeds, RetryFails, Defer
    <3>3. QED
      BY <2>u, <2>s, <3>1, <3>2 DEF Same
  <2>7. CASE Crash(d) \/ RetryDies(d)
    <3>1. deleted'[d] = {} /\ ins'[d] = {} /\ nfiles' = nfiles
      BY <2>t, <2>7 DEF Crash, RetryDies, Die, disk
    <3>2. \/ files' = files
          \/ files[cur[d]] \in deleted[d] /\ files' = [files EXCEPT ![cur[d]] = NoFile]
      BY <2>t, <2>p, <2>7 DEF Crash, RetryDies, disk
    <3>3. Promise!Stop
      BY <2>d, <2>t, <2>f, <3>1, <3>2 DEF Promise!Stop
    <3>4. QED
      BY <3>3 DEF Promise!Next
  <2>8. CASE CreateTemp(d)
    <3>1. UNCHANGED <<deleted, ins>> /\ (Link(cur[d]) \/ UNCHANGED <<files, nfiles>>)
      BY <2>8 DEF CreateTemp, OpenExclusive
    <3>2. QED
      BY <2>t, <2>l, <2>s, <3>1 DEF Same
  <2>9. CASE FsyncOne(d)
    <3>1. /\ UNCHANGED <<deleted, ins>>
          /\ (\E n \in todo[d] : Link(n)) \/ UNCHANGED <<files, nfiles>>
      BY <2>9 DEF FsyncOne, held
    <3>2. todo[d] \subseteq Names
      BY DEF TypeOK
    <3>3. QED
      BY <2>l, <2>s, <3>1, <3>2 DEF Same
  <2>10. CASE MapInput(d)
    <3>1. UNCHANGED <<files, nfiles, deleted>> /\ cur[d] \notin pending_deletes[d]
          /\ pc[d] = "open"
      BY <2>10 DEF MapInput, disk, SoleInv
    <3>2. files[cur[d]] \notin deleted[d]
      BY <2>t, <2>p, <3>1
    <3>3. CASE Exists(cur[d]) /\ ins' = [ins EXCEPT ![d] = @ \cup {files[cur[d]]}]
      <4>1. ins'[d] = ins[d] \cup {files[cur[d]]}
        BY <2>t, <3>3
      <4>2. PICK n \in Names : n = cur[d]
        BY <2>t
      <4>3. Promise!Read(n)
        BY <2>d, <2>f, <3>1, <3>2, <3>3, <4>1, <4>2 DEF Exists, Promise!Read, Promise!Linked
      <4>4. QED
        BY <4>3 DEF Promise!Next
    <3>4. CASE UNCHANGED ins
      BY <2>s, <3>1, <3>4 DEF Same
    <3>5. QED
      BY <2>10, <3>3, <3>4 DEF MapInput
  <2>11. ASSUME Continue(d) PROVE [Promise!Next]_(Promise!vars)
    <3>1. \/ Same \/ RemoveFirst(d) \/ RetrySucceeds(d) \/ RetryFails(d) \/ RetryDies(d)
          \/ CreateTemp(d) \/ FsyncOne(d) \/ MapInput(d)
      BY <2>11 DEF Continue, MakeDirectory, Constructed, Drain, DrainEnd, Probe, SyncEnd,
         disk, held, Same
    <3>2. QED
      BY <2>6, <2>7, <2>8, <2>9, <2>10, <2>s, <3>1
  <2>12. QED
    BY <1>1, <2>5, <2>7, <2>11
<1>2. CASE UNCHANGED vars
  BY <1>2 DEF vars, Promise!vars
<1>3. QED
  BY <1>1, <1>2 DEF Next

(* A directory object with its path for itself does with files only what
   DeferredDeletes allows: no file goes but one whose deletion was accepted and
   not taken back, or one that another is renamed over. *)
THEOREM DirectoryKeepsDeletePromise == ASSUME SoleOwner PROVE Spec => KeepsDeletePromise
<1>1. Init => Promise!Init
  <2> SUFFICES ASSUME Init PROVE Promise!Init
    OBVIOUS
  <2>1. UNION {deleted[e] : e \in Dirs} = {} /\ UNION {ins[e] : e \in Dirs} = {}
    BY DEF Init
  <2>2. QED
    BY <2>1 DEF Init, Promise!Init, NoFile, Promise!NoFile
<1>2. TypeOK /\ SoleInv /\ [Next]_vars => [Promise!Next]_(Promise!vars)
  BY PromiseStep
<1>3. QED
  BY <1>1, <1>2, TypeCorrect, SoleInvariant, PTL DEF Spec, KeepsDeletePromise, Promise!Spec

================================================================================
