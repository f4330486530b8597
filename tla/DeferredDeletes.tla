---------------------------- MODULE DeferredDeletes ----------------------------
(***************************************************************************)
(* What a directory promises to callers who have its path for themselves:  *)
(* no name loses its file but by a rename or by a deletion that was        *)
(* accepted; an accepted deletion is owed until it is carried out, unless  *)
(* its name is wanted for another file or the process ends; and nobody     *)
(* reads what is owed.                                                     *)
(***************************************************************************)
EXTENDS Naturals
CONSTANT Names
NoFile == 0

VARIABLES
  files,  \* name -> its file, or NoFile
  made,   \* how many files there ever were: they are numbered 1, 2, ...
  owed,   \* the files whose deletion was accepted
  read    \* the files that inputs have

vars == <<files, made, owed, read>>

Init == files = [n \in Names |-> NoFile] /\ made = 0 /\ owed = {} /\ read = {}

Linked(n) == files[n] # NoFile

Create(n) ==
  /\ ~Linked(n)
  /\ made' = made + 1
  /\ files' = [files EXCEPT ![n] = made + 1]
  /\ UNCHANGED <<owed, read>>

Accept(n) ==
  /\ Linked(n) /\ files[n] \notin owed
  /\ owed' = owed \cup {files[n]}
  /\ UNCHANGED <<files, made, read>>

CarryOut(n) ==
  /\ files[n] \in owed
  /\ files' = [files EXCEPT ![n] = NoFile]
  /\ owed' = owed \ {files[n]}
  /\ UNCHANGED <<made, read>>

TakeBack(n) ==
  /\ files[n] \in owed
  /\ owed' = owed \ {files[n]}
  /\ UNCHANGED <<files, made, read>>

Rename(source, dest) ==
  /\ Linked(source) /\ files[source] \notin owed
  /\ files' = [files EXCEPT ![source] = NoFile, ![dest] = files[source]]
  /\ owed' = owed \ {files[dest]}
  /\ UNCHANGED <<made, read>>

Read(n) ==
  /\ Linked(n) /\ files[n] \notin owed
  /\ read' = read \cup {files[n]}
  /\ UNCHANGED <<files, made, owed>>

Release == read' \subseteq read /\ UNCHANGED <<files, made, owed>>

(* A process may end in the middle of a deletion. *)
Stop ==
  /\ \/ UNCHANGED files
     \/ \E n \in Names : files[n] \in owed /\ files' = [files EXCEPT ![n] = NoFile]
  /\ owed' = {} /\ read' = {}
  /\ UNCHANGED made

Next ==
  \/ \E n \in Names : Create(n) \/ Accept(n) \/ CarryOut(n) \/ TakeBack(n) \/ Read(n)
  \/ \E source, dest \in Names : Rename(source, dest)
  \/ Release
  \/ Stop

Spec == Init /\ [][Next]_vars

================================================================================
