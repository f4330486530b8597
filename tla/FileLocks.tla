------------------------------- MODULE FileLocks -------------------------------
(***************************************************************************)
(* What a lock factory over lock files promises: whoever is handed a lock  *)
(* is alone with the file the lock was granted for, until the lock is      *)
(* closed or its process dies.                                             *)
(***************************************************************************)
CONSTANTS Locks, Files

VARIABLE holding   \* pairs <<lock, file>>: the locks handed out

Init == holding = {}

Grant(l, f) ==
  /\ \A h \in holding : h[2] # f
  /\ holding' = holding \cup {<<l, f>>}

(* A Close gives up one lock, the death of a process any number at once. *)
GiveUp == holding' \subseteq holding

Next ==
  \/ \E l \in Locks, f \in Files : Grant(l, f)
  \/ GiveUp

Spec == Init /\ [][Next]_holding

================================================================================
