---------------------------- MODULE MCNativeFSLock ----------------------------
(* Two threads in one process, one in another. *)
EXTENDS NativeFSLock, TLC

CONSTANTS t1, t2, t3, p1, p2

MCProc == t1 :> p1 @@ t2 :> p1 @@ t3 :> p2

================================================================================
