----------------------------- MODULE PrivateValues -----------------------------
(***************************************************************************)
(* What a CloseableThreadLocal promises as long as no object is shared     *)
(* between running threads: an object is born without values, and the      *)
(* value a thread gets changes only when that thread sets its first one,   *)
(* closes the object or ends, or when the object is destroyed.             *)
(***************************************************************************)
CONSTANTS Threads, Addrs, Values, NoValue

VARIABLES
  alive,   \* the addresses of objects
  value,   \* thread -> address -> what Get gives, or NoValue
  broken   \* an object was shared

vars == <<alive, value, broken>>

Init ==
  /\ alive = {}
  /\ value = [t \in Threads |-> [a \in Addrs |-> NoValue]]
  /\ broken = FALSE

New(a) ==
  /\ a \notin alive
  /\ \A t \in Threads : value[t][a] = NoValue
  /\ alive' = alive \cup {a}
  /\ UNCHANGED value

Set(t, a, v) ==
  /\ a \in alive /\ value[t][a] = NoValue
  /\ value' = [value EXCEPT ![t][a] = v]
  /\ UNCHANGED alive

Close(t, a) ==
  /\ a \in alive
  /\ value' = [value EXCEPT ![t][a] = NoValue]
  /\ UNCHANGED alive

Destroy(a) ==
  /\ alive' = alive \ {a}
  /\ value' = [t \in Threads |-> [value[t] EXCEPT ![a] = NoValue]]

End(t) ==
  /\ value' = [value EXCEPT ![t] = [a \in Addrs |-> NoValue]]
  /\ UNCHANGED alive

Promise ==
  \/ \E a \in Addrs : New(a) \/ Destroy(a)
  \/ \E t \in Threads, a \in Addrs : Close(t, a) \/ \E v \in Values : Set(t, a, v)
  \/ \E t \in Threads : End(t)

Next ==
  \/ ~broken /\ ~broken' /\ Promise
  \/ broken'

Spec == Init /\ [][Next]_vars

================================================================================
