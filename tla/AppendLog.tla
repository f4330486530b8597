------------------------------- MODULE AppendLog -------------------------------
(***************************************************************************)
(* What an IndexOutput over a file promises: a log that only grows, of     *)
(* which the file always holds a prefix.  The prefix reaches the end of    *)
(* the log when the output is closed, and what was secured survives a loss *)
(* of power.  The promise ends when an error goes unnoticed.               *)
(***************************************************************************)
EXTENDS Naturals

VARIABLES
  log,      \* how many bytes were accepted
  kept,     \* how many of them, from the first one on, the file holds
  secured,  \* how many of them survive a loss of power
  phase,    \* "open", "closed" or "dead"
  broken    \* an error went unnoticed

vars == <<log, kept, secured, phase, broken>>

Init ==
  /\ log = 0 /\ kept = 0 /\ secured = 0
  /\ phase = "open"
  /\ broken = FALSE

(* Accept bytes; any of them, and any accepted before, may reach the file. *)
Accept ==
  /\ phase = "open"
  /\ log' >= log
  /\ kept' \in kept .. log'
  /\ UNCHANGED <<secured, phase>>

(* What is in the file is made durable. *)
Secure ==
  /\ phase # "dead"
  /\ secured' = kept
  /\ UNCHANGED <<log, kept, phase>>

Finish ==
  /\ phase = "open"
  /\ phase' = "closed"
  /\ kept' = log
  /\ UNCHANGED <<log, secured>>

Stop ==
  /\ phase' = "dead"
  /\ UNCHANGED <<log, kept, secured>>

PowerLoss ==
  /\ phase = "dead"
  /\ kept' \in secured .. kept
  /\ UNCHANGED <<log, secured, phase>>

Promise == Accept \/ Secure \/ Finish \/ Stop \/ PowerLoss

Next ==
  \/ ~broken /\ ~broken' /\ Promise
  \/ broken'

Spec == Init /\ [][Next]_vars

===============================================================================
