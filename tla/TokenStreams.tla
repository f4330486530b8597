------------------------------ MODULE TokenStreams ------------------------------
(***************************************************************************)
(* What an Analyzer promises to whoever analyses a field: a stream of      *)
(* their own, that gives one accepted word of their text after the other,  *)
(* each at its place, and then ends.  That streams are used again and      *)
(* again is not to be seen, but where calls on one stream mix.             *)
(***************************************************************************)
EXTENDS Naturals, Sequences
CONSTANTS Threads, Users, StopWords, Texts, NoUse

VARIABLE use    \* thread -> user -> what they do

Init == use = [t \in Threads |-> [p \in Users |-> NoUse]]

Ask(u, v) ==
  /\ u.phase = "idle"
  /\ \E s \in Texts, own \in BOOLEAN :
       v = [NoUse EXCEPT !.phase = "looking", !.text = s, !.own = own]

Begin(u, v) ==
  \/ u.phase = "looking" /\ v = [u EXCEPT !.phase = "got"]
  \/ u.phase = "got" /\ v = [u EXCEPT !.phase = "running"]

Token(u, v) ==
  /\ u.phase = "running"
  /\ \E j \in u.at + 1..Len(u.text) :
       /\ u.text[j] \notin StopWords
       /\ \A i \in u.at + 1..j - 1 : u.text[i] \in StopWords
       /\ v = [u EXCEPT !.at = j, !.taken = @ \cup {<<j, u.text[j]>>}]

Exhaust(u, v) ==
  /\ u.phase = "running"
  /\ \A i \in u.at + 1..Len(u.text) : u.text[i] \in StopWords
  /\ v = [u EXCEPT !.phase = "exhausted"]

End(u, v) ==
  /\ u.phase = "exhausted"
  /\ v = [u EXCEPT !.phase = "ended", !.at = Len(u.text)]

(* Anybody may be refused, and may stop. *)
Leave(v) == v = NoUse

Step(u, v) ==
  \/ Ask(u, v) \/ Begin(u, v) \/ Token(u, v) \/ Exhaust(u, v) \/ End(u, v) \/ Leave(v)
  \/ u.harmed

(* One of them moves, and may harm others of the same thread. *)
Next ==
  \E t \in Threads, p \in Users :
    /\ Step(use[t][p], use'[t][p])
    /\ \A q \in Users \ {p} : use'[t][q] = use[t][q] \/ use'[t][q].harmed
    /\ \A s \in Threads \ {t} : use'[s] = use[s]

Spec == Init /\ [][Next]_use

================================================================================
