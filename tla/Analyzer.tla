------------------------------- MODULE Analyzer -------------------------------
(***************************************************************************)
(* Analysis/Analyzer.cpp and Analysis/TokenStream.cpp: GetTokenStream with *)
(* the two reuse strategies, and the token streams it hands out, again and *)
(* again: a tokenizer with a StopFilter behind it.                         *)
(*                                                                         *)
(* Somebody who analyses a field gets the stream of its components, resets *)
(* it, takes tokens until there are none, ends and closes it, or closes it *)
(* anywhere in between.  The components remain with the thread: with the   *)
(* per-field strategy one for each field, with the global one the same for *)
(* all fields.  Nothing keeps a thread from asking again before it has     *)
(* closed the stream it has, so two users in one thread can get into each  *)
(* other: under the global strategy any two, under the per-field one two   *)
(* that analyse the same field.                                            *)
(* A text is a sequence of words, and the tokenizer, which the code leaves *)
(* to others, takes one word for each token.                               *)
(***************************************************************************)
EXTENDS Integers, Sequences, StringReader
CONSTANTS
  Threads,
  Users,       (* those who analyse something in a thread, at a time once   *)
  Fields,      (* the names under which a strategy keeps components         *)
  Words, StopWords,
  Texts,       (* what is analysed                                          *)
  Illegal,     (* Tokenizer::ILLEGAL_STATE_READER                           *)
  Dead         (* a reader whose owner has destroyed it                     *)

Readers == (Users \X {TRUE}) \cup (Fields \X {FALSE})
Own(p) == <<p, TRUE>>         \* what user p brings along
Reusable(k) == <<k, FALSE>>   \* reusable_string_reader of components k

ASSUME AnalyzerAssumption ==
  /\ Texts \subseteq Seq(Words)
  /\ Illegal # Dead /\ Illegal \notin Readers /\ Dead \notin Readers

VARIABLES
  key,        \* the reuse strategy: user -> the name their components go by
  closed,     \* Analyzer::closed
  ended,      \* thread_local_closed of the strategy's stored_value
  running,    \* the threads that run
  stored,     \* thread -> the names under which it keeps components
  comp,       \* thread -> name -> its components
  reader,     \* thread -> reader -> its state
  use         \* thread -> user -> what they analyse, and how far they are

vars == <<key, closed, ended, running, stored, comp, reader, use>>

NewComponents == [input |-> Illegal, pending |-> Illegal, skipped |-> 0]
Empty == NewReader(<<>>)
NoUse == [phase |-> "idle", text |-> <<>>, own |-> FALSE, at |-> 0, taken |-> {},
          harmed |-> FALSE]

Components ==
  [input: Readers \cup {Illegal, Dead}, pending: Readers \cup {Illegal, Dead}, skipped: Nat]
ReaderStates == [str: Seq(Words), pos: Nat, eof: BOOLEAN, fail: BOOLEAN, mark: Nat]
Uses ==
  [phase: {"idle", "looking", "got", "running", "exhausted", "ended"}, text: Seq(Words),
   own: BOOLEAN, at: Nat, taken: SUBSET (Nat \X Words), harmed: BOOLEAN]

TypeOK ==
  /\ key \in [Users -> Fields]
  /\ closed \in BOOLEAN /\ ended \in BOOLEAN
  /\ running \subseteq Threads
  /\ stored \in [Threads -> SUBSET Fields]
  /\ comp \in [Threads -> [Fields -> Components]]
  /\ reader \in [Threads -> [Readers -> ReaderStates]]
  /\ use \in [Threads -> [Users -> Uses]]

Init ==
  /\ key \in [Users -> Fields]
  /\ closed = FALSE /\ ended = FALSE
  /\ running = Threads
  /\ stored = [t \in Threads |-> {}]
  /\ comp = [t \in Threads |-> [k \in Fields |-> NewComponents]]
  /\ reader = [t \in Threads |-> [r \in Readers |-> Empty]]
  /\ use = [t \in Threads |-> [p \in Users |-> NoUse]]

--------------------------------------------------------------------------------
Input(t, p) == comp[t][key[p]].input
Given(t, p) == IF use[t][p].own THEN Own(p) ELSE Reusable(key[p])
Looking(t) == \E p \in Users : use[t][p].phase = "looking"

(* What is in use is somebody's between Get and Close; a call that somebody
   else makes on the same components, be it only to get their stream, harms it,
   and what it is given from then on is not followed. *)
InUse(t, p) == use[t][p].phase \in {"got", "running", "exhausted", "ended"}
Harmed(u) == [u EXCEPT !.harmed = TRUE, !.at = 0, !.taken = {}]
Others(t, p, u) ==
  [use EXCEPT ![t] = [q \in Users |->
     IF q = p THEN u
     ELSE IF InUse(t, q) /\ key[q] = key[p] THEN Harmed(use[t][q]) ELSE use[t][q]]]

(* Whoever is through with a stream destroys the reader they brought along.  A
   stream that reads from it after that takes no more steps here: what it would
   do is undefined. *)
Bury(t, p, c) ==
  [c EXCEPT !.input = IF @ = Own(p) THEN Dead ELSE @,
            !.pending = IF @ = Own(p) THEN Dead ELSE @]

(* GetTokenStream as far as the strategy's GetReusableComponents, which throws
   when the analyzer is closed or a thread that had components has ended.
   Whether the components are in use is not asked. *)
Look(t, p, s, own) ==
  /\ t \in running /\ ~Looking(t)
  /\ use[t][p].phase = "idle"
  /\ ~closed /\ ~ended
  /\ use' = [use EXCEPT ![t][p] = [NoUse EXCEPT !.phase = "looking", !.text = s,
                                                !.own = own]]
  /\ UNCHANGED <<key, closed, ended, running, stored, comp, reader>>

(* SetReusableComponents asks both again: the components just created are not
   kept. *)
StoreThrows(t, p) ==
  /\ use[t][p].phase = "looking"
  /\ key[p] \notin stored[t]
  /\ closed \/ ended
  /\ use' = [use EXCEPT ![t][p] = NoUse]
  /\ UNCHANGED <<key, closed, ended, running, stored, comp, reader>>

(* The rest of GetTokenStream.  The text has gone into the reusable reader
   before Tokenizer::SetReader finds that somebody has yet to close. *)
Provide(t, p) ==
  LET k == key[p]
      u == use[t][p]
      refused == comp[t][k].input # Illegal
  IN
  /\ u.phase = "looking"
  /\ k \in stored[t] \/ ~(closed \/ ended)
  /\ stored' = [stored EXCEPT ![t] = @ \cup {k}]
  /\ reader' = [reader EXCEPT ![t][Given(t, p)] =
                  IF ~u.own THEN SetValue(@, u.text)
                  ELSE IF refused THEN Empty ELSE NewReader(u.text)]
  /\ IF refused
     THEN /\ use' = IF u.own THEN [use EXCEPT ![t][p] = NoUse] ELSE Others(t, p, NoUse)
          /\ UNCHANGED comp
     ELSE /\ comp' = [comp EXCEPT ![t][k].pending = Given(t, p)]
          /\ use' = Others(t, p, [u EXCEPT !.phase = "got"])
  /\ UNCHANGED <<key, closed, ended, running>>

(* Tokenizer::Reset through FilteringTokenFilter::Reset. *)
ResetStream(t, p) ==
  /\ ~Looking(t)
  /\ use[t][p].phase = "got"
  /\ comp' = [comp EXCEPT ![t][key[p]].input = comp[t][key[p]].pending,
                          ![t][key[p]].skipped = 0]
  /\ use' = Others(t, p, [use[t][p] EXCEPT !.phase = "running"])
  /\ UNCHANGED <<key, closed, ended, running, stored, reader>>

(* StopFilter::IncrementToken gets its next word from place j of what the
   reader has, and nothing from there on if j is behind the end. *)
NextAt(r, j) ==
  /\ j \in r.pos + 1..Len(r.str) + 1
  /\ \A i \in r.pos + 1..j - 1 : r.str[i] \in StopWords
  /\ j <= Len(r.str) => r.str[j] \notin StopWords

(* Mutant: the words skipped before the last call count again. *)
KeepSkipped(c) == c.skipped

(* IncrementToken starts with none skipped. *)
StartSkipped(c) == 0

(* Mutant: the difference is taken the other way round. *)
RestBackwards(r) == IF Good(r) THEN r.pos - Len(r.str) ELSE 0

(* How many words come before the end, all of them to be skipped. *)
Rest(r) == IF Good(r) THEN Len(r.str) - r.pos ELSE 0

(* A token, whose position lies its increment behind the one before. *)
Take(u, word, increment) ==
  IF u.harmed THEN u
  ELSE [u EXCEPT !.at = @ + increment, !.taken = @ \cup {<<u.at + increment, word>>}]

IncrementToken(t, p) ==
  LET r == reader[t][Input(t, p)] IN
  /\ ~Looking(t)
  /\ use[t][p].phase = "running"
  /\ Input(t, p) \in Readers /\ Good(r)
  /\ \E j \in 1..Len(r.str) :
       /\ NextAt(r, j)
       /\ reader' = [reader EXCEPT ![t][Input(t, p)].pos = j]
       /\ LET skipped == StartSkipped(comp[t][key[p]]) + (j - (r.pos + 1)) IN
            /\ comp' = [comp EXCEPT ![t][key[p]].skipped = skipped]
            /\ use' = Others(t, p, Take(use[t][p], r.str[j], 1 + skipped))
  /\ UNCHANGED <<key, closed, ended, running, stored>>

(* No token is left.  skipped_positions holds what End is to add. *)
NoToken(t, p) ==
  LET r == reader[t][Input(t, p)] IN
  /\ ~Looking(t)
  /\ use[t][p].phase = "running"
  /\ Input(t, p) \in Readers
  /\ Good(r) => NextAt(r, Len(r.str) + 1)
  /\ reader' = [reader EXCEPT ![t][Input(t, p)] =
                  IF Good(r) THEN Get([r EXCEPT !.pos = Len(r.str)]) ELSE Get(r)]
  /\ comp' = [comp EXCEPT ![t][key[p]].skipped =
                StartSkipped(comp[t][key[p]]) + Rest(r)]
  /\ use' = Others(t, p, [use[t][p] EXCEPT !.phase = "exhausted"])
  /\ UNCHANGED <<key, closed, ended, running, stored>>

(* IllegalStateReader::Read throws, after skipped_positions has been set. *)
IncrementThrows(t, p) ==
  /\ ~Looking(t)
  /\ use[t][p].phase = "running"
  /\ Input(t, p) = Illegal
  /\ comp' = [comp EXCEPT ![t][key[p]].skipped = 0]
  /\ use' = Others(t, p, use[t][p])
  /\ UNCHANGED <<key, closed, ended, running, stored, reader>>

(* FilteringTokenFilter::End, on attributes that EndAttributes has emptied. *)
End(t, p) ==
  /\ ~Looking(t)
  /\ use[t][p].phase = "exhausted"
  /\ use' = Others(t, p, [use[t][p] EXCEPT
                            !.phase = "ended",
                            !.at = IF use[t][p].harmed THEN @
                                   ELSE @ + comp[t][key[p]].skipped])
  /\ UNCHANGED <<key, closed, ended, running, stored, comp, reader>>

(* Mutant: the tokenizer keeps the reader it has closed. *)
KeepInput(c) == [c EXCEPT !.pending = Illegal]

Detach(c) == [c EXCEPT !.input = Illegal, !.pending = Illegal]

(* Tokenizer::Close through TokenFilter::Close. *)
Close(t, p) ==
  /\ ~Looking(t) /\ InUse(t, p)
  /\ Input(t, p) \in Readers
  /\ reader' = [reader EXCEPT ![t] = [r \in Readers |->
                  IF r = Own(p) THEN Empty
                  ELSE IF r = Input(t, p) THEN CloseReader(@[r]) ELSE @[r]]]
  /\ comp' = [comp EXCEPT ![t][key[p]] = Detach(@)]
  /\ use' = Others(t, p, NoUse)
  /\ UNCHANGED <<key, closed, ended, running, stored>>

(* A stream that was not reset has the illegal reader for its input, whose
   Close throws: the one it was given stays pending. *)
CloseThrows(t, p) ==
  /\ ~Looking(t) /\ InUse(t, p)
  /\ Input(t, p) = Illegal
  /\ reader' = [reader EXCEPT ![t][Own(p)] = Empty]
  /\ comp' = [comp EXCEPT ![t][key[p]] = Bury(t, p, @)]
  /\ use' = Others(t, p, NoUse)
  /\ UNCHANGED <<key, closed, ended, running, stored>>

(* Analyzer::Close. *)
CloseAnalyzer ==
  /\ ~closed
  /\ closed' = TRUE
  /\ UNCHANGED <<key, ended, running, stored, comp, reader, use>>

(* The end of a thread takes its components with it and leaves its mark on the
   strategy, see CloseableThreadLocal. *)
Exit(t) ==
  /\ t \in running
  /\ \A p \in Users : use[t][p].phase = "idle"
  /\ running' = running \ {t}
  /\ ended' = (ended \/ stored[t] # {})
  /\ stored' = [stored EXCEPT ![t] = {}]
  /\ comp' = [comp EXCEPT ![t] = [k \in Fields |-> NewComponents]]
  /\ reader' = [reader EXCEPT ![t] = [r \in Readers |-> Empty]]
  /\ UNCHANGED <<key, closed, use>>

Next ==
  \/ CloseAnalyzer
  \/ \E t \in Threads :
       \/ Exit(t)
       \/ \E p \in Users :
            \/ \E s \in Texts, own \in BOOLEAN : Look(t, p, s, own)
            \/ StoreThrows(t, p)
            \/ Provide(t, p)
            \/ ResetStream(t, p)
            \/ IncrementToken(t, p)
            \/ NoToken(t, p)
            \/ IncrementThrows(t, p)
            \/ End(t, p)
            \/ Close(t, p)
            \/ CloseThrows(t, p)

Spec == Init /\ [][Next]_vars

--------------------------------------------------------------------------------
(* The words of a text up to a place that a StopFilter lets through, each with
   its position. *)
Accepted(s, n) == {<<i, s[i]>> : i \in {j \in 1..n : s[j] \notin StopWords}}

(* Whoever is not interfered with takes exactly the words of the text they
   asked for, each at its place, and ends up behind the last: whatever earlier
   users of the components left in them, who may have stopped in the middle,
   closed without a reset, been refused or been interfered with.  And nobody is
   interfered with but by another user of the same components in the same
   thread, who asks for their stream before it is closed: under the per-field
   strategy only for the same field, never by a use of another field. *)
TokensAreAsked ==
  \A t \in Threads, p \in Users :
    LET u == use[t][p] IN
    /\ u.harmed => \E q \in Users \ {p} : key[q] = key[p]
    /\ u.phase \in {"running", "exhausted", "ended"} /\ ~u.harmed =>
         /\ u.at <= Len(u.text)
         /\ u.taken = Accepted(u.text, u.at)
         /\ u.phase = "exhausted" => u.taken = Accepted(u.text, Len(u.text))
         /\ u.phase = "ended" => u.at = Len(u.text)

(* Components that nobody uses have the illegal reader for their input, so that
   the next call gets their stream; and nobody's stream reads from a reader that
   is gone, unless it was interfered with. *)
LeftUsable ==
  \A t \in Threads :
    /\ \A k \in Fields :
         (\A p \in Users : key[p] = k => ~InUse(t, p)) => comp[t][k].input = Illegal
    /\ \A p \in Users :
         InUse(t, p) /\ ~use[t][p].harmed => Input(t, p) # Dead

(* The inductive invariant behind both.  What components point to is theirs. *)
PointsTo(c, k) ==
  LET mine == {Illegal, Dead, Reusable(k)} \cup {Own(p) : p \in {q \in Users : key[q] = k}}
  IN  c.input \in mine /\ c.pending \in mine

(* How far somebody's reader, components and tokens are, as long as nobody else
   interferes. *)
InStep(t, p) ==
  LET u == use[t][p]
      c == comp[t][key[p]]
      r == reader[t][Given(t, p)]
  IN
  /\ u.taken = Accepted(u.text, u.at)
  /\ u.phase = "got" =>
       c.input = Illegal /\ c.pending = Given(t, p) /\ r.str = u.text /\ Good(r)
       /\ r.pos = 0 /\ u.at = 0
  /\ u.phase # "got" => c.input = Given(t, p) /\ u.at <= Len(u.text)
  /\ u.phase = "running" => r.str = u.text /\ Good(r) /\ r.pos = u.at
  /\ u.phase = "exhausted" =>
       /\ u.at + c.skipped = Len(u.text)
       /\ \A i \in u.at + 1..Len(u.text) : u.text[i] \in StopWords
  /\ u.phase = "ended" => u.at = Len(u.text)

Idle(t, p) == use[t][p].phase \in {"idle", "looking"}

ThreadInv(t) ==
  /\ \A r \in Readers : reader[t][r].pos <= Len(reader[t][r].str)
  /\ \A k \in Fields :
       /\ PointsTo(comp[t][k], k)
       /\ (\A p \in Users : key[p] = k => ~InUse(t, p)) => comp[t][k].input = Illegal
  /\ \A p \in Users :
       /\ Idle(t, p) => ~use[t][p].harmed /\ use[t][p].at = 0 /\ use[t][p].taken = {}
       /\ InUse(t, p) /\ ~use[t][p].harmed => InStep(t, p)
       /\ use[t][p].harmed => \E q \in Users \ {p} : key[q] = key[p]
       /\ \A q \in Users :
            InUse(t, p) /\ InUse(t, q) /\ key[p] = key[q]
            /\ ~use[t][p].harmed /\ ~use[t][q].harmed => p = q

AnalyzerInv == TypeOK /\ \A t \in Threads : ThreadInv(t)

(* Reusing components is not to be seen: each use of GetTokenStream goes on as if
   its stream were new, by one accepted word of its own text at a time, whatever
   the other uses and threads do, unless calls on the same components mix. *)
Streams == INSTANCE TokenStreams
ImplementsTokenStreams == Streams!Spec

================================================================================
