------------------------------- MODULE MCAnalyzer -------------------------------
(***************************************************************************)
(* Analyzer with texts of a word and a stop word.  The view leaves out     *)
(* what no step can look at before it is written again: a reader that no   *)
(* tokenizer points to, and the skipped positions of components whose      *)
(* user has not run out of tokens.  No more than two streams are in use at *)
(* a time, in one thread or in two.                                        *)
(***************************************************************************)
EXTENDS Analyzer, FiniteSets, TLC
CONSTANTS a, the
MCTexts == {<<the, a, the>>, <<>>}
Symmetry == Permutations(Threads) \cup Permutations(Users) \cup Permutations(Fields)

Pointed(t) == UNION {{comp[t][k].input, comp[t][k].pending} : k \in Fields}
Counting(t, k) == \E p \in Users : key[p] = k /\ use[t][p].phase = "exhausted"
Bound == Cardinality({x \in Threads \X Users : use[x[1]][x[2]].phase # "idle"}) <= 2

View ==
  <<key, closed, ended, running, stored,
    [t \in Threads |-> [k \in Fields |->
       IF Counting(t, k) THEN comp[t][k] ELSE [comp[t][k] EXCEPT !.skipped = 0]]],
    [t \in Threads |-> [r \in Readers |->
       IF r \in Pointed(t) \/ r \in {Own(p) : p \in Users} THEN reader[t][r] ELSE Empty]],
    use>>
================================================================================
