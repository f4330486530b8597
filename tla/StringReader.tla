----------------------------- MODULE StringReader -----------------------------
(***************************************************************************)
(* Analysis/Reader.cpp: StringReader, an istringstream and a mark, as      *)
(* operators on records: a call takes a reader to a reader.  What is here  *)
(* is what Analyzer and a tokenizer that reads by the word call; the       *)
(* stream's part is what the standard says of get() with the bits eof and  *)
(* fail: when a bit is set it does nothing but set fail.                   *)
(***************************************************************************)
LOCAL INSTANCE Integers
LOCAL INSTANCE Sequences

Rewound(s, mark) == [str |-> s, pos |-> 0, eof |-> FALSE, fail |-> FALSE, mark |-> mark]

(* The constructors, given a string. *)
NewReader(s) == Rewound(s, 0)

Good(r) == ~r.eof /\ ~r.fail
AtEnd(r) == r.pos = Len(r.str)

(* SetValue: the bits and the string are new, the mark stays. *)
SetValue(r, s) == Rewound(s, r.mark)

(* Read: one character. *)
Get(r) ==
  CASE ~Good(r)             -> [r EXCEPT !.fail = TRUE]
    [] Good(r) /\ AtEnd(r)  -> [r EXCEPT !.eof = TRUE, !.fail = TRUE]
    [] Good(r) /\ ~AtEnd(r) -> [r EXCEPT !.pos = @ + 1]

CloseReader(r) == [r EXCEPT !.eof = TRUE]

================================================================================
