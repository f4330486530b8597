------------------------------ MODULE MCEncodings ------------------------------
(***************************************************************************)
(* Encodings of the numbers whose ones are one run of places, from and to  *)
(* where an encoding changes: 0, -1, powers of two, one less, the smallest *)
(* and the largest; strings whose length takes one and two bytes.          *)
(***************************************************************************)
EXTENDS Encodings
CONSTANTS Edges16, Edges32, Edges64

Runs(edges) == {{}} \cup {a..b : a, b \in edges}
Edges(k) == CASE Widths[k] = 16 -> Edges16 [] Widths[k] = 32 -> Edges32 [] OTHER -> Edges64
Char7 == {0, 7}
MCInputs ==
  [k \in Kinds |->
     IF k = "String" THEN {[i \in 1..n |-> Char7] : n \in {0, 1, 127, 128}}
     ELSE Runs(Edges(k))]
================================================================================
