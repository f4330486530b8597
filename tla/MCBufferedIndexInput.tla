-------------------------- MODULE MCBufferedIndexInput --------------------------
(* A file of six bytes, with a slice of the four in the middle. *)
EXTENDS BufferedIndexInput

CONSTANT s1

MCOffset == [s \in Slices |-> 1]
MCExtent == [s \in Slices |-> 4]

(* States that differ in the bytes behind a window are one: these are stored
   over before they are in a window, and of a read at a position that takes some
   of them for the input's no property says what it gives. *)
MCView ==
  LET Known(w) ==
        [w EXCEPT !.buffer = [k \in DOMAIN @ |-> IF k <= w.length THEN @[k] ELSE NoByte]]
  IN <<[i \in Inputs |-> Known(win[i])], device, wild, torn, faults>>

================================================================================
