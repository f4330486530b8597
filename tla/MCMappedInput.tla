----------------------------- MODULE MCMappedInput -----------------------------
(* Threads, inputs, addresses and cells are interchangeable. *)
EXTENDS MappedInput, TLC

Symmetry ==
  Permutations(Threads) \cup Permutations(Inputs) \cup Permutations(Cells)

================================================================================
