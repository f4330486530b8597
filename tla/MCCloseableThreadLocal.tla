-------------------------- MODULE MCCloseableThreadLocal --------------------------
EXTENDS CloseableThreadLocal, TLC

(* Threads, addresses and values are interchangeable. *)
MCSymmetry ==
  Permutations(Threads) \cup Permutations(Addrs) \cup Permutations(Values)

===============================================================================
