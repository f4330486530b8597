---------------------------- MODULE MCFSDirectory ----------------------------
(* FSDirectory on small instances: two objects that share a path, and one
   that owns it. *)
EXTENDS FSDirectory

(* What SingleWriter and CallsReturn, and every step but the closing of an input,
   depend on.  A file counts by its name: one that has none any more is never
   opened again.  What is mapped or was deleted does not count. *)
SharedView ==
  <<here, [n \in Names |-> Exists(n)], nfiles, is_open, pending_deletes,
    next_temp_file_counter, frame,
    [d \in Dirs |-> {n \in Names : files[n] \in outs[d]}]>>

==============================================================================
