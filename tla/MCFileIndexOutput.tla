-------------------------- MODULE MCFileIndexOutput --------------------------
(* FileIndexOutput with a buffer of a few bytes: chunks shorter than, as long
   as and longer than the buffer all occur. *)
EXTENDS FileIndexOutput

==============================================================================
