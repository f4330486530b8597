----------------------------- MODULE MCAttributeSource -----------------------------
EXTENDS AttributeSource, TLC

(* Types of attributes are interchangeable. *)
MCSymmetry == Permutations(Types)

===============================================================================
