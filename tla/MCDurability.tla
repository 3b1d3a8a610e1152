---------------------------- MODULE MCDurability -----------------------------
(* Model-checking instance of Durability.  Writers are interchangeable. *)
EXTENDS Durability, TLC

WriterSymmetry == Permutations(Writers)
=============================================================================
