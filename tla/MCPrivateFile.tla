----------------------------- MODULE MCPrivateFile -----------------------------
(* Small instance of PrivateFile for TLC. *)
EXTENDS PrivateFile, TLC

Symmetry == Permutations(Writers)
================================================================================
