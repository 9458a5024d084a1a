---------------------------- MODULE MCEvidenceStore ----------------------------
(* A small instance of EvidenceStore for TLC.  Names other than batch ids are  *)
(* only compared for equality, so permuting them permutes behaviours.          *)
EXTENDS EvidenceStore, TLC

Symmetry == Permutations(EvidenceIDs) \cup Permutations(IdempotencyKeys)
            \cup Permutations(RequestKeys) \cup Permutations(Sources)
================================================================================
