---------------------------- MODULE MCEvidenceExport ----------------------------
(* A small instance of EvidenceExport for TLC: batches of up to three members, so
   that trees are unbalanced and paths of different lengths. *)
EXTENDS EvidenceExport, TLC

Symmetry == Permutations(EvidenceIDs) \cup Permutations(IdempotencyKeys)
            \cup Permutations(RequestKeys) \cup Permutations(Sources)
================================================================================
