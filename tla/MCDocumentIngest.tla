---------------------------- MODULE MCDocumentIngest ----------------------------
(* Small instances of DocumentIngest for TLC. *)
EXTENDS DocumentIngest, TLC

Symmetry == Permutations(EvidenceIDs) \cup Permutations(IdempotencyKeys)
            \cup Permutations(Sources) \cup Permutations(Nonces)
            \cup Permutations(Clients) \cup Permutations(Documents)
================================================================================
