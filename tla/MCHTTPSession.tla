----------------------------- MODULE MCHTTPSession -----------------------------
(* Small instances of HTTPSession for TLC. *)
EXTENDS HTTPSession, TLC

Symmetry == Permutations(EvidenceIDs) \cup Permutations(IdempotencyKeys)
            \cup Permutations(RequestKeys) \cup Permutations(Sources) \cup Permutations(Nonces) \cup Permutations(Documents)
================================================================================
