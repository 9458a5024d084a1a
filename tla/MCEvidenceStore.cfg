SPECIFICATION Spec
CONSTANTS
  EvidenceIDs = {e1, e2, e3}
  BatchIDs = {1, 2}
  IdempotencyKeys = {k1, k2, k3}
  RequestKeys = {r1, r2}
  Sources = {s1, s2}
  Representations = {"original", "derived"}
  Documents = {"d1"}
  Nonces = {"n1", "n2"}
  References = {"p1"}
  NoBatch = NoBatch
  NoReference = NoReference
  MaxSequence = 3
  MaxBatchEntries = 2
SYMMETRY Symmetry
INVARIANTS IndexesAgree PendingOrBatched FreezeOrder OutboxExact NeverCorrupt StoreInvariant
PROPERTIES EvidenceImmutable FreezeImmutable KeysStable ImplementsLedger
