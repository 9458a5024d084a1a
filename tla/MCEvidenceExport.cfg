SPECIFICATION Spec
CONSTANTS
  EvidenceIDs = {e1, e2, e3}
  BatchIDs = {1, 2}
  IdempotencyKeys = {k1, k2, k3}
  RequestKeys = {r1, r2}
  Sources = {s1, s2, s3}
  Representations = {"original"}
  Documents = {"d1", "d2"}
  Nonces = {"n1"}
  References = {}
  NoBatch = NoBatch
  NoReference = NoReference
  MaxSequence = 3
  MaxBatchEntries = 3
  MaxPath = 16
  MaxManifest = 65536
SYMMETRY Symmetry
INVARIANTS ExportsProve ManifestCovers
PROPERTIES ExportStable
