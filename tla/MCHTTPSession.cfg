SPECIFICATION SessionSpec
CONSTANTS
  EvidenceIDs = {e1, e2}
  BatchIDs = {1, 2}
  IdempotencyKeys = {k1, k2, k3}
  RequestKeys = {r1, r2}
  Sources = {s1, s2, s3}
  Representations = {"original"}
  Documents = {d1, d2}
  Nonces = {n1, n2}
  References = {}
  NoBatch = NoBatch
  NoReference = NoReference
  NoAnswer = NoAnswer
  MaxSequence = 2
  MaxBatchEntries = 2
  MaxPath = 16
  MaxManifest = 65536
SYMMETRY Symmetry
INVARIANTS AnswersAdvance EndpointsAgree 
