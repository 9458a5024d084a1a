SPECIFICATION IngestSpec
CONSTANTS
  Clients = {c1, c2}
  EvidenceIDs = {e1, e2}
  BatchIDs = {1}
  IdempotencyKeys = {k1, k2, k3}
  RequestKeys = {r1}
  Sources = {s1, s2, s3}
  Representations = {"original"}
  Documents = {d1, d2}
  Nonces = {n1, n2, n3}
  References = {}
  Unreadable = Unreadable
  NoCall = NoCall
  NoEvidence = NoEvidence
  NoBatch = NoBatch
  NoReference = NoReference
  MaxSequence = 2
  MaxBatchEntries = 1
  MaxAcks = 1
SYMMETRY Symmetry
INVARIANTS AcknowledgedStays
PROPERTIES ImplementsAtomicIngest
