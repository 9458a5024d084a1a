SPECIFICATION IngestSpec
CONSTANTS
  Clients = {c1, c2}
  EvidenceIDs = {e1, e2}
  BatchIDs = {1}
  IdempotencyKeys = {k1, k2}
  RequestKeys = {r1}
  Sources = {s1, s2}
  Representations = {"original"}
  Documents = {d1}
  Nonces = {n1, n2, n3}
  References = {}
  Unreadable = Unreadable
  NoCall = NoCall
  NoEvidence = NoEvidence
  NoBatch = NoBatch
  NoReference = NoReference
  MaxSequence = 2
  MaxBatchEntries = 1
  MaxAcks = 3
PROPERTIES ExactRetryIdempotent
