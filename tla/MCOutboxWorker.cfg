SPECIFICATION PersistentSpec
CONSTANTS
  EvidenceIDs = {"e1", "e2"}
  BatchIDs = {1, 2}
  IdempotencyKeys = {"k1", "k2"}
  RequestKeys = {"r1", "r2"}
  Sources = {"s1", "s2"}
  Representations = {"original"}
  Documents = {"d1"}
  Nonces = {"n1", "n2"}
  References = {"p1"}
  NoBatch = NoBatch
  NoReference = NoReference
  MaxSequence = 2
  MaxBatchEntries = 2
  Workers = {w1, w2}
  NoTask = NoTask
  PageLimit = 1
  Persistent = w1
CHECK_DEADLOCK FALSE
INVARIANTS NothingForgotten
PROPERTIES OutboxDrains
