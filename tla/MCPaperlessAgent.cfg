SPECIFICATION FairSpec
CONSTANTS
  Docs = {doc1, doc2}
  Contents = {c1, c2}
  Kinds = {"original"}
  EventIDs = {i1, i2}
  Webhooks = {w1}
  Reconciler = reconciler
  Unfetchable = {doc2}
  EvidenceIDs = {"e1", "e2", "e3"}
  Capacity = 3
  NoEvent = NoEvent
  NoCall = NoCall
  NoEvidence = NoEvidence
  NoLoop = NoLoop
  Limits = {1, 2}
  MaxInFlight = 1
  MaxDisturbances = 2
CHECK_DEADLOCK FALSE
INVARIANTS EvidenceHasVersion NeverConflicts
PROPERTIES CurrentCaptured WritebacksDieOut
