SPECIFICATION Spec
CONSTANTS
  c1 = c1
  c2 = c2
  c3 = c3
  Contents = {c1, c2, c3}
  Oversized = {c3}
  NoContent = NoContent
  Deleted = Deleted
  Malformed = Malformed
  Sha256 <- MCSha256
  Md5 <- MCMd5
  MaxEdits = 3
CHECK_DEADLOCK FALSE
INVARIANTS FetchedWasThere ArchiveStillThere RefusalsDeserved
