SPECIFICATION HandlingSpec
CONSTANTS
  MaxPath = 16
  MaxManifest = 65536
  Batches <- SmallBatches
  DocumentDigests = {0, 1}
  MaxLeaves = 9
  MaxTampered = 5
  MaxChanges = 3
  BoundarySizes = {65535, 65536}
INVARIANTS VerifyExact RootIsReference PathLengthAgrees VerifiedIsMember ExitCodesMean
