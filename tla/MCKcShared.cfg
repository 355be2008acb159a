CONSTANTS
  MaxBack = 16
  Window = 12
  BlockSpan = 3
  AsmbWindow = 12
  Holds <- MCHolds
  Img4Needles <- MCNeedles
  Images <- MCSharedImages
  MaxRuns = 1
SPECIFICATION Spec
CHECK_DEADLOCK FALSE
INVARIANT StubsAtEntry
