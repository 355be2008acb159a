CONSTANTS
  MaxBack = 16
  Window = 12
  BlockSpan = 3
  AsmbWindow = 12
  Holds <- MCHolds
  Img4Needles <- MCNeedles
  Images <- MCImages
  MaxRuns = 2
SPECIFICATION Spec
CHECK_DEADLOCK FALSE
INVARIANT StubsAtEntry
INVARIANT SitesPredicted
INVARIANT RefusalLeavesImg4Only
