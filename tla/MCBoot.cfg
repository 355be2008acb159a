CONSTANTS
  Matches <- MCMatches
  PlatformOf <- MCPlatformOf
  Ctors = 3
  MaxErets = 3
  DataOff = 3
  LinkOff = 9
  Low = 8
  PageSize = 3
  None = None
  Heads <- MCHeads
  Images <- MCImages
  Boots <- MCBoots
SPECIFICATION Spec
CHECK_DEADLOCK FALSE
INVARIANT TypeOK
INVARIANT UntouchedPropsSurvive
INVARIANT DartIdsDistinct
INVARIANT PowerFlagsExclusive
INVARIANT RegionsPublished
INVARIANT CarveOutsDisjoint
INVARIANT CtorPasses
INVARIANT OnlyUnseededFault
INVARIANT EntryAbi
INVARIANT PointersRebased
