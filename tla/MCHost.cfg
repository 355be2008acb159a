CONSTANTS
  MaxBack = 1
  Window = 1
  BlockSpan = 1
  AsmbWindow = 1
  Holds <- MCHolds
  Reach <- MCReach
  Narrow = 16
  Wide = 256
  PageSize = 4
  Builds <- MCBuilds
  Probed <- MCProbed
  Caches <- MCCaches
  HashRuns <- MCHashRuns
  Drivers <- MCDrivers
  Named <- MCNamed
SPECIFICATION Spec
CHECK_DEADLOCK FALSE
INVARIANT IndependentTools
INVARIANT StartMatrix
INVARIANT ProbesStayInPlace
INVARIANT ErrnosTellApart
INVARIANT CacheFits
INVARIANT HashesKept
INVARIANT SizesExact
