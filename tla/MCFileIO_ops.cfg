SPECIFICATION FairSpec
CONSTANTS
  Tree <- TreeSame
  DotPaths <- Dots
  BufSizes = {0, 1, 2, 3}
  Sizes <- AllSizes
  MaxBuf = 3
  MaxSize = 3
  MaxOps = 4
  Faults = {"error", "throw"}
INVARIANTS
  ReadsNoMore
  WritesExactly
  FsyncLosesNothing
  FsyncIsDurable
  CopyInBounds
  FollowsTarget
PROPERTIES
  ReadsEnough
  Ends
