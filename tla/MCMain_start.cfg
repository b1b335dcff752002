SPECIFICATION Spec
CONSTANTS
  LongMax = 7
  MaxBufferSize = 3
  Minute = 3
  DotName <- Dots
  Newline <- NewlineMC
  Longer <- LongerMC
  Cwd <- C
  Tree <- TreeMC
  Given <- GivenMC
  Plans <- PlansMC
  MaxOpts = 3
  FlistPath <- Flist
  RawArgs <- RawArgsMC
  MaxArgs = 2
  FlistKind = {"none", "reg", "symlink"}
  Faults = {"error", "throw", "gone"}
INVARIANTS
  DispatchAssumptions
  ShallowNeedsForce
  CreatedMeansComplete
  FlistFaithful
PROPERTIES
  FlistKept
