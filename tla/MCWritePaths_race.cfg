SPECIFICATION FairSpec
CONSTANTS
  NumWriter = 1
  NumSet = 2
  NumWritePaths = 2
  Input <- InputNested
  Tree <- TreeDeep
  Types = {"dir", "reg", "link"}
  Base = "x"
  LongerBases = {"xx"}
  Walk = TRUE
  Keep = FALSE
  Sync = TRUE
  Faults = {"error", "throw"}
  Interferes = TRUE
  Crashes = FALSE
  MaxTick = 0
INVARIANTS
  SetCleansUp
PROPERTIES
  UnlinkEnds
