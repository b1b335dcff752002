SPECIFICATION Spec
CONSTANTS
  NumWriter = 2
  NumSet = 1
  NumWritePaths = 2
  Input <- InputOne
  Tree <- TreeOld
  Types = {"dir", "reg"}
  Base = "x"
  LongerBases = {"xx"}
  Walk = TRUE
  Keep = FALSE
  Sync = TRUE
  Faults = {"error"}
  Interferes = FALSE
  Crashes = TRUE
  MaxTick = 0
INVARIANTS
  TypeOK
  UnlinkFailsOnLeak
  CleanRecovers
