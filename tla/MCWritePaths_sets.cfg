SPECIFICATION Spec
CONSTANTS
  NumWriter = 2
  NumSet = 2
  NumWritePaths = 2
  Input <- InputOne
  Tree <- TreeFlat
  Types = {"dir", "reg", "symlink", "link"}
  Base = "x"
  LongerBases = {"xx"}
  Walk = FALSE
  Keep = FALSE
  Sync = FALSE
  Faults = {}
  Interferes = FALSE
  Crashes = FALSE
  MaxTick = 1
INVARIANTS
  UserTreeKept
  RegisteredAreNew
PROPERTIES
  WriteSetSpec
