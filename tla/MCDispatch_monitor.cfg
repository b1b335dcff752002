SPECIFICATION FairSpec
CONSTANTS
  NumReader = 0
  NumWriter = 2
  NumSet = 1
  NumRepeat <- Unlimited
  TimeSecond = 0
  MonitorInt = 1
  NumWritePaths = 1
  Iter = "random"
  Input <- InputSkipped
  Faults = {"error"}
  CreateFails = {"returns"}
  IntMax = 0
  AgeCap = 0
  PathsCap = 2
INVARIANTS
  MonitorLeavesLast
PROPERTIES
  MonitorEnds
  InterruptEnds
