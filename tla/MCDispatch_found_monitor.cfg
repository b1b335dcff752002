SPECIFICATION FairSpec
CONSTANTS
  NumReader = 1
  NumWriter = 0
  NumSet = 1
  NumRepeat = 1
  TimeSecond = 0
  MonitorInt = 1
  NumWritePaths = 1
  Iter = "ordered"
  Input <- InputTwo
  Faults = {"throw"}
  CreateFails = {}
  IntMax = 3
  AgeCap = 1
  PathsCap = 2
PROPERTIES
  MonitorEnds
