SPECIFICATION FairSpec
CONSTANTS
  NumReader = 1
  NumWriter = 1
  NumSet = 1
  NumRepeat <- Unlimited
  TimeSecond = 1
  MonitorInt = 0
  NumWritePaths = 0
  Iter = "walk"
  Input <- InputOne
  Faults = {"throw"}
  CreateFails = {}
  IntMax = 0
  AgeCap = 2
  PathsCap = 0
INVARIANTS
  TypeOK
PROPERTIES
  TimeLimitEndsWorkers
  TimeoutNotEarly
