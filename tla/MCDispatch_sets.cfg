SPECIFICATION FairSpec
CONSTANTS
  NumReader = 1
  NumWriter = 1
  NumSet = 2
  NumRepeat = 2
  TimeSecond = 0
  MonitorInt = 0
  NumWritePaths = 1
  Iter = "reverse"
  Input <- InputMixed
  Faults = {"error", "throw"}
  CreateFails = {"throws"}
  IntMax = 3
  AgeCap = 1
  PathsCap = 2
INVARIANTS
  OneVerdict
  ResultComplete
  NoThreadOutlives
  VerdictJustified
  InterruptPrompt
PROPERTIES
  InterruptedSetIsLast
  BatchSpec
  WriteSetSpec
  Terminates
