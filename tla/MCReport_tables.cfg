SPECIFICATION Spec
CONSTANTS
  NumThread = 2
  MaxOps = 2
  MaxTables = 2
  Sizes = {0, 2}
  Heading = 1
INVARIANTS
  LiveRowsAccount
  FinalTableExact
