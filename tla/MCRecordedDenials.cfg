SPECIFICATION Spec
CONSTANTS
  MaxRuns = 3
  NoRecord = NoRecord
PROPERTIES
  ContinuationRetained
CHECK_DEADLOCK FALSE
