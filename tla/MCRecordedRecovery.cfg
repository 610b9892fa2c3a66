SPECIFICATION Spec
CONSTANTS
  MaxRuns = 3
  NoRecord = NoRecord
INVARIANTS
  TypeOK
  ResultNotDenied
  RecoversOwn
PROPERTIES
  ResultKept
  AcceptedRetained
CHECK_DEADLOCK FALSE
