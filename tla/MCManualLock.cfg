SPECIFICATION FairSpec
CONSTANTS
  p1 = p1
  p2 = p2
  p3 = p3
  p4 = p4
  p5 = p5
  NoProc = NoProc
  Procs <- MCProcs
  Depths = 2
  IoFails <- MCSomeFail
INVARIANT MutualExclusion
INVARIANT NoMutualRefusal
PROPERTY ImplementsMutex
CHECK_DEADLOCK FALSE
PROPERTY AcquireEnds
