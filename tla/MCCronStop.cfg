SPECIFICATION Spec
CONSTANTS
  l1 = l1
  l2 = l2
  c = c
  a = a
  once = once
  hourly = hourly
  NoOwner = NoOwner
  Procs <- MCProcs
  Scope <- MCScope
  Nums = {1, 2}
  MaxRetries = 1
  Strips = FALSE
  LockTimesOut = FALSE
  TornLearn = FALSE
  OneShots = {}
  Recurring = {}
  Jittered = {}
  Lane <- MCNoLane
  LastMinute = 0
  MissAfter = 0
  MaxFires <- MCFires
INVARIANT StoppedStaysStopped
CHECK_DEADLOCK FALSE
