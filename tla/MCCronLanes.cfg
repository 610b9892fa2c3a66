SPECIFICATION FairSpec
CONSTANTS
  l1 = l1
  l2 = l2
  c = c
  a = a
  once = once
  hourly = hourly
  NoOwner = NoOwner
  Procs <- MCProcs
  Scope <- MCScope
  Nums = {1, 2}
  MaxRetries = 0
  Strips = TRUE
  LockTimesOut = FALSE
  TornLearn = FALSE
  OneShots = {}
  Recurring = {hourly}
  Jittered = {hourly}
  Lane <- MCHourly
  LastMinute = 0
  MissAfter = 0
  MaxFires <- MCFires
CHECK_DEADLOCK FALSE
INVARIANTS LaneExclusive TimersStopped
PROPERTY TombstoneBack
