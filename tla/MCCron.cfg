SPECIFICATION FairSpec
CONSTANTS
  l1 = l1
  l2 = l2
  c = c
  a = a
  once = once
  hourly = hourly
  NoOwner = NoOwner
  Procs <- MCTwo
  Scope <- MCTwoScope
  Nums = {1, 2}
  MaxRetries = 1
  Strips = FALSE
  LockTimesOut = FALSE
  TornLearn = FALSE
  OneShots = {once}
  Recurring = {}
  Jittered = {}
  Lane <- MCOnce
  LastMinute = 3
  MissAfter = 1
  MaxFires <- MCFires
CHECK_DEADLOCK FALSE
INVARIANTS TypeOK OneShotOnce RunOrMissed
PROPERTY DueIsSettled
