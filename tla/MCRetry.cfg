SPECIFICATION Spec
CONSTANTS
  l1 = l1
  l2 = l2
  l3 = l3
  c1 = c1
  c2 = c2
  s1 = s1
  conv = conv
  NoLease = NoLease
  NoConn = NoConn
  NoSync = NoSync
  MaxAccepted = 4
  MaxItems = 3
  HardMaxItems = 4
  Scopes <- MCScopes
  Leases <- MCTwoLeases
  Conns <- MCTwoConns
  RemoteConns <- MCNone
  Syncs <- MCNone
  MaxMessages = 2
  MaxSends = 3
  MaxNotices = 0
  MaxAborts = 0
  MaxCommands = 0
CHECK_DEADLOCK FALSE
ACTION_CONSTRAINT TasksFirst
INVARIANT RetryRunsOnce
