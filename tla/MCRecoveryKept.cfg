SPECIFICATION Spec
CONSTANTS
  l1 = l1
  l2 = l2
  l3 = l3
  c1 = c1
  c2 = c2
  s1 = s1
  conv = conv
  NoLease = NoLease
  NoConn = NoConn
  NoSync = NoSync
  MaxAccepted = 4
  MaxItems = 3
  HardMaxItems = 4
  Scopes <- MCScopes
  Leases <- MCTwoLeases
  Conns <- MCOneConn
  RemoteConns <- MCNone
  Syncs <- MCOneSync
  MaxMessages = 1
  MaxSends = 1
  MaxNotices = 0
  MaxAborts = 1
  MaxCommands = 0
CHECK_DEADLOCK FALSE
ACTION_CONSTRAINT TasksFirst
INVARIANT AcceptedIsKept
