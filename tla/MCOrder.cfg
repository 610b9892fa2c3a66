SPECIFICATION Spec
CONSTANTS
  l1 = l1
  l2 = l2
  l3 = l3
  c1 = c1
  c2 = c2
  s1 = s1
  conv = conv
  NoLease = NoLease
  NoConn = NoConn
  NoSync = NoSync
  MaxAccepted = 4
  MaxItems = 2
  HardMaxItems = 3
  Scopes <- MCScopes
  Leases <- MCTwoLeases
  Conns <- MCOneConn
  RemoteConns <- MCOneConn
  Syncs <- MCOneSync
  MaxMessages = 3
  MaxSends = 3
  MaxNotices = 0
  MaxAborts = 1
  MaxCommands = 0
CHECK_DEADLOCK FALSE
INVARIANT AtMostOnce
INVARIANT AcceptedOrder
INVARIANT CeilingUnreached
