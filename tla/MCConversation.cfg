SPECIFICATION FairSpec
CONSTANTS
  l1 = l1
  l2 = l2
  l3 = l3
  c1 = c1
  c2 = c2
  s1 = s1
  conv = conv
  NoLease = NoLease
  NoConn = NoConn
  NoSync = NoSync
  MaxAccepted = 4
  MaxItems = 2
  HardMaxItems = 3
  Scopes <- MCScopes
  Leases <- MCLeases
  Conns <- MCOneConn
  RemoteConns <- MCOneConn
  Syncs <- MCNone
  MaxMessages = 2
  MaxSends = 2
  MaxNotices = 1
  MaxAborts = 1
  MaxCommands = 1
CHECK_DEADLOCK FALSE
INVARIANT TypeOK
INVARIANT AtMostOnce
INVARIANT NothingLost
INVARIANT AcceptedIsKept
INVARIANT AcceptedOrder
PROPERTY TurnsImplemented
PROPERTY ItemsDrain
