SPECIFICATION FairSpec
CONSTANTS
  l1 = l1
  l2 = l2
  NoLease = NoLease
  Leases <- MCTwoLeases
INVARIANT TypeOK
INVARIANT OneLiveOwner
INVARIANT SettlementHeld
INVARIANT OneTerminal
PROPERTY CancellationEnds
