SPECIFICATION Spec
CONSTANTS
  s1 = s1
  s2 = s2
  NoReason = NoReason
  MaxItems = 2
  HardMaxItems = 3
  MaxId = 5
  Scopes <- MCScopes
  Inputs <- MCInputs
  BlockedReasons = {"streaming", "interrupt_in_progress"}
INVARIANT TypeOK
INVARIANT QueueBounded
INVARIANT RefusalIsShown
PROPERTY DequeueInOrder
PROPERTY BatchHomogeneous
