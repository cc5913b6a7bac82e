CONSTANTS
  InitialDelay = 1
  MaxDelay = 5
  HeartbeatInterval = 4
  MaxDelta = 3
SPECIFICATION FairSpec
INVARIANTS
  NeverStranded
  BackoffBounded
  HeartbeatTimely
PROPERTIES
  RetryFromInitial
  Reconnects
