CONSTANTS
  Calls = {c1, c2}
  Sessions = {s1}
  Names = {n1}
  Waiters = {}
  Keys = {None}
  Stopping = TRUE
  None = None
SPECIFICATION FairSpec
INVARIANTS
  NoOrphanedCall
  NoLeakedPending
PROPERTIES
  ImplementsToolCall
  EveryCallReturns
  LossIsAnnounced
CHECK_DEADLOCK FALSE
