CONSTANTS
  Calls = {}
  Sessions = {s1, s2}
  Names = {n1, n2}
  Waiters = {w1}
  Keys = {}
  Stopping = TRUE
  None = None
SPECIFICATION FairSpec
INVARIANTS
  ParkedHasWaker
  FoundIsAnnounced
PROPERTIES
  WaiterWoken
CHECK_DEADLOCK FALSE
