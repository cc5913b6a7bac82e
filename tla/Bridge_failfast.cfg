CONSTANTS
  Calls = {c1}
  Sessions = {s1}
  Names = {n1}
  Waiters = {}
  Keys = {None}
  Stopping = FALSE
  None = None
SPECIFICATION Spec
INVARIANTS
  DisconnectFailsFast
CHECK_DEADLOCK FALSE
