CONSTANTS
  Calls = {c1, c2}
  Sessions = {s1, s2}
  Names = {n1}
  Waiters = {}
  Keys = {None, n1}
  Stopping = FALSE
  None = None
SPECIFICATION Spec
SYMMETRY Symmetric
INVARIANTS
  NoOrphanedCall
  NoLeakedPending
  OwnResult
  RunsAtMostOnce
  DisconnectAnnouncedFirst
CHECK_DEADLOCK FALSE
