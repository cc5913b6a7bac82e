CONSTANTS
  Invocations = {r1}
  Concurrent = FALSE
  Slots = {a, b}
  MaxProcs = 2
  MaxSessions = 2
SPECIFICATION Spec
INVARIANTS
  SaveReachesTarget
CHECK_DEADLOCK FALSE
