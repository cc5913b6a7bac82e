CONSTANTS
  MaxStarts = 3
  MaxJobs = 1
  Waiters = {w1}
SPECIFICATION FairSpec
INVARIANTS
  OrderMatchesJobs
  RunningIsKept
  TerminalIffEnded
  WaitReportsEnded
PROPERTIES
  VerdictIsFinal
  WaiterReleased
CHECK_DEADLOCK FALSE
