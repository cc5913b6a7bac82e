SPECIFICATION Spec
CONSTANTS
  Programs <- MCPrograms
  CancelReverts = TRUE
  PartialOnError <- MCPartialOnError
  Unrecorded <- MCUnrecorded
  SeveralSteps <- MCSeveralSteps
  PieUnchecked <- MCPieUnchecked
  Unconfirmed <- MCUnconfirmed
  Unmodified <- MCUnmodified
  Unmarked <- MCUnmarked
INVARIANTS
  FailureLeavesNothing
  UndoTakesCallBack
  NothingDuringPie
  DryRunChangesNothing
  DestroysOnlyConfirmed
  NoSilentLoss
  BulkAtomic
