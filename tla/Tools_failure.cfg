SPECIFICATION Spec
CONSTANTS
  Programs <- NiagaraUpsertUserParameter
  CancelReverts = TRUE
  PartialOnError <- None
  Unrecorded <- None
  SeveralSteps <- None
  PieUnchecked <- None
  Unconfirmed <- None
  Unmodified <- None
  Unmarked <- None
INVARIANT FailureLeavesNothing
