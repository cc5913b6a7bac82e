CONSTANTS
  Invocations = {r1, r2}
  Concurrent = FALSE
  Slots = {a, b}
  MaxProcs = 3
  MaxSessions = 2
SPECIFICATION Spec
SYMMETRY InvocationSymmetry
INVARIANTS
  TargetDownForDeploy
  RelaunchedOverWholePlugin
  OneEditorPerSlot
  ReturnsAnotherEditor
CHECK_DEADLOCK FALSE
