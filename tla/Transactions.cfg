CONSTANTS
  Txs = {t1, t2, t3}
  Materials = {m1, m2}
  MaxLevels = 5
SPECIFICATION Spec
SYMMETRY Symmetry
INVARIANTS
  EveryLevelHasCloser
  IndexIsOwnLevel
PROPERTIES
  CommitsOwnLevelUnmixed
  OuterLevelsStay
CHECK_DEADLOCK FALSE
