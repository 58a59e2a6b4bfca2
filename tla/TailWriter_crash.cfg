CONSTANTS
  Tiles = {t1, t2, t3}
  Bodies = {b1, b2}
  Absent = Absent
  Torn = Torn
  RootCap = 1
  MaxRuns = 2
  RenameMayFail = FALSE
SPECIFICATION Spec
SYMMETRY Symmetry
INVARIANTS NeverWrong OutputWhole LeftoverSurvives
PROPERTIES KeepsPromise
CHECK_DEADLOCK FALSE
