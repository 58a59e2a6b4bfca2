CONSTANTS
  Tiles = {t1, t2}
  Bodies = {b1}
  Absent = Absent
  Torn = Torn
  RootCap = 1
  MaxRuns = 2
  RenameMayFail = FALSE
SPECIFICATION Spec
INVARIANT DocumentedSalvage
CHECK_DEADLOCK FALSE
