CONSTANTS
  N = 3
  Last = TRUE
  Panic = Panic
  Pending = Pending
  None = None
  Zooms <- MCZooms
  Rows <- MCRows
  ClampDepth = 3
  MaxMembers = 2
SPECIFICATION MCSpec
INVARIANTS EachTileOnce StopsLoseNothing
PROPERTIES ActsSerially LevelsReturn
CHECK_DEADLOCK FALSE
