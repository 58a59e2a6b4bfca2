CONSTANTS
  Runs = {r1, r2, r3}
  Names = {n1, n2}
  Parts = 2
  Earlier = Earlier
  Nothing = Nothing
  Link = Link
  Device = Device
  Dir = Dir
  B = 2
  Limits = {2, 10}
  Ample = 10
  Workers = 2
  Depth = 2
  MaxSegs = 3
  MaxRows = 3
  MaxRead = 4
  Pending = Pending
SPECIFICATION MCSpec
INVARIANTS NothingLeftBeside
PROPERTIES LinkStays ActsAsRegister ReadsSequentially JoinsBounded ReadReturns
CHECK_DEADLOCK FALSE
