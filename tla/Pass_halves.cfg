CONSTANTS
  MaxItems = 4
  MaxInFlight = 4
  Pending = Pending
  Unfinished = Unfinished
  L = 2
  MaxBatches = 3
  QueueDepth = 2
  MaxFaults = 2
SPECIFICATION MCSpec
INVARIANTS ResidentBounded NoOrphans
PROPERTIES ActsSerially ActsAsRam PassReturns
CHECK_DEADLOCK FALSE
