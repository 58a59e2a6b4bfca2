CONSTANTS
  Runs <- Conversions
  Exports <- ExportsMC
  Top = 100000
  Fallback = 150
  MinDepth = 2
  MaxDepth = 6
  BoundedDepth = 3
  BoundedWorkers = 2
  EncodeFloor = 4
  Unknown = Unknown
  RowCount = 5
  Finest = 2
  Gsd <- GsdMC
  Indices = {1, 2, 3, 4, 5, 6}
  Hash <- HashMC
  Missing = Missing
  Features <- FeaturesMC
  Configs <- ConfigsMC
  Chunk = 1
  Shards = 2
  Pool = 2
  FoldChunk = 2
  GridBudget = 5
  DropRate = 2
  MinDensity = 1
  SuperFactor = 1
  Weight <- WeightMC
SPECIFICATION MCSpec
INVARIANT ThinningOffIsCounted
CHECK_DEADLOCK FALSE
