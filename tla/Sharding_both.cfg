CONSTANTS
  None = None
  Unassigned = Unassigned
  MaxPivot = 3
  FinestZoom = 3
  N = 2
  Torn = Torn
  Inputs <- InputsMC
  Cuts <- CutsMC
  Opts = {"right", "other"}
  RightOpts = "right"
  Selections <- SelectionsMC
  Buffer = 1
  MaxStarts = 4
  MaxMishaps = 2
  Pivot = 2
  CutInputs <- CutInputsMC
  ShardCounts = {1, 2, 3, 5, 16, 17}
  Scale = 720720
  MaxGroupTiles = 8
SPECIFICATION MCSpec
INVARIANTS CutIsPartition WeightIsTheRows OneOwner SliceOfOneRun MergesToOneRun
CHECK_DEADLOCK FALSE
