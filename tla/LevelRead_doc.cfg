CONSTANTS
  Setups <- RangeSetups
  Levels = 3
  World = 16
  Key <- KeyMC
  Segment = 3
  Parted = {"read"}
  TilesIn <- TilesMC
  Fills = {0, 3}
  Fits = {3, 9, 10}
  NoGap = 9
  MaxDropPasses = 3
  MaxFillPasses = 2
SPECIFICATION MCSpec
INVARIANT OnlyPlannedTiles
CHECK_DEADLOCK FALSE
