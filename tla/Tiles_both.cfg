CONSTANTS
  Setups <- SetupsMC
  Levels = 3
  World = 16
  Key <- KeyMC
  Segment = 3
  Parted = {"read", "valve"}
  TilesIn <- TilesMC
  Fills = {0, 3}
  Fits = {3, 9, 10}
  NoGap = 9
  MaxDropPasses = 3
  MaxFillPasses = 2
SPECIFICATION MCSpec
INVARIANTS TilesAsRead BufferBounded NothingVanishes LastResort
PROPERTY ValveEnds
CHECK_DEADLOCK FALSE
