CONSTANTS
  MaxId = 3
  Top = 4
  Limit = 3
  None = None
  Layers = {water, roads}
  Archives <- MCArchives
  ZoomOf <- MCZoomOf
SPECIFICATION MCSpec
SYMMETRY Symmetry
INVARIANTS WritesUnion RefusalsAreTrue EveryBandsCopy NeverClaimedTwice BlamesTheRightBand
CHECK_DEADLOCK FALSE
