SPECIFICATION PlotSpec
CONSTANTS
  RingSize = 3
  Limit = 3
  NBlocks = 2
  NIMAGE = 2
  Files = {f, g}
  NLines = 2
  NULL = NULL
INVARIANTS
  ScaleTypeOK
  ScalesIncrease
  SafeUntilFull
  LitIsActive
  HiddenStaysOff
  CubeTypeOK
  SpectrumIsRight
PROPERTIES
  KeepsHistory
CHECK_DEADLOCK FALSE
