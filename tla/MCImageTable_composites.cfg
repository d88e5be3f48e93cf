SPECIFICATION SpecComposites
CONSTANTS
  NIMAGE = 3
  NPlanes = 2
  NColors = 4
  DefaultColors = 2
  ColorChoices = {}
  StartFiles = {"single"}
  OpenFiles = {"single"}
  Reads = {TRUE}
  NULL = NULL
INVARIANTS
  PlanesDistinct
  WithinBudget
CHECK_DEADLOCK FALSE
