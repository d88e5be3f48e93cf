SPECIFICATION ViewerSpec
CONSTANTS
  NIMAGE = 2
  NPlanes = 1
  NColors = 2
  DefaultColors = 1
  ColorChoices = {1}
  StartFiles = {"single"}
  OpenFiles = {"single"}
  Reads = {TRUE}
  NULL = NULL
INVARIANTS
  ResizeIsSafe
CHECK_DEADLOCK FALSE
