SPECIFICATION MCSpec
CONSTANTS
  NIMAGE = 3
  NPlanes = 1
  NColors = 2
  DefaultColors = 1
  ColorChoices = {1}
  StartFiles = {"single"}
  OpenFiles = {"single"}
  Reads = {TRUE, FALSE}
  NULL = NULL
INVARIANTS
  ViewerTypeOK
  PointersLive
  OverlaysUndoable
  WindowsAgreeAgain
  OrderlyRestores
  SessionComesBack
CHECK_DEADLOCK FALSE
