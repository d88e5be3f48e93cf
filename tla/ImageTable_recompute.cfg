SPECIFICATION Spec
CONSTANTS
  NIMAGE = 3
  NPlanes = 1
  NColors = 3
  DefaultColors = 1
  ColorChoices = {1}
  StartFiles = {}
  OpenFiles = {"single"}
  Reads = {TRUE}
  NULL = NULL
INVARIANTS
  LetterRecomputes
CHECK_DEADLOCK FALSE
