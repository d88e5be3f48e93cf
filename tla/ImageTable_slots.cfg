SPECIFICATION Spec
CONSTANTS
  NIMAGE = 2
  NPlanes = 1
  NColors = 3
  DefaultColors = 1
  ColorChoices = {3}
  StartFiles = {"missing", "single", "multi", "band"}
  OpenFiles = {"none", "single", "multi"}
  Reads = {TRUE}
  NULL = NULL
INVARIANTS
  TypeOK
  OneRole
  NoSelfUse
  TablesFit
PROPERTIES
  LetterFollowsImage
CHECK_DEADLOCK FALSE
