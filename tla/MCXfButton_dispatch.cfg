SPECIFICATION Spec
CONSTANTS
  Button = {b1, b2}
  MaxState = 2
  Proc = {p1, p2}
  Cell = {c1, c2, c3}
  MaxNesting = 2
  NULL = NULL
SYMMETRY Symmetry
INVARIANTS
  WalkIsSafe
  CellsOwned
PROPERTIES
  KeepsLists
CHECK_DEADLOCK FALSE
