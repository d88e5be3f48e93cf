SPECIFICATION ColorsSpec
CONSTANTS
  Palette <- SixColors
  Counts = {0, 1, 4}
  MaxOut = 6
  Width = 4
  Reach <- ScreenColumns
  MaxButtons = 2
  MaxHandles = 5
INVARIANTS
  PartitionsTile
  StaysInside
  SortedAsMarked
  DrawnOnce
  AsManyAsAsked
  MapTypeOK
  EndsKept
  DragIsLocal
CHECK_DEADLOCK FALSE
