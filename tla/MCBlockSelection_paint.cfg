SPECIFICATION SpecNoList
CONSTANTS
  Width = 3
  Height = 1
  NBlocks = 2
  Buttons = {1, 2, 3}
INVARIANTS
  OwnedIsPainted
CHECK_DEADLOCK FALSE
