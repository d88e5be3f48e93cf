SPECIFICATION SpecList
CONSTANTS
  Width = 2
  Height = 1
  NBlocks = 2
  Buttons = {1}
PROPERTIES
  OnlyActingBlock
CHECK_DEADLOCK FALSE
