SPECIFICATION SpecNoList
CONSTANTS
  Width = 2
  Height = 2
  NBlocks = 1
  Buttons = {1, 2, 3}
PROPERTIES
  LoopsEnd
CHECK_DEADLOCK FALSE
