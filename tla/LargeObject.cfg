SPECIFICATION Spec
CONSTANTS
  Larges = {large}
  Smalls = {small}
  PageWords = 8
  BlockWords = 16
  HeaderWords = 4
  NodeWords = 2
  BitsWords = 1
  MaxPieces = 8
INVARIANTS UsedIsKept
CHECK_DEADLOCK FALSE
