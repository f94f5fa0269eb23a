CONSTANTS
  Procs = {p1, p2}
  NElems = 2
  WordBits = 2
  MarkBits = 2
  BitArrays = {1, 2, 3, 4}
  NoBits = NoBits
  NoProc = NoProc
  MmapFails = TRUE
SPECIFICATION FairSpec
PROPERTY CallsReturn
