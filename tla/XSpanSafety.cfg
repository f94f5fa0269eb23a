CONSTANTS
  Procs = {p1, p2}
  NElems = 3
  WordBits = 2
  MarkBits = 2
  BitArrays = {1, 2, 3, 4}
  NoBits = NoBits
  NoProc = NoProc
  MmapFails = FALSE
SPECIFICATION HistorySpec
SYMMETRY Symmetry
INVARIANTS
  TypeOK
  NoDoubleAlloc
  OnePlace
  NoPhantomRoom
  LossBounded
  FewRetries
PROPERTIES
  MarksKept
  PromiseKept
