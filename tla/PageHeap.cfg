SPECIFICATION Spec
CONSTANTS
  Procs = {p1, p2}
  NoProc = NoProc
  RawPages = 2
  Regions = 4
  ArenaSizes = {2, 4}
  Needs = {1, 3}
  Prios = {1, 2}
  HintKept = TRUE
  MaxChunks = 3
  MaxFails = 1
SYMMETRY Symmetry
INVARIANTS TypeOK TreapOK SpanFound EndIsReserved
PROPERTIES PromiseKept
