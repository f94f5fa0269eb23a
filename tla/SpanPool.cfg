CONSTANTS
  Procs = {p1, p2}
  SpanBytes = 6
  ClassSize = 2
  MaxSpans = 3
  NoProc = NoProc
  Grower = Grower
  Refused = Refused
SPECIFICATION FairHistorySpec
INVARIANTS
  TypeOK
  NoSpanLost
  OneSpare
  ReleasedIsFull
  GrowsForNeed
  AgainMeansGrown
PROPERTY ReturnsOrGrows
CHECK_DEADLOCK FALSE
