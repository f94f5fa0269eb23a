CONSTANTS
  Procs = {p1, p2}
  Spans = {s1, s2}
  Nil = Nil
SPECIFICATION FairSpec
PROPERTY MoveReturns
CHECK_DEADLOCK FALSE
