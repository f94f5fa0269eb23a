CONSTANTS
  Procs = {p1}
  Spans = {s1, s2}
  Nil = Nil
SPECIFICATION Spec
INVARIANT FullSpansListed
