SPECIFICATION FairRoundsSpec
CONSTANTS
  Keys = {1, 2, 3, 4, 5, 6, 7, 8}
  UncleanKeys = {1, 2, 3, 4, 5}
  Vals = {v, w}
  Usual = v
  Nil = Nil
  EntryColors = {"red", "black"}
INVARIANTS
  TypeOK
  TreeOK
  RedBlackOK
  FewRounds
PROPERTIES
  PromiseKept
  RepairsEnd
  TurnsOnce
