SPECIFICATION FairSpec
CONSTANTS
  Keys = {1, 2, 3, 4, 5, 6}
  UncleanKeys = {1, 2, 3, 4, 5, 6}
  Vals = {v}
  Usual = v
  Nil = Nil
  EntryColors = {"red"}
PROPERTIES DeleteReturns
