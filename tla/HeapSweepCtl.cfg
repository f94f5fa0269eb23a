CONSTANTS
  Procs = {p1, p2}
  NClasses = 2
  MaxHelpers = 2
  NElems = 2
  SlotSize = 4
  LargeBytes = 8
  Threshold = 4
  MaxFrees = 3
SPECIFICATION Spec
INVARIANT
  CtlMeansSweeping
CHECK_DEADLOCK FALSE
