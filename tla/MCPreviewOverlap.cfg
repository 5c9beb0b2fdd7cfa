\* Two starts that overlap, close events at any time, and one stop.
SPECIFICATION FairSpec
CONSTANTS
  p1 = p1
  p2 = p2
  Starts = {p1, p2}
  x1 = x1
  Stops = {x1}
  None = None
  LosesNpm = {}
  LateClose = TRUE
INVARIANTS
  NoOrphan
PROPERTIES
  StartSettles
CHECK_DEADLOCK FALSE
