SPECIFICATION Spec
CONSTANTS
  p1 = p1
  p2 = p2
  Starts = {p1, p2}
  x1 = x1
  x2 = x2
  Stops = {x1, x2}
  None = None
  LosesNpm = {"ready"}
  LateClose = FALSE
INVARIANTS
  StoppedMeansGone
CHECK_DEADLOCK FALSE
