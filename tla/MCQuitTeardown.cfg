\* Two starts that may overlap, a stop besides the teardown's own, and a
\* terminal.
SPECIFICATION FairQuitSpec
CONSTANTS
  None = None
  p1 = p1
  p2 = p2
  Starts = {p1, p2}
  x1 = x1
  x2 = x2
  Stops = {x1, x2}
  t1 = t1
  Terminals = {t1}
  LosesNpm = {"ready"}
  LateClose = FALSE
  QuitStop = x1
INVARIANTS
  TypeOK
  SinglePreview
  StopEndsWhatRan
  ExitLeavesNothing
CONSTRAINT
  OneOfTwo
PROPERTIES
  QuitCompletes
CHECK_DEADLOCK FALSE
