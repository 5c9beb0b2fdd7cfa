\* One attempt on two files and nobody else writing: is the claim "restored to
\* its pre-undo state" true of a failure whose compensation succeeded?
SPECIFICATION Spec
CONSTANTS
  p1 = p1
  p2 = p2
  p3 = p3
  Paths = {p1, p2}
  Contents = {before, torn}
  Absent = absent
  TornBytes = torn
  Unseen = unseen
  NoPath = nopath
  MaxOps = 2
  MaxAttempts = 1
  MaxEdits = 0
  Reverse = TRUE
INVARIANT CompensationRestoresProject
CHECK_DEADLOCK FALSE
