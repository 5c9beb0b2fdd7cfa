\* Three files, batches of up to three operations, one failed attempt and a
\* retry, one write by somebody else at any point.
SPECIFICATION MCSpec
CONSTANTS
  p1 = p1
  p2 = p2
  p3 = p3
  Paths = {p1, p2, p3}
  Contents = {before, torn}
  Absent = absent
  TornBytes = torn
  Unseen = unseen
  NoPath = nopath
  MaxOps = 3
  MaxAttempts = 2
  MaxEdits = 1
  Reverse = TRUE
INVARIANTS
  TypeOK
  RetryStartsFromBasis
PROPERTIES
  BasisIsSticky
  ImplementsContract
  AttemptSettles
CHECK_DEADLOCK FALSE
