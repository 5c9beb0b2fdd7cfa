\* Three files, the second of them created; two saves by the user.
SPECIFICATION FairSpec
CONSTANTS
  N = 3
  Creates = {2}
  MaxSaves = 2
INVARIANTS
  TypeOK
  FailureLeavesOriginals
  UndoCoversApplied
PROPERTIES
  RunEnds
  ImplementsContract
CHECK_DEADLOCK FALSE
