\* Does a run that another one has superseded leave the files as they were?
SPECIFICATION Spec
CONSTANTS
  N = 3
  Creates = {2}
  MaxSaves = 0
INVARIANTS
  SupersededLeavesOriginals
CHECK_DEADLOCK FALSE
