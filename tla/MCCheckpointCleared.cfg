SPECIFICATION CkptSpec
CONSTANTS
  Roots = {A}
  None = None
  MaxRestarts = 0
  MaxClears = 0
  Saves = {s1}
  Clears = {c1}
  Loads = {}
  Migrated = Migrated
  Legacy = {}
INVARIANT ClearedStaysCleared
CHECK_DEADLOCK FALSE
