SPECIFICATION MCSpec
CONSTANTS
  Roots = {A, B}
  None = None
  MaxRestarts = 1
  MaxClears = 1
  MaxSwitches = 3
  Edits = {1, 2, 3}
  Undos = {1, 2}
  Files = {1, 2}
  Jobs = {1, 2, 3}
  Flushes = {1, 2}
  MaxChanges = 2
  Reopens = TRUE
  Saves = {1, 2}
  Clears = {c1}
  Loads = {l1}
  Migrated = Migrated
  Legacy = {A, B}
  BranchCalls = {1, 2, 3}
  Creates = {w1, w2}
  Removes = {m1}
  Inspects = {i1}
  ProjectCodes = {p1}
  PackageScripts = {k1}
  First = A
  MaxOutside = 3
SYMMETRY Alike
CONSTRAINTS
  UntilCrossed
  UntilMissed
  FewOutside
  InTurn
INVARIANTS
  SessionTypeOK
  UndoReachesNewest
  IndexServesOpenProject
  IndexUpToDate
  LastCallStands
  MigrationKeepsCheckpoint
  BranchSerial
  CreateIsAllOrNothing
  AgentNeverLockedOut
  ClearReachesProjectCode
  SwitchEndsOldWork
CHECK_DEADLOCK FALSE
