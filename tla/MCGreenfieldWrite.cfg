\* Two allowed paths, one of them required, and one that is not allowed; up to
\* two files, a file that is not UTF-8, one write by somebody else, a Stop at
\* any point.
SPECIFICATION MCSpec
CONSTANTS
  Paths = {pkg, app, outside}
  Allowed = {pkg, app}
  Required = {pkg}
  Contents = {old, new, raw}
  Undecodable = {raw}
  Decoded = old
  Absent = absent
  Unreadable = unreadable
  TornBytes = old
  NoSnapshot = nosnapshot
  Foreign = {raw}
  MaxFiles = 2
  MaxEdits = 1
INVARIANTS
  TypeOK
  FailureAccountsForFiles
  SuccessIsComplete
PROPERTIES
  StoppedNeverSucceeds
  CallReturns
  ImplementsContract
CHECK_DEADLOCK FALSE
