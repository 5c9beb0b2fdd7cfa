\* Three handlers and three generations; the list of stopped generations is
\* full after two.
SPECIFICATION Spec
CONSTANTS
  Calls = {c1, c2, c3}
  Scopes = {g1, g2, g3}
  NoScope = noscope
  MaxRequests = 2
  MaxCancelled = 2
  MaxStops = 3
SYMMETRY CallSymmetry
INVARIANTS
  TypeOK
  StackIsWhoIsRunning
  RecentStopsAreMarked
  LoneStopIsExact
PROPERTIES
  LoneStopReaches
  StoppedEndsCancelled
CHECK_DEADLOCK FALSE
