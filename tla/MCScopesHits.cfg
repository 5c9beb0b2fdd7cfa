\* Two overlapping handlers: does Stop abort its own generation only?
SPECIFICATION Spec
CONSTANTS
  Calls = {c1, c2}
  Scopes = {g1, g2}
  NoScope = noscope
  MaxRequests = 1
  MaxCancelled = 2
  MaxStops = 1
SYMMETRY CallSymmetry
INVARIANT StopHitsOnlyItsScope
CHECK_DEADLOCK FALSE
