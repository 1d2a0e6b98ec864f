SPECIFICATION Spec
CONSTANTS
  Nodes = {a, b}
  Incidents = {i}
  a = a
  b = b
  i = i
  Ahead = {}
  Skew <- MCSkew
  TornReads = TRUE
  Delay = 1
  Expiry = 1
  MaxTime = 3
  MaxRestarts = 0
  MaxUpdates = 2
  MaxFlight = 1
SYMMETRY MCSymmetry
INVARIANTS TypeOK TombstoneHasRecord
CHECK_DEADLOCK FALSE
