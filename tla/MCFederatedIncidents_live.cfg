SPECIFICATION FairSpec
CONSTANTS
  Nodes = {a, b}
  Incidents = {i}
  a = a
  b = b
  i = i
  Ahead = {b}
  Skew <- MCSkew
  TornReads = TRUE
  Delay = 9
  Expiry = 9
  MaxTime = 2
  MaxRestarts = 1
  MaxUpdates = 1
  MaxFlight = 1
PROPERTIES NewestWins NewestSpreads
CHECK_DEADLOCK FALSE
