SPECIFICATION MCSpec
CONSTANTS
  None = None
  r1 = r1
  r2 = r2
  s1 = s1
  Runners = {r1, r2}
  Servers = {s1}
  Head = 3
  Checkouts <- MCCheckouts
  Pins <- MCPins
  Repeatable = {1}
  MaxRuns = 4
  MaxFaults = 2
INVARIANTS
  ServesItsSchema
PROPERTIES
  InOrder
