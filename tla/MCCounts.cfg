SPECIFICATION FairSpec
CONSTANTS
  a1 = a1
  a2 = a2
  a3 = a3
  o1 = o1
  o2 = o2
  o3 = o3
  s1 = s1
  r1 = r1
  Null = Null
  Attempts = {a1, a2, a3}
  Ops = {o1, o2, o3}
  Shelves = {s1}
  Deltas <- MCDeltas
  Reasons = {r1}
  MaxQuantity = 2
  Requests <- FewDecisions
CHECK_DEADLOCK FALSE
INVARIANTS
  SettledTogether
  StockIsExplained
PROPERTIES
  ExpectedIsCurrent
  Answered
  KeepsPromise
