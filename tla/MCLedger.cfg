SPECIFICATION MCSpec
CONSTANTS
  a1 = a1
  a2 = a2
  a3 = a3
  a4 = a4
  o1 = o1
  o2 = o2
  o3 = o3
  o4 = o4
  s1 = s1
  Null = Null
  Attempts = {a1, a2, a3, a4}
  Ops = {o1, o2, o3, o4}
  Shelves = {s1}
  Deltas <- MCDeltas
  MaxQuantity = 3
  Requests <- OneShelf
SYMMETRY Symmetry
INVARIANTS
  ChainUnbroken
  ProjectionIsLedger
  AppliedOnce
PROPERTIES
  RefusedForCause
  ImplementsStockBook
  KeepsPromise
