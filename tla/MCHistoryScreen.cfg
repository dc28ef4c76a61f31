SPECIFICATION Spec
CONSTANTS
  s1 = s1
  s2 = s2
  All = All
  Null = Null
  Shelves = {s1, s2}
  MaxMovements = 3
  MaxLoads = 2
  PageSize = 1
INVARIANT OneQuestion
CHECK_DEADLOCK FALSE
