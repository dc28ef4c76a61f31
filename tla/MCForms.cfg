SPECIFICATION MCSpec
CONSTANTS
  b1 = b1
  b2 = b2
  None = None
  Pending = Pending
  Plans <- MCPlans
  Bodies = {b1, b2}
  Default = b1
  MaxIds = 2
  MaxGoals = 2
  MaxLate = 1
  MaxChanges = 1
INVARIANTS
  NothingTwice
  NeverContradicts
  StockKnowsOwnMovements
PROPERTIES
  SettlesInTheEnd
