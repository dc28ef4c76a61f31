SPECIFICATION MCSpec
CONSTANTS
  w1 = w1
  w2 = w2
  w3 = w3
  w4 = w4
  s1 = s1
  s2 = s2
  Null = Null
  Writers = {w1, w2, w3}
  Shelves = {s1, s2}
  MaxClock = 1
  Limits = {1, 2}
  Filters <- MCFilters
SYMMETRY Symmetry
INVARIANTS
  NothingTwice
  NothingSkipped
  LaterCommandsAreNewer
