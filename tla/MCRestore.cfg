SPECIFICATION RestoreSpec
CONSTANTS
  j1 = j1
  j2 = j2
  tagged = tagged
  Jobs = {j1, j2}
  Books <- MCBooks
  Empty = Empty
  Half = Half
  NoBooks = NoBooks
  NoTag = NoTag
  Absent = Absent
  Cut = Cut
  Junk = Junk
  Tags = {tagged}
  TicksPerDay = 1
  DaysPerWeek = 2
  MaxClock = 3
  KeepDaily = 1
  KeepWeekly = 2
  Faults = {"mkdir", "junk", "tool", "io", "remove", "note", "crash"}
  FirstYear = 2024
  LastYear = 2030
SYMMETRY Symmetry
INVARIANTS
  FinalIsComplete
  RecordIsHonest
  WeeksAreIsoWeeks
  NothingDestroyed
  WayBack
PROPERTIES
  CoverageIsKept
CHECK_DEADLOCK FALSE
