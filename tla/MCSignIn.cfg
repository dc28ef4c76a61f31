SPECIFICATION SignInSpec
CONSTANTS
  None = None
  t1 = t1
  t2 = t2
  s1 = s1
  s2 = s2
  Tabs = {t1, t2}
  Sessions = {s1, s2}
  MaxFlight = 3
  MaxOpens = 3
SYMMETRY Symmetry
CHECK_DEADLOCK FALSE
INVARIANTS
  SignedOutIsRevoked
  ShownIsHers
  NeverGreetedAsNew
