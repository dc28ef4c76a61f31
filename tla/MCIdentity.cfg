SPECIFICATION Spec
CONSTANTS
  t1 = t1
  t2 = t2
  t3 = t3
  u1 = u1
  u2 = u2
  u3 = u3
  n1 = n1
  n2 = n2
  k1 = k1
  k2 = k2
  Tasks = {t1, t2}
  UserIds = {u1, u2}
  Names = {n1, n2}
  Roles = {"OWNER", "EMPLOYEE"}
  Owner = "OWNER"
  Managers = {"OWNER"}
  Tokens = {k1}
  MaxClock = 2
  Lifetime = 1
  MaxAttempts = 2
  Nobody = Nobody
SYMMETRY Symmetry
INVARIANTS
  NamesAreUnique
PROPERTIES
  FirstOwnerOnly
  SessionsAreGranted
  OverIsOver
