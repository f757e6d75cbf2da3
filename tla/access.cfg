SPECIFICATION Spec
CONSTANTS
  Users = {u1, u2}
  Logins = {l1}
  Calls = {c1, c2}
  Changes <- MCChanges
  Idle = 2
  Absolute = 3
  MaxTime = 3
  None = None
INVARIANTS
  AdminUnlessRaced
PROPERTIES
  RevokedStaysRevoked
  ExpiredStaysExpired
SYMMETRY Symmetry
CHECK_DEADLOCK FALSE
