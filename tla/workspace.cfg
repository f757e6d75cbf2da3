SPECIFICATION Spec
CONSTANTS
  t1 = t1
  t2 = t2
  l1 = l1
  l2 = l2
  None = None
  Tabs = {t1, t2}
  Logins = {l1, l2}
  Role <- MCRole
  Visits <- MCVisits
  MaxChanges = 2
INVARIANTS
  OneUserPerTab
  FiguresFollowAnswers
CHECK_DEADLOCK FALSE
