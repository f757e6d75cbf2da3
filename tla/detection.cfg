SPECIFICATION Spec
CONSTANTS
  Requests = {r1, r2}
  Editors = {d1, d2}
  Events = {1, 2}
  Stamp <- MCStamp
  c1 = c1
  c2 = c2
  g = g
  Conditions = {c1, c2}
  Groupings = {g}
  Matches <- MCMatches
  GroupOf <- Hosts
  Logics <- MCLogics
  BadLogic = BadLogic
  Windows <- MCWindows
  Lookback = 4
  MaxScan = 2
  MaxVersion = 2
  MaxCrashes = 1
  Failures = {"value"}
  None = None
PROPERTY HistoryOnlyGrows
INVARIANTS
  OneAlertPerFinding
  RunAndAlertsTogether
  CompletedRunMissesNothing
  AlertIsExplainable
  NoDeadlock
SYMMETRY Symmetry
CHECK_DEADLOCK FALSE
