SPECIFICATION DeploymentSpec
CONSTANTS
  Seeders = {s1, s2}
  Stops = {0, 1, 8, 9}
  Granted = {"viewer", "admin"}
  MaxResets = 1
  MaxDowns = 1
INVARIANTS
  HeadIsWhatModelsDeclare
  DemoDataOnce
  SmokeSaysWhatIs
CONSTRAINT OneSeedAfterDowngrade
SYMMETRY Symmetry
CHECK_DEADLOCK FALSE
