SPECIFICATION Spec
CONSTANTS
  Requests = {r1, r2, r3}
  Records = {1, 2, 3}
  Stamp <- MCStamp
  Ident <- MCIdent
  Bad = {3}
  Windows <- TwoWindows
  Adapters = {"elastic", "fixture"}
  Limit = 2
  RetryAttempts = 2
  MaxCrashes = 1
  None = None
INVARIANTS
  OneEventPerRecord
  RunAccountsForItsPage
  CheckpointCoversStored
SYMMETRY Symmetry
CHECK_DEADLOCK FALSE
