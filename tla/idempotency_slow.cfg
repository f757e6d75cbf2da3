SPECIFICATION FairSpec
CONSTANTS
  Requests = {r1, r2}
  Keys = {kc, kt}
  TriageKeys = {kt}
  Payloads = {p1}
  NoKey = NoKey
  BadKey = BadKey
  None = None
  PromptRequests = FALSE
  MaxEpoch = 2
  MaxCrashes = 1
INVARIANT RowHoldsItsOwnersResult
PROPERTY EveryRequestEnds
CHECK_DEADLOCK FALSE
