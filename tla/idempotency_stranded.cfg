SPECIFICATION Spec
CONSTANTS
  Requests = {r1, r2}
  Keys = {kc, kt}
  TriageKeys = {kt}
  Payloads = {p1}
  NoKey = NoKey
  BadKey = BadKey
  None = None
  PromptRequests = TRUE
  MaxEpoch = 1
  MaxCrashes = 0
INVARIANT PendingMeansInFlight
CHECK_DEADLOCK FALSE
