SPECIFICATION Spec
CONSTANTS
  Requests = {r1, r2, r3}
  Keys = {kc, kt}
  TriageKeys = {kt}
  Payloads = {p1, p2}
  NoKey = NoKey
  BadKey = BadKey
  None = None
  PromptRequests = TRUE
  MaxEpoch = 2
  MaxCrashes = 1
SYMMETRY Symmetry
INVARIANTS
  TypeOK
  OneRequestAtWork
  OnceBetweenExpirations
  OneCanonicalAnswer
  ReplayIsOfTheSameRequest
PROPERTY ImplementsOnceOnly
CHECK_DEADLOCK FALSE
