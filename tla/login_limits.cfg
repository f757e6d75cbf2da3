SPECIFICATION LoginSpec
CONSTANTS
  Threads = {t1, t2, t3}
  MaxAttempts = 2
  AttemptWindow = 2
  MaxRequests = 4
  RequestWindow = 1
  MaxConcurrent = 2
  MaxClock = 3
INVARIANTS
  LeasesAreCounted
  RateIsBounded
  FailuresAreBounded
SYMMETRY Symmetry
