SPECIFICATION FairSpec
CONSTANTS
  Mode = "polling"
  Strategy = "fallback"
  Callers = {c1, c2}
  BatchSize = 1
  MaxVersion = 2
  MaxOutages = 1
  MaxCred = 0
  RequestTimeout = TRUE
  MaxRetries = 1
  Interval = 2
  Capacity = 1
  WireBound = 1
  BodyFaults = TRUE
  EtagOptional = FALSE
  c1 = c1
  c2 = c2
INVARIANTS FallbackNeverRefuses
PROPERTIES DestroyReturns
CHECK_DEADLOCK FALSE
