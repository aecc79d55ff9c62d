SPECIFICATION LiveSpec
CONSTANTS
  Mode = "streaming"
  Strategy = "fail"
  Callers = {c1}
  BatchSize = 1
  MaxVersion = 2
  MaxOutages = 1
  MaxCred = 0
  RequestTimeout = FALSE
  MaxRetries = 0
  Interval = 1
  Capacity = 1
  WireBound = 1
  BodyFaults = FALSE
  EtagOptional = FALSE
  c1 = c1
  c2 = c2
PROPERTIES DestroyReturns
CHECK_DEADLOCK FALSE
