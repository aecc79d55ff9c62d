SPECIFICATION LiveSpec
CONSTANTS
  Mode = "polling"
  Strategy = "fail"
  Callers = {}
  BatchSize = 1
  MaxVersion = 2
  MaxOutages = 1
  MaxCred = 1
  RequestTimeout = FALSE
  MaxRetries = 1
  Interval = 1
  Capacity = 1
  WireBound = 1
  BodyFaults = FALSE
  EtagOptional = TRUE
  c1 = c1
  c2 = c2
PROPERTIES EventuallyCurrent
CHECK_DEADLOCK FALSE
