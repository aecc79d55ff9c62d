SPECIFICATION LiveSpec
CONSTANTS
  Mode = "polling"
  Strategy = "fallback"
  Callers = {}
  BatchSize = 1
  MaxVersion = 2
  MaxOutages = 0
  MaxCred = 0
  RequestTimeout = FALSE
  MaxRetries = 0
  Interval = 1
  Capacity = 1
  WireBound = 1
  BodyFaults = TRUE
  EtagOptional = FALSE
  c1 = c1
  c2 = c2
PROPERTIES SeedIsReplaced
CHECK_DEADLOCK FALSE
