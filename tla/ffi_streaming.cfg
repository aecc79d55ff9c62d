SPECIFICATION LiveSpec
CONSTANTS
  Mode = "streaming"
  Strategy = "fail"
  Callers = {c1}
  BatchSize = 2
  MaxVersion = 3
  MaxOutages = 1
  MaxCred = 0
  RequestTimeout = FALSE
  MaxRetries = 0
  Interval = 1
  Capacity = 1
  WireBound = 2
  BodyFaults = FALSE
  EtagOptional = FALSE
  c1 = c1
  c2 = c2
INVARIANTS IInv
PROPERTIES ImplementsView EventuallyCurrent DestroyReturnsWhenArmed
CHECK_DEADLOCK FALSE
