SPECIFICATION Spec
CONSTANTS
  Mode = "polling"
  Strategy = "fail"
  Callers = {c1}
  BatchSize = 2
  MaxVersion = 3
  MaxOutages = 1
  MaxCred = 0
  RequestTimeout = FALSE
  MaxRetries = 1
  Interval = 1
  Capacity = 2
  WireBound = 1
  BodyFaults = FALSE
  EtagOptional = TRUE
  c1 = c1
  c2 = c2
INVARIANTS TypeOK BatchIsAtomic EtagIsDelivered InOrder
PROPERTIES ImplementsView AnswersNeverGoBack QuietAfterDestroy
CHECK_DEADLOCK FALSE
