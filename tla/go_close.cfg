SPECIFICATION FairSpec
CONSTANTS
  Strategy = "fallback"
  Callers = {}
  MaxVersion = 1
  MaxOutages = 1
  MaxCred = 0
  WireBound = 1
  FetchModes = {"polling", "streaming"}
  Lossy = {}
  FrameFaults = TRUE
  c1 = c1
  c2 = c2
PROPERTIES CloseReturns
CHECK_DEADLOCK FALSE
