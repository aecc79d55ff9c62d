SPECIFICATION FairSpec
CONSTANTS
  Strategy = "fail"
  Callers = {}
  MaxVersion = 1
  MaxOutages = 1
  MaxCred = 0
  WireBound = 1
  FetchModes = {"polling"}
  Lossy = {}
  FrameFaults = TRUE
  c1 = c1
  c2 = c2
PROPERTIES ErrorsClear
CHECK_DEADLOCK FALSE
