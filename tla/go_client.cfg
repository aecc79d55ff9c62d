SPECIFICATION FairSpec
CONSTANTS
  Strategy = "fail"
  Callers = {c1}
  MaxVersion = 2
  MaxOutages = 1
  MaxCred = 0
  WireBound = 1
  FetchModes = {"polling", "streaming"}
  Lossy = {1, 2}
  FrameFaults = TRUE
  c1 = c1
  c2 = c2
INVARIANTS TypeOK EtagIsTaken EngineIsExclusive
PROPERTIES ImplementsView QuietAfterClose CloseReturnsUnlessBlocked EventuallyServed
CHECK_DEADLOCK FALSE
