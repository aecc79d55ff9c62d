SPECIFICATION LiveSpec
CONSTANTS
  Options <- MCOptions
  MaxVersion = 2
  MaxOutages = 1
  MaxCred = 0
  MaxRequests = 2
  MaxChanges = 2
INVARIANTS TypeOK NotModifiedIsCurrent StoreIsShown
PROPERTIES NewestOptionsWin EventuallyCurrent LoadingEnds
CHECK_DEADLOCK FALSE
