SPECIFICATION Spec
CONSTANTS
  Namespace = "mobile"
  OptionTexts <- MCOptionTexts
  Requests <- MCRequests
  Documents <- MCDocuments
  Seeds <- MCSeeds
  Leases <- MCLeases
INVARIANTS TypeOK HostsAgree NothingLeaks EngineAliveWhenUsed LeaseKeptFresh StartedAsConfigured
CHECK_DEADLOCK FALSE
