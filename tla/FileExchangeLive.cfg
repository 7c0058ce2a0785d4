SPECIFICATION FairSpec
CONSTANTS
  Requests = {r1}
  Workers = {w1, w2}
  RequestTimeout = 1
  ClaimTimeout = 0
  IdleTimeout = 2
  HistoryTtl = 1
  KeepHistory = TRUE
  FaultyIo = FALSE
  MaxTime = 2
  None = None
CHECK_DEADLOCK FALSE
PROPERTIES
  CallReturns
  StaleClaimResolved
