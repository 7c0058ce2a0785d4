SPECIFICATION FairSpec
CONSTANTS
  h1 = h1
  h2 = h2
  p1 = p1
  p2 = p2
  Helpers = {h1, h2}
  RemoteHelpers = {}
  Pids = {p1, p2}
  MaxGen = 2
  PidReuse = FALSE
  HelpersCrash = FALSE
  IoFaults = FALSE
  None = None
CHECK_DEADLOCK FALSE
INVARIANTS
  CleanupCompletes
  OneEnginePerName
  GcSparesHealthy
PROPERTIES
  LeaseReleased
