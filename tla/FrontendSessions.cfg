SPECIFICATION FairSpec
CONSTANTS
  FrontEnd = {1, 2}
  Name = {1}
  Own = Own
  Token = {Own}
  Request <- LineRequests
  Line <- LifecycleLines
  IdleTimeout = 1
  MaxEvents = 1
  MaxGen = 2
  None = None
INVARIANTS CompensationOwn CleanedMeansGone BatchHonest
PROPERTY ServesSerially
CHECK_DEADLOCK FALSE
