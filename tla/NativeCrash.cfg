SPECIFICATION Spec
CONSTANTS
  h1 = h1
  h2 = h2
  p1 = p1
  p2 = p2
  Helpers = {h1, h2}
  RemoteHelpers = {h2}
  Pids = {p1, p2}
  MaxGen = 2
  PidReuse = TRUE
  HelpersCrash = TRUE
  IoFaults = TRUE
  None = None
SYMMETRY Symmetric
INVARIANTS ActiveCleanable CleanedMeansStopped TombstoneSound
CHECK_DEADLOCK FALSE
