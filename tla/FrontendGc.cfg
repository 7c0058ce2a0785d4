SPECIFICATION Spec
CONSTANTS
  FrontEnd = {1, 2}
  Name = {1}
  Own = Own
  Token = {Own}
  Request <- LineRequests
  Line <- GcLines
  IdleTimeout = 5
  MaxEvents = 0
  MaxGen = 2
  None = None
INVARIANT ReclaimsWhatItJudged
CHECK_DEADLOCK FALSE
