SPECIFICATION Spec
CONSTANTS
  Requests = {r1}
  Workers = {w1, w2}
  RequestTimeout = 1
  ClaimTimeout = 0
  IdleTimeout = 2
  HistoryTtl = 1
  KeepHistory = FALSE
  FaultyIo = TRUE
  MaxTime = 3
  None = None
CHECK_DEADLOCK FALSE
SYMMETRY Symmetric
INVARIANTS
  AtMostOneRun
  WithdrawnNeverRuns
  RefusedNeverRuns
  AnswerImpliesRun
  NeverLost
PROPERTIES
  FirstResponseWins
