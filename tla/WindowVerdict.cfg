SPECIFICATION Spec
CONSTANTS
  Modes = {"window"}
  MaxSamples = 3
  MaxTime = 4
  MaxTxns = 2
PROPERTIES
  WindowVerdictHolds
CHECK_DEADLOCK FALSE
