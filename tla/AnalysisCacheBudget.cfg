SPECIFICATION Spec
CONSTANTS
  SoftMax = 5
  HardMax = 8
  SafetyFactor = 1
  KeyBytes = 2
  CursorBytes = 2
  BindingBytes = 1
  Name = {"n1"}
  Sem = {"a1", "a2"}
  Digest = {"d1", "d2"}
  Ranges = {"r1"}
  Kinds = {"address"}
  Sizes = {1, 3}
  StartBytes = 1
  Fuels = {0, 1, 99}
  MaxGen = 2
  LastTxn = 1
INVARIANTS AccountingExact IndexOwned CursorBound ObjectsWithinHard
CHECK_DEADLOCK FALSE
