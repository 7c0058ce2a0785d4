SPECIFICATION MCSpec
CONSTANTS
  Ids = {i1, i2}
  Lens = {2}
  Samples <- AllSamples
  MaxSamples = 4
  Idle = Idle
  Stall = Stall
SYMMETRY Symmetric
CHECK_DEADLOCK FALSE
INVARIANTS
  OutstandingExact
  NothingLost
  DataInAddressOrder
  SameIdOrder
  TimesOrdered
