SPECIFICATION MCSpec
CONSTANTS
  Names = {1, 2}
  Signals = {"s", "t", "agg"}
  Leaves = {"s", "t"}
  Fsdb = "wave"
  OtherFsdb = "earlier"
  BusDocs <- MCBusDocs
  AxiWaves <- MCAxiWaves
  EventDocs <- MCEventDocs
  StreamDocs <- MCStreamDocs
  MaxItems = 3
  Publishers = {"p1", "p2"}
  TargetsOf <- MCTargets
  Free = "free"
INVARIANTS StoreReadable ArtifactSetWhole
PROPERTIES OnlyNamedEntriesChange
CHECK_DEADLOCK FALSE
