SPECIFICATION Spec
CONSTANTS
  Modes = {"clock", "apb", "flow", "packet", "interleaved", "late", "expr", "event",
           "window", "bit", "bus", "counter", "shake", "txn", "design"}
  MaxSamples = 3
  MaxTime = 4
  MaxTxns = 2
PROPERTIES
  SamplingConsistent
  ApbExact
  StreamsExact
  StreamAnswersAgree
  ExpressionsSound
  EventsSound
  SignalsExact
  QueriesExact
  TracesSound
CHECK_DEADLOCK FALSE
