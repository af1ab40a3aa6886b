SPECIFICATION Spec
CONSTANTS
  Flow = "SMART"
  Window = 2
  Retries = 1
  MaxMsgs = 3
  MaxTransfers = 1
CHECK_DEADLOCK FALSE
INVARIANTS
  FlowControl
  AckCountExact
  ReportsTrue
PROPERTIES
  SettledNotResent
  TransferEnds
