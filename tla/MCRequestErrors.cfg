SPECIFICATION TimedSpec
CONSTANTS
  Callers = {f1, f2}
  Threads = {t1, t2}
  Kinds = {"preview", "record", "still", "snapshot", "callback"}
  Follows <- UsualOrder
  FailureSets <- DeviceOrEarly
  MaxRequests = 3
  MaxTokens = 2
INVARIANTS
  OneHandler
  PendingExact
  NoStaleThread
  IdleIsQuiet
  DeviceHasThread
PROPERTIES
  HandlerEnds
CHECK_DEADLOCK FALSE
