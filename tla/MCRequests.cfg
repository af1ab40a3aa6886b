SPECIFICATION TimedSpec
CONSTANTS
  Callers = {f1, f2}
  Threads = {t1, t2}
  Kinds = {"preview", "record", "still", "snapshot", "callback"}
  Follows <- UsualOrder
  FailureSets = {{}}
  MaxRequests = 3
  MaxTokens = 2
INVARIANTS
  ModesExclusive
  OneFrameUnlessIdle
PROPERTIES
  MetadataStable
  RequestsServed
  NotifyReturns
CHECK_DEADLOCK FALSE
