SPECIFICATION Spec
CONSTANTS
  RilThreads = {r1, r2}
  MAX_SM_INSTANCES = 0
  SetInitiated = TRUE
  MaxSessions = 2
  MaxCalls = 1
  NoSession = NoSession
CHECK_DEADLOCK FALSE
INVARIANTS
  ConsentGiven
  ClientsCounted
  QueueConsistent
PROPERTIES
  SessionEnds
