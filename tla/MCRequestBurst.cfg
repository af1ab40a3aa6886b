SPECIFICATION Spec
CONSTANTS
  Callers = {f1, f2}
  Threads = {t1, t2}
  Kinds = {"preview", "still"}
  Follows <- BurstOrder
  FailureSets = {{}}
  MaxRequests = 3
  MaxTokens = 2
INVARIANTS
  OneFrameEveryTime
CHECK_DEADLOCK FALSE
