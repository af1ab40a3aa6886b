SPECIFICATION Spec
CONSTANTS
  Requests = 2
  MaxMsg = 2
  MaxTries = 2
  Items = 2
  MaxJobs = 2
CHECK_DEADLOCK FALSE
INVARIANTS
  CurrentIsFront
  SuccessAccepted
PROPERTIES
  ActionEnds
