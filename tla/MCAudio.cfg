SPECIFICATION FairSpec
CONSTANTS
  Directs = {"hdmi"}
  Routes <- FewRoutes
  Refs = {r1, r2}
  NoRef = NoRef
  FailureSets <- CleanOrNot
INVARIANTS
  PortsExclusive
  EchoShared
  EchoFollows
  StoppedInCall
  ActiveInputExact
PROPERTIES
  DeviceLockReleased
