SPECIFICATION FairSpec
CONSTANTS
  Controllers = {c1, c2}
  Frames = {f1, f2}
  NoMessage = NoMessage
  MaxPending = 2
INVARIANTS
  NoLostWakeup
  Rendezvous
PROPERTIES
  SyncPostReturns
  IsMailbox
CHECK_DEADLOCK FALSE
