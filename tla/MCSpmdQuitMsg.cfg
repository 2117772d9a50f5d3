CONSTANTS
  Procs <- Procs2
  PostCount = 2
  RingSize = 2
  Programs <- MsgBarrier
  Quitters = {1}
SPECIFICATION FairSpec
PROPERTIES
  SyncExits
CHECK_DEADLOCK FALSE
