CONSTANTS
  Procs <- Procs2
  PostCount = 2
  RingSize = 2
  Programs <- ResizeAndPut
  Quitters = {}
SPECIFICATION FairSpec
PROPERTIES
  SyncExits
CHECK_DEADLOCK FALSE
