CONSTANTS
  Procs <- Procs2
  MaxCalls = 2
  MaxLocal = 0
  Sizes = {2}
  Quitters <- Process1
  Faulty = {}
SPECIFICATION FairSpec
PROPERTY SyncReturns
CHECK_DEADLOCK FALSE
