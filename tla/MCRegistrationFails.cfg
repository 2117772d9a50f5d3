CONSTANTS
  Procs <- Procs2
  MaxCalls = 2
  MaxLocal = 0
  Sizes <- Sizes2
  Quitters = {}
  Faulty <- Process1
SPECIFICATION Spec
INVARIANT FailureIsShared
CHECK_DEADLOCK FALSE
