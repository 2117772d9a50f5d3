SPECIFICATION HookSpec
CONSTANTS
  NProcs = 3
  Debug = {}
  MaxAlarms = 1
INVARIANT
  NobodyMissing
CHECK_DEADLOCK FALSE
