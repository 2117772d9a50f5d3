CONSTANTS
  Procs <- Procs3
  PostCount = 8
  RingSize = 2
  Programs <- TwoSenders
  Quitters = {}
SPECIFICATION Spec
INVARIANTS
  SyncDelivers
