CONSTANTS
  Procs <- Procs2
  PostCount = 8
  RingSize = 4
  Programs <- AllModes
  Quitters = {}
SPECIFICATION Spec
INVARIANTS
  TypeOK
  SyncDelivers
  LocalCompletion
  IssuerDelivers
PROPERTIES
  ImplementsBsp
