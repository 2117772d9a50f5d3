CONSTANTS
  Procs <- Procs3
  PostCount = 2
  RingSize = 1
  Programs <- BarrierOrDefault
  Quitters = {1, 2, 3}
SPECIFICATION BarrierSpec
INVARIANTS
  BarrierDelivers
  NoExcess
  MatchingCollectives
  ReceivePosted
  StagedWhenReconnecting
  ResizeTakesEffect
  IInv
  ExitAgreement
PROPERTIES
  SyncExits
