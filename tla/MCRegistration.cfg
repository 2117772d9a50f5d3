CONSTANTS
  Procs <- Procs2
  MaxCalls = 4
  MaxLocal = 1
  Sizes <- Sizes2
  Quitters = {}
  Faulty <- Process1
SPECIFICATION Spec
INVARIANTS
  TypeOK
  IInv
  SlotsAgree
  SlotsDiffer
  NothingLeaks
  SlotsReserved
  KeysOfTheSameRegistration
  RegisteredBySync
  MatchingCollectives
CHECK_DEADLOCK FALSE
