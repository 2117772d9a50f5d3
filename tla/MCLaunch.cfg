SPECIFICATION MCSpec
CONSTANTS
  NProcs = 4
  Debug <- SomeBuilds
  MaxAlarms = 1
  World <- World3
  Requests = {2}
  Faults <- AllFaults
  NSymbols = 1
  MaxExecs = 1
  MaxDepth = 2
  MaxFaults = 1
  Probers <- Probers2
  Blocks = 2
  MinRange = 1
  MaxRange = 3
  Relations = 2
  PreferredSamples = 3
  MinSamples = 0
  Settings <- ExampleSettings
  App <- ExampleApp
  Effect <- ExampleEffect
  Rows = 2
  SleepStep = 1
  NumBlocks = 1
INVARIANTS
  HookAgreement
  ExecInStep
  ProbeAgreement
  HaloFresh
  ForcesComplete
PROPERTIES
  HookEnds
  ExecEnds
CHECK_DEADLOCK FALSE
