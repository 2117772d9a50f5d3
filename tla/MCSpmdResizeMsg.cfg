CONSTANTS
  Procs <- Procs2
  PostCount = 2
  RingSize = 2
  Programs <- ResizeMsg
  Quitters = {}
SPECIFICATION Spec
INVARIANTS
  ResizeTakesEffect
