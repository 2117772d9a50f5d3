SPECIFICATION MCSpec
CONSTANTS
  Procs <- P3
  SendLists <- Lists
  MaxMsgSize = 2
  RecvSize = 4
  Exchanges = 2
  Rounds <- TwoRounds
  MaxSend = 2
  MaxElement = 4
  Grain = 2
  Memory = 7
  Areas <- ThreeAreas
  MaxSlots = 2
  MaxRegions = 2
  MsgIds <- TwoIds
  Base = 4
  Widths <- TwoWidths
  Numbers <- SomeNumbers
  Blobs <- TwoBlobs
  MsgTypes <- OneType
  MaxSize = 6
  MaxFields = 3
  OneSecond = 5
  MaxSeconds = 3
  Factors <- SmallFactors
  Lengths <- ThreeLengths
  MaxArgc = 3
INVARIANTS
  RoundDelivers
  QuietOnReturn
  WaitallDelivers
  IsSet
  RoundTrip
  TimeExact
  ArgumentsKept
PROPERTIES
  ExchangeEnds
  WaitallEnds
  ImplementsWinners
CHECK_DEADLOCK FALSE
