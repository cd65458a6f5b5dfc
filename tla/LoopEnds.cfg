CONSTANTS
  MaxQueuedBytes = 1
  FrameSizes <- OneByte
  SendErrnos <- Errors
  WatchMayFail = FALSE
  Options <- UsualOptions
  PeerUnits <- EveryUnit
  TotalConns = 1
  MaxInput = 2
  MaxCalls = 1
SPECIFICATION Spec
INVARIANT LoopEndsOnRequest
