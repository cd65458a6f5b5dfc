CONSTANTS
  MaxQueuedBytes = 2
  FrameSizes <- OneByte
  SendErrnos <- Errors
  WatchMayFail = TRUE
  Options <- UsualOptions
  PeerUnits <- EveryUnit
  TotalConns = 1
  MaxInput = 3
  MaxCalls = 3
SPECIFICATION FairSpec
INVARIANTS SocketHeld CleanExit
PROPERTIES StopStops ClosedIsRemoved
