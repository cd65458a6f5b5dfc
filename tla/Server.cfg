CONSTANTS
  MaxQueuedBytes = 1
  FrameSizes <- OneByte
  SendErrnos <- Errors
  WatchMayFail = FALSE
  Options <- AnyOptions
  PeerUnits <- FewUnits
  TotalConns = 2
  MaxInput = 2
  MaxCalls = 2
SPECIFICATION Spec
INVARIANTS TypeOK CallbackOrder DescriptorsOwned WaitsForEverything
PROPERTY ClosedStaysClosed
