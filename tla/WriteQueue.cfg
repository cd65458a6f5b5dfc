CONSTANTS
  MaxQueuedBytes = 3
  FrameSizes <- Sizes
  SendErrnos <- Errors
  WatchMayFail = TRUE
  StreamBound = 9
SPECIFICATION FairSpec
INVARIANTS TypeOK WireIntact QueueAccounting WatchFollowsQueue
PROPERTIES NothingAfterClose DrainsCompletely ImplementsByteStream ClosingCloses
CHECK_DEADLOCK FALSE
