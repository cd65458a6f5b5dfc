CONSTANTS
  MaxQueuedBytes = 3
  FrameSizes <- Sizes
  SendErrnos <- NoErrors
  WatchMayFail = FALSE
  StreamBound = 9
SPECIFICATION Spec
INVARIANT CloseSendsCloseFrame
CHECK_DEADLOCK FALSE
