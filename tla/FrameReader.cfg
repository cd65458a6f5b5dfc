CONSTANTS
  MaxMessageSize = 3
  ReadChunk = 8
  MaxControl = 13
  PeerFrames <- Mixed
  ChunkSizes = {3}
  MaxFrames = 3
SPECIFICATION FairSpec
INVARIANTS DeliversMessages CloseCodeDeserved BoundedMemory
PROPERTY FramesAreHandled
CHECK_DEADLOCK FALSE
