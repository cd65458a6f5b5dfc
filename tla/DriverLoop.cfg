SPECIFICATION FairSpec
CONSTANTS
  NumFds = 3
  Configs <- AllDrivers
  BatchLimit = 2
  ListenBacklog = 2
  MaxChunks = 2
PROPERTIES ImplementsDriver InputIsRead ConnectionsAccepted
CHECK_DEADLOCK FALSE
