CONSTANTS
  Setups <- SlowCallbacks
  Defaults <- UsualDefaults
  UsecPerMs = 1
  WordSize = 1024
  Horizon = 7
SPECIFICATION Spec
PROPERTIES PongsCount
CHECK_DEADLOCK FALSE
