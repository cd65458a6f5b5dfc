CONSTANTS
  Setups <- AllSetups
  Defaults <- UsualDefaults
  UsecPerMs = 1
  WordSize = 1024
  Horizon = 7
SPECIFICATION Spec
INVARIANTS SilentPeersGo DrainingIsBounded
PROPERTIES NotClosedEarly AnsweringPeersStay
CHECK_DEADLOCK FALSE
