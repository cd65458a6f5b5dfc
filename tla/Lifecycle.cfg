CONSTANTS
  Servers = {s1, s2}
  Built <- TwoDrivers
  Addresses = 2
  Protocols <- SomeProtocols
  MaxRuns = 3
  MaxRequests = 2
SPECIFICATION Spec
INVARIANTS ListenerFollowsLoop RunIsPossible
PROPERTY StopEndsRun
CHECK_DEADLOCK FALSE
