SPECIFICATION Spec
CONSTANTS
  Unknown = Unknown
  None = None
  Requests <- PolicyRequests
  Bodies <- PolicyBodies
  SpeedReadings <- PolicyReadings
  Limits <- MCLimits
  Authorities = {"agent_allowed"}
  MaxServed = 1
  MaxTime = 2
  MaxSnapshots = 2
  MaxCrashes = 0
INVARIANTS
  FlightFitsPhase
  GotoStaysInside
CHECK_DEADLOCK FALSE
