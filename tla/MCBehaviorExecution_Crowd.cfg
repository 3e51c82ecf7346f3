SPECIFICATION Spec
CONSTANTS
  None = None
  Agents = {a1, a2, a3}
  RoundsOf <- OneEach
  MaxActions = 1
  Threads = 2
  Timeout = 2
  Slack = 1
  FlightTime = 1
  MaxCrashes = 1
SYMMETRY AgentSymmetry
VIEW WithoutHistory
INVARIANT OnlyTimeoutsLeaveActions
CHECK_DEADLOCK FALSE
