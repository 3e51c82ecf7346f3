SPECIFICATION FairSpec
CONSTANTS
  None = None
  Agents = {a1, a2}
  RoundsOf <- OneEach
  MaxActions = 2
  Threads = 2
  Timeout = 2
  Slack = 1
  FlightTime = 1
  MaxCrashes = 1
INVARIANTS
  TypeOK
  InOrder
  SuccessMeansFlown
  LoneBehaviorNeverTimesOut
  PlansAfterBehavior
PROPERTY EveryBehaviorAnswered
CHECK_DEADLOCK FALSE
