SPECIFICATION FairSpec
CONSTANTS
  Unknown = Unknown
  None = None
  Requests <- FlowRequests
  Bodies <- FlowBodies
  SpeedReadings <- FlowReadings
  Limits <- MCLimits
  Authorities = {"agent_allowed", "human_control_active"}
  MaxServed = 2
  MaxTime = 2
  MaxSnapshots = 2
  MaxCrashes = 1
INVARIANTS
  TypeOK
  DecisionWrittenAhead
  DispatchedOnce
  DispatchRestsOnCurrentEvidence
  RepliesMatchTrace
  TraceWellFormed
PROPERTIES
  EveryRequestAnswered
  KeepsPromise
CHECK_DEADLOCK FALSE
