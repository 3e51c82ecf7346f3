SPECIFICATION FairBackendSpec
CONSTANTS
  f1 = f1  f2 = f2  f3 = f3
  l1 = l1
  NoCall = NoCall  NoLoop = NoLoop  None = None
  Flights = {f1, f2}
  SkillOf <- TakeoffGoto
  After <- OneByOne
  CancelsOf <- CancelGoto
  TheLoop = l1
  Loops = {l1}
  Others = {}
  Calls <- MCCalls
  Executions <- MCExecutions
  Kinds <- MCKinds
  LoopOf <- MCLoopOf
  ExecOf <- MCExecOf
  KindOf <- MCKindOf
  Reporting = {}
  MaxUnread = 1
INVARIANTS
  BackendTypeOK
  RegistersMatchFlights
  QueueSound
  PlanInOrder
PROPERTIES
  ServesFlights
  EveryFlightEnds
  EveryCallReturns
CHECK_DEADLOCK FALSE
