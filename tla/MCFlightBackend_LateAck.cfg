SPECIFICATION BackendSpec
CONSTANTS
  f1 = f1  f2 = f2  f3 = f3
  l1 = l1
  NoCall = NoCall  NoLoop = NoLoop  None = None
  Flights = {f1, f2}
  SkillOf <- TwoGotos
  After <- OneByOne
  CancelsOf <- CancelFirstOfTwo
  TheLoop = l1
  Loops = {l1}
  Others = {}
  Calls <- MCCalls
  Executions <- MCExecutions
  Kinds <- MCKinds
  LoopOf <- MCLoopOf
  ExecOf <- MCExecOf
  KindOf <- MCKindOf
  Reporting = {}
  MaxUnread = 2
PROPERTIES
  LoiterBeforeStop
CHECK_DEADLOCK FALSE
