SPECIFICATION Spec
CONSTANTS
  o1 = o1  c1 = c1  c2 = c2  c3 = c3
  l1 = l1  l2 = l2
  e1 = e1  e2 = e2
  mode = mode
  Reporting = {c3}
  MaxUnread = 1
  MaxScheduled = 1
  NoCall = NoCall  NoLoop = NoLoop
  Calls = {c1, c2, c3}
  Others = {o1}
  Loops = {l1, l2}
  Executions = {e1, e2}
  Kinds = {mode}
  LoopOf <- TwoLoopsOf
  ExecOf <- ThreeExecOf
  KindOf <- OneKind
INVARIANTS
  OneCommandInFlight
  LifecycleAccounted
  ForeignAckHasCause
SYMMETRY OneLoopCalls
CONSTRAINT FewScheduled
CHECK_DEADLOCK FALSE
