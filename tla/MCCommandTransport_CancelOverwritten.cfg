SPECIFICATION Spec
CONSTANTS
  o1 = o1  c1 = c1  c2 = c2  c3 = c3
  l1 = l1  l2 = l2
  e1 = e1  e2 = e2
  mode = mode
  Reporting = {c1, c2}
  MaxUnread = 2
  MaxScheduled = 2
  NoCall = NoCall  NoLoop = NoLoop
  Calls = {c1, c2}
  Others = {}
  Loops = {l1}
  Executions = {e1, e2}
  Kinds = {mode}
  LoopOf <- PairLoopOf
  ExecOf <- BothExecOf
  KindOf <- OneKind
INVARIANTS
  CancelledWaitIgnoresAcks
CHECK_DEADLOCK FALSE
