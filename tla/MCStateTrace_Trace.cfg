SPECIFICATION Spec
CONSTANTS
  adapter = adapter  gate = gate
  Writers <- BothWriters
  Torn = Torn  None = None
  MaxClock = 2
  MaxPx4Time = 2
  MaxSnapshots = 3
  MaxDecisions = 1
  MaxCrashes = 1
INVARIANTS
  StateTypeOK
  OnlyFaultsHideRecords
  TimeQueryRight
  DecisionsNameRecordedStates
  DecisionFindsItsState
CHECK_DEADLOCK FALSE
