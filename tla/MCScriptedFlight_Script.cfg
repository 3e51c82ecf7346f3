SPECIFICATION FairSpec
CONSTANTS
  None = None
  MaxAge = 0
  MaxBack = 1
  MaxTroubles = 1
  StartsAloft = FALSE
  HoldFor = 2
  SyncHome = TRUE
INVARIANTS
  ScriptTypeOK
  SuccessesAreReal
PROPERTIES
  LaunchedFresh
  HoldMeansDwell
  ScriptEnds
CHECK_DEADLOCK FALSE
