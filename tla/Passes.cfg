SPECIFICATION FairPassSpec
CONSTANTS
  Processes <- MCProcesses
  Sessions <- MCSessions
  PoolOf <- MCPoolOf
  Runs <- MCRuns
  ProcessOf <- MCProcessOf
  MaxDepth = 2
  Scheduled <- MCScheduled
  KindsOf <- MCKindsOf
  Day = 2
  WindowStart = 0
  WindowEnd = 1
  WriteEnabled = TRUE
INVARIANT ProcessesExclude
PROPERTY CursorGoesForward DailyStepsRecur
