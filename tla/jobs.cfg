SPECIFICATION MCSpec
CONSTANTS
  MaxJobs = 4
  MaxFinished = 1
  MaxBuffer = 2
  MaxChunk = 2
  MaxCaptured = 6
  MaxWidth = 2
  StallSeconds = 2
  MaxClock = 5
INVARIANTS RunningIsBacked SignalsAgree OutputAccounted
PROPERTIES RetentionByStart ImplementsJobLifecycle JobsEnd
CHECK_DEADLOCK FALSE
