CONSTANTS
  Sessions = {w1, w2}
  Scenarios <- ShutdownScenarios
  Mode = "latency"
  RateLimit = TRUE
  Duration = 1
  MadeUp = {0, 2}
SPECIFICATION FairSpec
PROPERTIES AmfDrains Termination ImplementsLifecycle
\* The two programs may wait for each other for good: see CircularWait.
CHECK_DEADLOCK FALSE
