CONSTANTS
  Sessions = {w1}
  Scenarios <- ShortScenarios
  Mode = "latency"
  RateLimit = TRUE
  Duration = 1
  MadeUp = {0, 2}
SPECIFICATION Spec
INVARIANT ClosedLoop
