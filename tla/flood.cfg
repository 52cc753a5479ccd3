CONSTANTS
  Sessions = {w1, w2}
  Scenarios <- FloodScenarios
  Mode = "flood"
  RateLimit = TRUE
  Duration = 1
  MadeUp = {0, 2}
SYMMETRY WorkerSymmetry
SPECIFICATION Spec
INVARIANTS Conservation FloodOneWay
