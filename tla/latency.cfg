CONSTANTS
  Sessions = {w1, w2}
  Scenarios <- LatencyScenarios
  Mode = "latency"
  RateLimit = TRUE
  Duration = 1
  MadeUp = {0, 2}
SYMMETRY WorkerSymmetry
SPECIFICATION Spec
INVARIANTS TypeOK Conservation RowsCoherent FinalRowComplete SamplesGenuine
INVARIANTS ResponsesInOrder OversizeDropped
PROPERTIES LateStaysLate ImplementsLedger
