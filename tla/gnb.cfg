CONSTANTS
  Inputs <- MCInputs
  SampleSets <- MCSampleSets
  MaxTx = 30
  MaxRows = 2
  RowSize = 2
  BufSize = 3
  Spaces = {0, 2, 3, 5, 6, 8}
SPECIFICATION Spec
INVARIANTS TypeOK SweepComplete RanksRight PacedRate SilentLossBounded
