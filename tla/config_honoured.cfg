CONSTANTS
  Inputs <- TemplateInputs
  SampleSets <- MCSampleSets
  MaxTx = 30
  MaxRows = 0
  RowSize = 2
  BufSize = 3
  Spaces = {8}
SPECIFICATION Spec
INVARIANT ConfigHonoured
