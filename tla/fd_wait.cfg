CONSTANTS
  UnitsPerMs = 3
  MaxTime = 12
  NoDeadline = NoDeadline
SPECIFICATION Spec
INVARIANTS TypeOK NotEarly NotLate
