SPECIFICATION Spec
CONSTANTS
  Base = 32
  Samples <- LargeSamples
  MaxRecords = 1
INVARIANTS
  RecordsAsSent
CHECK_DEADLOCK FALSE
