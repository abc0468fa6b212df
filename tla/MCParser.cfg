SPECIFICATION Spec
CONSTANTS
  Base = 256
  Samples <- AllSamples
  MaxRecords = 2
INVARIANTS
  RecordsAsSent
  DescribedAsWritten
  HelloRead
PROPERTIES
  Ends
CHECK_DEADLOCK FALSE
