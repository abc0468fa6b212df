SPECIFICATION Spec
CONSTANTS
  MaxHandshakes = 2
  MaxNoops = 2
  MaxPushes = 1
  TicketCounts = {0, 2}
  Faults <- FinishParses
INVARIANTS
  TypeOK
  InStep
PROPERTIES
  NoopAnswered
  FailStop
  CleanRecordsAccepted
CHECK_DEADLOCK FALSE
