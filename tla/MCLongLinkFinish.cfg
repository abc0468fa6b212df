SPECIFICATION Spec
CONSTANTS
  MaxHandshakes = 1
  MaxNoops = 1
  MaxPushes = 0
  TicketCounts = {0, 2}
  Faults <- AllFaults
INVARIANTS
  InStep
CHECK_DEADLOCK FALSE
