SPECIFICATION Spec
CONSTANTS
  MaxHandshakes = 1
  MaxRequests = 2
  TicketCounts = {0, 1}
  Faults <- OnCurve
INVARIANTS
  NoPanic
CHECK_DEADLOCK FALSE
