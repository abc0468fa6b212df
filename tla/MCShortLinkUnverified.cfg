SPECIFICATION Spec
CONSTANTS
  MaxHandshakes = 1
  MaxRequests = 2
  TicketCounts = {0, 1}
  Faults <- OnCurve
INVARIANTS
  VerifiedSession
CHECK_DEADLOCK FALSE
