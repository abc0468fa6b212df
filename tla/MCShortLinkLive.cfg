SPECIFICATION FairSpec
CONSTANTS
  MaxHandshakes = 1
  MaxRequests = 2
  TicketCounts = {0, 1}
  Faults <- HandshakeFaults
PROPERTIES
  CallsReturn
CHECK_DEADLOCK FALSE
