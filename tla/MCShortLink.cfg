SPECIFICATION Spec
CONSTANTS
  MaxHandshakes = 2
  MaxRequests = 2
  TicketCounts = {0, 1}
  Faults <- HandshakeFaults
INVARIANTS
  TypeOK
  ResponseMatches
  NoNonceReuse
  SessionCoherent
  VerifiedStatus
  ConnectionsClosed
PROPERTIES
  IntactAccepted
  RequestKeepsSession
  ImplementsSecureRequest
CHECK_DEADLOCK FALSE
