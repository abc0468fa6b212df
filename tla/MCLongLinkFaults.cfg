SPECIFICATION FairSpec
CONSTANTS
  MaxHandshakes = 3
  MaxNoops = 2
  MaxPushes = 1
  TicketCounts = {0, 2}
  Faults <- AllFaults
INVARIANTS
  KeyAgreement
  NoNonceReuse
  SessionCoherent
PROPERTIES
  ImplementsSecureLink
  CallsReturn
CHECK_DEADLOCK FALSE
