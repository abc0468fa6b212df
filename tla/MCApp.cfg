SPECIFICATION FairSpec
CONSTANTS
  Base = 256
  MaxStarts = 3
  MaxCuts = 1
  TicketCounts <- Tickets
INVARIANTS
  TypeOK
  SavedIsProved
  LoadedKeysWhole
PROPERTIES
  DeadLinkEnds
CHECK_DEADLOCK FALSE
