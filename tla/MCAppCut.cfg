SPECIFICATION Spec
CONSTANTS
  Base = 256
  MaxStarts = 3
  MaxCuts = 1
  TicketCounts <- Tickets
INVARIANTS
  LoadedTicketsSaved
CHECK_DEADLOCK FALSE
