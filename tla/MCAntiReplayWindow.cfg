SPECIFICATION WindowSpec
CONSTANTS
  Window = 3
  Counters <- MCCounters
INVARIANTS
  WindowInv
  FreshInBandAccepted
PROPERTY ImplementsGuard
\* A session whose counters are used up is legitimately finished.
CHECK_DEADLOCK FALSE
