\* One client that breaks a block.
SPECIFICATION FairSpec
CONSTANTS
  Addr = {a1}
  Interactions <- BreakOnly
  MaxConnects = 1
  MaxBatches = 1
PROPERTIES
  TicksForEver
\* Once the RakNet task has returned the process is gone.
CHECK_DEADLOCK FALSE
