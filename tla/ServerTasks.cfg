\* Two clients, every kind of block interaction, one repeated connection.
SPECIFICATION FairSpec
CONSTANTS
  Addr = {a1, a2}
  Interactions <- BlockWork
  MaxConnects = 3
  MaxBatches = 2
INVARIANTS
  TypeOK
  EntityIdsDistinct
  SessionsArePlayers
PROPERTIES
  DropsOnlyBeforeConnect
  TicksUntilInteraction
  HandledUntilInteraction
\* Once the RakNet task has returned the process is gone.
CHECK_DEADLOCK FALSE
