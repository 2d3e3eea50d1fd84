\* Eight packets in bursts of up to four.  The handler stops for good once a block
\* is changed, and when the packets are used up.
SPECIFICATION Spec
CONSTANTS
  Position <- SomePositions
  Block <- SomeBlocks
  Radius <- SomeRadii
  Reach = 5
  MaxBurst = 4
  MaxPackets = 8
CHECK_DEADLOCK FALSE
INVARIANTS
  TypeOK
  AnswersInOrder
  ChunksAfterEntry
  NothingLeftOver
