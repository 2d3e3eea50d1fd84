\* Columns of four layers, five positions, four block ids.
SPECIFICATION Spec
CONSTANTS
  Side = 2
  Stack = 2
  IndexLimit = 4
  RuntimeId = {0, 2, 8, 10}
  Block <- SomeBlocks
  Generate <- FlatChunk
  SurfaceHeight = 2
  DirtDepth = 5
  WaterLevel = 3
INVARIANTS
  TypeOK
PROPERTIES
  IsBlockMap
  SetsTheBlock
  ReadsFollowSets
