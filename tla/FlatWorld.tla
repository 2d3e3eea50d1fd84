------------------------------- MODULE FlatWorld -------------------------------
(***************************************************************************)
(* World with the terrain of FlatGenerator (crates/world/src/lib.rs).      *)
(***************************************************************************)
EXTENDS World, SequencesExt

CONSTANTS
  SurfaceHeight,   \* FlatGenerator.surface_height (64)
  DirtDepth,       \* how far below the surface the stone begins (5)
  WaterLevel       \* below it, what is above the surface is water (10)

\* The blocks of with_terrain, as runtime ids.
Bedrock == 10
Stone   == 1
Grass   == 2
Dirt    == 3
Water   == 8

TerrainBlock(y) ==
  IF y = 0 THEN Bedrock
  ELSE IF y < SurfaceHeight - DirtDepth THEN Stone
  ELSE IF y < SurfaceHeight - 1 THEN Dirt
  ELSE IF y = SurfaceHeight - 1 THEN Grass
  ELSE IF y < WaterLevel THEN Water
  ELSE Air

\* with_terrain: subchunk s, each cell of an air subchunk set in the order of the
\* loops (the inner one goes up).
TerrainSubChunk(s) ==
  LET Nth(n) == [x |-> n \div (Side * Side), z |-> (n \div Side) % Side, y |-> n % Side]
  IN  FoldLeft(LAMBDA sub, n : SetCell(sub, CellOf(Nth(n)), TerrainBlock(s * Side + Nth(n).y)),
               Filled(Air), [n \in 1..(Side * Side * Side) |-> n - 1])

\* The column is the same everywhere, so its subchunks are worked out once.
TerrainColumn == [s \in 0..(Stack - 1) |-> TerrainSubChunk(s)]

\* generate_chunk of FlatGenerator
FlatChunk(cx, cz) == TerrainColumn
=============================================================================
