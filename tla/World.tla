--------------------------------- MODULE World ---------------------------------
(***************************************************************************)
(* World, Chunk and SubChunk of crates/world/src/lib.rs: columns of        *)
(* subchunks made on demand by a generator, each subchunk a palette of     *)
(* runtime ids and an array of indices into it.  A BlockState is its       *)
(* runtime id; its users make states with from_runtime_id only.            *)
(*                                                                         *)
(* The operations are those of the packet handler: get_chunk when chunks   *)
(* are sent, get_block and set_block when a block is broken or placed.     *)
(* All of them run under one lock.                                         *)
(***************************************************************************)
EXTENDS Integers, Sequences, FiniteSets

CONSTANTS
  Side,            \* cells along an edge of a subchunk (16)
  Stack,           \* subchunks in a column (16)
  IndexLimit,      \* a palette index is kept in a u16 (65536)
  RuntimeId,       \* runtime ids in use
  Block,           \* bound: positions the operations are called with
  Generate(_, _)   \* WorldGenerator::generate_chunk

ASSUME SizeAssumption ==
  Side \in Nat \ {0} /\ Stack \in Nat \ {0} /\ IndexLimit \in Nat \ {0}
ASSUME BlockAssumption == Block \subseteq [x : Int, y : Int, z : Int]
ASSUME IdAssumption == RuntimeId \subseteq Nat /\ IsFiniteSet(RuntimeId) /\ 0 \in RuntimeId

VARIABLE chunks   \* World.chunks: <<cx, cz>> -> column of subchunks

Air == 0
Cell == 0 .. (Side * Side * Side - 1)
Height == Side * Stack

(***************************************************************************)
(* BlockPos                                                                *)
(***************************************************************************)
\* Mutant: coordinates are divided with rounding towards zero.
ToChunkTruncating(p) ==
  LET Quotient(n) == IF n < 0 THEN -((-n) \div Side) ELSE n \div Side
  IN  <<Quotient(p.x), Quotient(p.z)>>

\* to_chunk: x >> 4, z >> 4.
ToChunk(p) == <<p.x \div Side, p.z \div Side>>

\* local: x & 0xF, y & 0xFF, z & 0xF.
Local(p) == [x |-> p.x % Side, y |-> p.y % Height, z |-> p.z % Side]

\* The subchunk of a column that local coordinates are in (ly / 16) ...
Level(l) == l.y \div Side
\* ... and the cell of that subchunk (local_to_index of lx, ly % 16, lz).
CellOf(l) == (l.y % Side) * Side * Side + l.z * Side + l.x

(***************************************************************************)
(* SubChunk                                                                *)
(***************************************************************************)
Places(palette, id) == {i \in 1..Len(palette) : palette[i] = id}

\* SubChunk::new and SubChunk::filled
Filled(id) == [palette |-> <<id>>, blocks |-> [c \in Cell |-> 0]]

\* Mutant: an id that is in the palette overwrites its first entry.
SetCellFirst(sub, c, id) ==
  IF Places(sub.palette, id) # {}
    THEN [sub EXCEPT !.blocks[c] = 0]
    ELSE [palette |-> Append(sub.palette, id),
          blocks  |-> [sub.blocks EXCEPT ![c] = Len(sub.palette) % IndexLimit]]

\* set_block: the index of id in the palette, added if it is not there.
SetCell(sub, c, id) ==
  IF Places(sub.palette, id) # {}
    THEN LET i == CHOOSE i \in Places(sub.palette, id) :
                    \A j \in Places(sub.palette, id) : i <= j
         IN  [sub EXCEPT !.blocks[c] = (i - 1) % IndexLimit]
    ELSE [palette |-> Append(sub.palette, id),
          blocks  |-> [sub.blocks EXCEPT ![c] = Len(sub.palette) % IndexLimit]]

\* get_block
GetCell(sub, c) ==
  IF sub.blocks[c] < Len(sub.palette) THEN sub.palette[sub.blocks[c] + 1] ELSE Air

\* The subchunks that these operations make.
IsPalette(palette) ==
  \A i, j \in 1..Len(palette) : palette[i] = palette[j] => i = j
SubChunk ==
  {sub \in [palette : Seq(RuntimeId), blocks : [Cell -> 0..(IndexLimit - 1)]] :
     /\ IsPalette(sub.palette)
     /\ \A c \in Cell : sub.blocks[c] < Len(sub.palette)}

Columns == [0..(Stack - 1) -> SubChunk]

ASSUME GeneratorAssumption ==
  \A p \in Block : Generate(ToChunk(p)[1], ToChunk(p)[2]) \in Columns

(***************************************************************************)
(* Chunk and World                                                         *)
(***************************************************************************)
InBounds(p) == 0 <= p.y /\ p.y < Height

\* The column at key, made by the generator if it is not there.
Column(key) == IF key \in DOMAIN chunks THEN chunks[key] ELSE Generate(key[1], key[2])
\* Mutant: x and z of the column change places.
WithColumnSwapped(key, column) ==
  [k \in DOMAIN chunks \cup {<<key[2], key[1]>>} |->
     IF k = <<key[2], key[1]>> THEN column ELSE chunks[k]]
WithColumn(key, column) ==
  [k \in DOMAIN chunks \cup {key} |-> IF k = key THEN column ELSE chunks[k]]

\* Chunk::get_block and Chunk::set_block, at local coordinates
ColumnGet(column, l) == GetCell(column[Level(l)], CellOf(l))
ColumnSet(column, l, id) ==
  [column EXCEPT ![Level(l)] = SetCell(column[Level(l)], CellOf(l), id)]

Init == chunks = <<>>

\* get_chunk
GetChunk(key) == chunks' = WithColumn(key, Column(key))

\* set_block: an error, and nothing done, when y is out of bounds.
SetBlock(p, id) ==
  IF InBounds(p)
    THEN chunks' = WithColumn(ToChunk(p), ColumnSet(Column(ToChunk(p)), Local(p), id))
    ELSE UNCHANGED chunks

\* Mutant: the block is always read from the lowest subchunk.
GetBlockLowest(p) ==
  IF InBounds(p) /\ ToChunk(p) \in DOMAIN chunks
    THEN ColumnGet(chunks[ToChunk(p)], [Local(p) EXCEPT !.y = @ % Side])
    ELSE Air

\* get_block: a column that is not there is not made, and reads as air.
GetBlock(p) ==
  IF InBounds(p) /\ ToChunk(p) \in DOMAIN chunks
    THEN ColumnGet(chunks[ToChunk(p)], Local(p))
    ELSE Air

(***************************************************************************)
(* Specification                                                           *)
(***************************************************************************)
Next ==
  \/ \E p \in Block : GetChunk(ToChunk(p))
  \/ \E p \in Block, id \in RuntimeId : SetBlock(p, id)

Spec == Init /\ [][Next]_chunks

(***************************************************************************)
(* Properties                                                              *)
(***************************************************************************)
\* Types.  Every palette is free of repetitions and no index points past its end.
TypeOK == /\ DOMAIN chunks \subseteq {ToChunk(p) : p \in Block}
          /\ chunks \in [DOMAIN chunks -> Columns]

\* The block of a position: of its column, or of the one the generator would make.
Content(p) == ColumnGet(Column(ToChunk(p)), Local(p))

\* Over palettes, cells, columns, negative coordinates and columns made on
\* demand, the world is one block per position, of which a step changes at most
\* one: no two positions share a cell, and no palette entry moves.
Blocks == {p \in Block : InBounds(p)}
Map == INSTANCE BlockMap WITH
         Position <- Blocks, block <- [p \in Blocks |-> Content(p)]
IsBlockMap == Map!Spec

\* ... and a set_block in bounds puts there the id it was asked for.
SetsTheBlock ==
  [][\A p \in Blocks, id \in RuntimeId : SetBlock(p, id) => Map!Set(p, id)]_chunks

\* What get_block answers for a position changes only when a set_block names that
\* position, and then to the id it names, or when its column is made.  (Until
\* then it reads as air, whatever terrain a set_block there would find.)
ReadsFollowSets ==
  [][\A p \in Block : GetBlock(p)' # GetBlock(p) =>
       \/ ToChunk(p) \notin DOMAIN chunks
       \/ \E id \in RuntimeId : SetBlock(p, id) /\ GetBlock(p)' = id]_chunks
=============================================================================
