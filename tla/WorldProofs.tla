------------------------------ MODULE WorldProofs ------------------------------
(***************************************************************************)
(* World implements BlockMap, for subchunks of any size, columns of any    *)
(* height, any positions and any generator, as long as a palette index can *)
(* tell all the runtime ids in use apart.                                  *)
(***************************************************************************)
EXTENDS World, FiniteSetTheorems, TLAPS

\* What the code does not ensure: an index in a u16 can tell the ids apart.
PaletteFits == Cardinality(RuntimeId) <= IndexLimit

-----------------------------------------------------------------------------
\* Arithmetic of cells and subchunks.

LEMMA Division ==
  ASSUME NEW s \in Nat \ {0}, NEW n \in Int
  PROVE  /\ n \div s \in Int
         /\ n % s \in 0..(s - 1)
         /\ n = s * (n \div s) + (n % s)
  OBVIOUS

\* The quotient of a number below s * n is below n.
LEMMA QuotientRange ==
  ASSUME NEW s \in Nat \ {0}, NEW n \in Nat \ {0}, NEW y \in 0..(s * n - 1)
  PROVE  y \div s \in 0..(n - 1)
<1> y \in Int /\ s * n \in Int
    OBVIOUS
<1>1. PICK q \in Int : q = y \div s
      BY Division
<1>2. PICK r \in 0..(s - 1) : y = s * q + r
      BY <1>1, Division
<1>3. ASSUME q <= -1 PROVE FALSE
  <2>1. s * q <= -s
        BY <1>3
  <2>2. QED
        BY <2>1, <1>2
<1>4. ASSUME q >= n PROVE FALSE
  <2>1. s * q >= s * n
        BY <1>4
  <2>2. QED
        BY <2>1, <1>2
<1>5. QED
      BY <1>1, <1>3, <1>4

\* A number is its quotient and its remainder.
LEMMA SameDivision ==
  ASSUME NEW s \in Nat \ {0}, NEW a \in Int, NEW b \in Int,
         a \div s = b \div s, a % s = b % s
  PROVE  a = b
  BY Division

\* The number of three digits in base Side, which tells them.
Digit == 0..(Side - 1)
Number(a, b, c) == (a * Side + b) * Side + c

LEMMA SameDigits ==
  ASSUME NEW a \in Digit, NEW b \in Digit, NEW c \in Digit,
         NEW d \in Digit, NEW e \in Digit, NEW f \in Digit,
         Number(a, b, c) = Number(d, e, f)
  PROVE  a = d /\ b = e /\ c = f
<1> USE SizeAssumption DEF Digit
<1>1. PICK m \in Int : m = a * Side + b
      OBVIOUS
<1>2. PICK n \in Int : n = d * Side + e
      OBVIOUS
<1>3. m * Side + c = n * Side + f
      BY <1>1, <1>2 DEF Number
<1>4. m = n /\ c = f
      BY <1>3
<1>5. a * Side + b = d * Side + e
      BY <1>1, <1>2, <1>4
<1>6. a = d /\ b = e
      BY <1>5
<1>7. QED
      BY <1>4, <1>6

LEMMA DigitRange ==
  ASSUME NEW s \in Nat \ {0}, NEW n \in Nat, NEW a \in 0..(n - 1), NEW b \in 0..(s - 1)
  PROVE  a * s + b \in 0..(n * s - 1)
<1>1. (n - 1 - a) * s >= 0
      OBVIOUS
<1>2. (n - 1 - a) * s = n * s - s - a * s
      OBVIOUS
<1>3. a * s >= 0
      OBVIOUS
<1>4. a * s \in Int /\ n * s \in Int
      OBVIOUS
<1>5. QED
      BY <1>1, <1>2, <1>3, <1>4

\* Three digits make a cell, as CellOf writes them.
LEMMA CellDigits ==
  ASSUME NEW a \in 0..(Side - 1), NEW b \in 0..(Side - 1), NEW c \in 0..(Side - 1)
  PROVE  /\ a * Side * Side + b * Side + c = (a * Side + b) * Side + c
         /\ a * Side * Side + b * Side + c \in Cell
<1> USE SizeAssumption
<1>1. a * Side * Side + b * Side + c = (a * Side + b) * Side + c
      OBVIOUS
<1>2. a * Side + b \in 0..(Side * Side - 1)
      BY DigitRange
<1>3. Side * Side \in Nat
      OBVIOUS
<1>4. (a * Side + b) * Side + c \in 0..((Side * Side) * Side - 1)
      BY <1>2, <1>3, DigitRange
<1>5. QED
      BY <1>1, <1>4 DEF Cell

\* What the local coordinates of a position are.
LEMMA LocalRange ==
  ASSUME NEW p \in Block
  PROVE  /\ Local(p).x \in 0..(Side - 1) /\ Local(p).z \in 0..(Side - 1)
         /\ Local(p).y \in 0..(Height - 1)
         /\ Level(Local(p)) \in 0..(Stack - 1)
         /\ Local(p).y % Side \in 0..(Side - 1)
         /\ CellOf(Local(p)) \in Cell
<1> USE SizeAssumption, BlockAssumption
<1>1. Height \in Nat \ {0}
      BY DEF Height
<1>2. Local(p).x \in 0..(Side - 1) /\ Local(p).z \in 0..(Side - 1)
      BY Division DEF Local
<1>3. Local(p).y \in 0..(Height - 1)
      BY <1>1, Division DEF Local
<1>4. Level(Local(p)) \in 0..(Stack - 1)
      BY <1>3, QuotientRange DEF Height, Level
<1>5. Local(p).y % Side \in 0..(Side - 1)
      BY <1>3, Division
<1>6. CellOf(Local(p)) \in Cell
      BY <1>2, <1>5, CellDigits DEF CellOf
<1>7. QED
      BY <1>2, <1>3, <1>4, <1>5, <1>6

\* No two positions in bounds share a cell.
LEMMA Addressing ==
  ASSUME NEW p \in Blocks, NEW q \in Blocks,
         ToChunk(p) = ToChunk(q),
         Level(Local(p)) = Level(Local(q)), CellOf(Local(p)) = CellOf(Local(q))
  PROVE  p = q
<1> USE SizeAssumption, BlockAssumption
<1>0. p \in Block /\ q \in Block /\ InBounds(p) /\ InBounds(q)
      BY DEF Blocks
<1> DEFINE lp == Local(p)
           lq == Local(q)
<1>1. /\ lp.y % Side \in 0..(Side - 1) /\ lp.z \in 0..(Side - 1) /\ lp.x \in 0..(Side - 1)
      /\ lq.y % Side \in 0..(Side - 1) /\ lq.z \in 0..(Side - 1) /\ lq.x \in 0..(Side - 1)
      /\ lp.y \in 0..(Height - 1) /\ lq.y \in 0..(Height - 1)
      BY <1>0, LocalRange
<1>2. CellOf(lp) = Number(lp.y % Side, lp.z, lp.x)
      BY <1>1, CellDigits DEF CellOf, Number
<1>3. CellOf(lq) = Number(lq.y % Side, lq.z, lq.x)
      BY <1>1, CellDigits DEF CellOf, Number
<1>4. CellOf(lp) = CellOf(lq) /\ lp.y \div Side = lq.y \div Side
      BY DEF Level
<1>5. lp.y % Side = lq.y % Side /\ lp.z = lq.z /\ lp.x = lq.x
  <2> HIDE DEF lp, lq
  <2>1. /\ lp.y % Side \in Digit /\ lp.z \in Digit /\ lp.x \in Digit
        /\ lq.y % Side \in Digit /\ lq.z \in Digit /\ lq.x \in Digit
        BY <1>1 DEF Digit
  <2>2. Number(lp.y % Side, lp.z, lp.x) = Number(lq.y % Side, lq.z, lq.x)
        BY <1>2, <1>3, <1>4
  <2>3. QED
        BY ONLY <2>1, <2>2, SameDigits, SMTT(60)
<1>6. lp.y = lq.y
  <2> HIDE DEF lp, lq
  <2>1. lp.y \in Int /\ lq.y \in Int
        BY <1>1
  <2>2. QED
        BY <2>1, <1>4, <1>5, SameDivision
<1>7. p.y = q.y
  <2>1. p.y \in 0..(Height - 1) /\ q.y \in 0..(Height - 1) /\ Height \in Nat \ {0}
        BY <1>0 DEF InBounds, Height
  <2>2. p.y % Height = p.y /\ q.y % Height = q.y
        BY <2>1
  <2>3. QED
        BY <2>2, <1>6 DEF Local
<1>8. p.x = q.x /\ p.z = q.z
  <2>1. p.x \div Side = q.x \div Side /\ p.z \div Side = q.z \div Side
        BY DEF ToChunk
  <2>2. p.x % Side = q.x % Side /\ p.z % Side = q.z % Side
        BY <1>5 DEF Local
  <2>3. p.x \in Int /\ q.x \in Int /\ p.z \in Int /\ q.z \in Int
        BY <1>0
  <2>4. QED
        BY <2>1, <2>2, <2>3, SameDivision
<1>9. QED
      BY <1>0, <1>7, <1>8

-----------------------------------------------------------------------------
\* Subchunks.

\* There are n numbers from 1 to n.
LEMMA IntervalSize ==
  ASSUME NEW n \in Nat
  PROVE  Cardinality(1..n) = n
<1>1. 1 \in Int /\ n \in Int
      OBVIOUS
<1>2. Cardinality(1..n) = IF 1 > n THEN 0 ELSE n - 1 + 1
      BY <1>1, FS_Interval, Zenon
<1>3. QED
      BY <1>2

\* A palette without repetitions is no longer than there are ids.
LEMMA PaletteLength ==
  ASSUME NEW palette \in Seq(RuntimeId), IsPalette(palette)
  PROVE  Len(palette) \in Nat /\ Len(palette) <= Cardinality(RuntimeId)
<1>1. Len(palette) \in Nat
      OBVIOUS
<1>2. palette \in Injection(1..Len(palette), RuntimeId)
      BY DEF Injection, IsPalette, IsInjective
<1>3. Cardinality(1..Len(palette)) <= Cardinality(RuntimeId)
      BY <1>2, IdAssumption, FS_Injection
<1>4. Cardinality(1..Len(palette)) = Len(palette)
      BY <1>1, IntervalSize
<1>5. QED
      BY <1>1, <1>3, <1>4

\* A subchunk of one block.
LEMMA FilledSubChunk ==
  ASSUME NEW id \in RuntimeId
  PROVE  /\ Filled(id) \in SubChunk
         /\ \A c \in Cell : GetCell(Filled(id), c) = id
<1>1. <<id>> \in Seq(RuntimeId) /\ Len(<<id>>) = 1 /\ <<id>>[1] = id
      OBVIOUS
<1>2. [c \in Cell |-> 0] \in [Cell -> 0..(IndexLimit - 1)]
      BY SizeAssumption
<1>3. QED
      BY <1>1, <1>2 DEF Filled, SubChunk, IsPalette, GetCell

\* What a cell of a subchunk holds is an id of its palette.
LEMMA GetCellType ==
  ASSUME NEW sub \in SubChunk, NEW c \in Cell
  PROVE  /\ GetCell(sub, c) = sub.palette[sub.blocks[c] + 1]
         /\ GetCell(sub, c) \in RuntimeId
<1>1. sub.blocks[c] \in 0..(IndexLimit - 1) /\ sub.blocks[c] < Len(sub.palette)
      BY DEF SubChunk
<1>2. sub.palette \in Seq(RuntimeId)
      BY DEF SubChunk
<1>3. QED
      BY <1>1, <1>2, SizeAssumption DEF GetCell

\* set_block of a subchunk sets the one cell to the id, and changes no other.
LEMMA SetCellCorrect ==
  ASSUME PaletteFits,
         NEW sub \in SubChunk, NEW c \in Cell, NEW id \in RuntimeId
  PROVE  /\ SetCell(sub, c, id) \in SubChunk
         /\ \A d \in Cell : GetCell(SetCell(sub, c, id), d) =
                              IF d = c THEN id ELSE GetCell(sub, d)
<1> DEFINE pal == sub.palette
           new == SetCell(sub, c, id)
<1>1. /\ pal \in Seq(RuntimeId) /\ IsPalette(pal)
      /\ sub.blocks \in [Cell -> 0..(IndexLimit - 1)]
      /\ \A d \in Cell : sub.blocks[d] < Len(pal)
      /\ sub = [palette |-> pal, blocks |-> sub.blocks]
      BY DEF SubChunk
<1>2. Len(pal) \in Nat /\ Len(pal) <= IndexLimit
  <2>1. Cardinality(RuntimeId) \in Nat
        BY IdAssumption, FS_CardinalityType
  <2>2. QED
        BY <1>1, <2>1, PaletteLength, SizeAssumption DEF PaletteFits
<1>3. CASE Places(pal, id) # {}
  <2>1. PICK i \in 1..Len(pal) : pal[i] = id
        BY <1>3 DEF Places
  <2>2. Places(pal, id) = {i}
        BY <1>1, <2>1 DEF Places, IsPalette
  <2>3. i = CHOOSE j \in Places(pal, id) : \A k \in Places(pal, id) : j <= k
        BY <2>1, <2>2
  <2>4. (i - 1) % IndexLimit = i - 1 /\ i - 1 \in 0..(IndexLimit - 1)
        BY <2>1, <1>2, SizeAssumption
  <2>5. new = [sub EXCEPT !.blocks[c] = i - 1]
        BY <1>3, <2>3, <2>4 DEF SetCell
  <2>6. new.palette = pal /\ new.blocks = [sub.blocks EXCEPT ![c] = i - 1]
        BY <1>1, <2>5
  <2>7. new = [palette |-> new.palette, blocks |-> new.blocks]
        BY <1>1, <2>5
  <2>8. new.blocks \in [Cell -> 0..(IndexLimit - 1)]
        BY <1>1, <2>4, <2>6
  <2>9. \A d \in Cell : new.blocks[d] < Len(new.palette)
        BY <1>1, <1>2, <2>1, <2>6
  <2>10. new \in SubChunk
        BY <1>1, <2>6, <2>7, <2>8, <2>9 DEF SubChunk
  <2>11. ASSUME NEW d \in Cell
         PROVE  GetCell(new, d) = IF d = c THEN id ELSE GetCell(sub, d)
        BY <1>1, <2>1, <2>6, <2>10, GetCellType
  <2>12. QED
        BY <2>10, <2>11
<1>4. CASE Places(pal, id) = {}
  <2> DEFINE more == Append(pal, id)
  <2>1. /\ more \in Seq(RuntimeId) /\ Len(more) = Len(pal) + 1
        /\ \A i \in 1..Len(pal) : more[i] = pal[i]
        /\ more[Len(pal) + 1] = id
        BY <1>1
  <2>2. \A i \in 1..Len(pal) : pal[i] # id
        BY <1>4 DEF Places
  <2>3. IsPalette(more)
    <3> SUFFICES ASSUME NEW i \in 1..Len(more), NEW j \in 1..Len(more), more[i] = more[j]
                 PROVE  i = j
        BY DEF IsPalette
    <3> HIDE DEF more
    <3>1. CASE i \in 1..Len(pal) /\ j \in 1..Len(pal)
          BY <3>1, <1>1, <2>1 DEF IsPalette
    <3>2. CASE ~(i \in 1..Len(pal) /\ j \in 1..Len(pal))
          BY <3>2, <1>2, <2>1, <2>2
    <3>3. QED
          BY <3>1, <3>2
  <2>4. Len(pal) + 1 <= IndexLimit
    <3>1. Cardinality(RuntimeId) \in Nat
          BY IdAssumption, FS_CardinalityType
    <3>2. Len(more) <= Cardinality(RuntimeId)
          BY <2>1, <2>3, PaletteLength
    <3>3. QED
          BY <1>2, <2>1, <3>1, <3>2, SizeAssumption DEF PaletteFits
  <2>5. Len(pal) % IndexLimit = Len(pal) /\ Len(pal) \in 0..(IndexLimit - 1)
    <3>1. PICK n \in 0..(IndexLimit - 1) : n = Len(pal)
          BY <1>2, <2>4, SizeAssumption
    <3>2. n % IndexLimit = n
          BY SizeAssumption
    <3>3. QED
          BY <3>1, <3>2
  <2>6. new = [palette |-> more, blocks |-> [sub.blocks EXCEPT ![c] = Len(pal)]]
        BY <1>4, <2>5 DEF SetCell
  <2>7. new.palette = more /\ new.blocks = [sub.blocks EXCEPT ![c] = Len(pal)]
        BY <2>6
  <2> HIDE DEF more
  <2>8. new.blocks \in [Cell -> 0..(IndexLimit - 1)]
        BY <1>1, <2>5, <2>7
  <2>9. \A d \in Cell : new.blocks[d] < Len(new.palette)
        BY <1>1, <1>2, <2>1, <2>7
  <2>10. new \in SubChunk
        BY <2>1, <2>3, <2>6, <2>7, <2>8, <2>9 DEF SubChunk
  <2>11. ASSUME NEW d \in Cell
         PROVE  GetCell(new, d) = IF d = c THEN id ELSE GetCell(sub, d)
    <3>1. GetCell(new, d) = more[new.blocks[d] + 1]
          BY <2>7, <2>10, GetCellType
    <3>2. GetCell(sub, d) = pal[sub.blocks[d] + 1]
          BY GetCellType
    <3>3. CASE d = c
          BY <3>1, <3>3, <1>1, <2>1, <2>7
    <3>4. CASE d # c
      <4>1. new.blocks[d] = sub.blocks[d] /\ sub.blocks[d] + 1 \in 1..Len(pal)
            BY <3>4, <1>1, <1>2, <2>7, SizeAssumption
      <4>2. QED
            BY <3>1, <3>2, <3>4, <4>1, <2>1
    <3>5. QED
          BY <3>3, <3>4
  <2>12. QED
        BY <2>10, <2>11
<1>5. QED
      BY <1>3, <1>4

-----------------------------------------------------------------------------
\* Columns and the world.

\* A column that is there, or that the generator would make, is well formed.
LEMMA ColumnType ==
  ASSUME TypeOK, NEW p \in Block
  PROVE  Column(ToChunk(p)) \in Columns
BY GeneratorAssumption DEF TypeOK, Column

\* Setting a block of a column changes what is read of one cell of one subchunk.
LEMMA ColumnSetCorrect ==
  ASSUME PaletteFits, NEW p \in Block, NEW column \in Columns, NEW id \in RuntimeId
  PROVE  /\ ColumnSet(column, Local(p), id) \in Columns
         /\ \A q \in Block :
              ColumnGet(ColumnSet(column, Local(p), id), Local(q)) =
                IF /\ Level(Local(q)) = Level(Local(p))
                   /\ CellOf(Local(q)) = CellOf(Local(p))
                  THEN id
                  ELSE ColumnGet(column, Local(q))
<1> DEFINE s == Level(Local(p))
           c == CellOf(Local(p))
           new == SetCell(column[s], c, id)
<1>1. s \in 0..(Stack - 1) /\ c \in Cell /\ column[s] \in SubChunk
      BY LocalRange DEF Columns
<1>2. /\ new \in SubChunk
      /\ \A d \in Cell : GetCell(new, d) = IF d = c THEN id ELSE GetCell(column[s], d)
      BY <1>1, SetCellCorrect
<1>3. ColumnSet(column, Local(p), id) = [column EXCEPT ![s] = new]
      BY DEF ColumnSet
<1> HIDE DEF s, c, new
<1>4. ColumnSet(column, Local(p), id) \in Columns
      BY <1>1, <1>2, <1>3 DEF Columns
<1>5. ASSUME NEW q \in Block
      PROVE  ColumnGet(ColumnSet(column, Local(p), id), Local(q)) =
               IF Level(Local(q)) = s /\ CellOf(Local(q)) = c
                 THEN id ELSE ColumnGet(column, Local(q))
  <2>1. Level(Local(q)) \in 0..(Stack - 1) /\ CellOf(Local(q)) \in Cell
        BY LocalRange
  <2>2. CASE Level(Local(q)) = s
        BY <2>1, <2>2, <1>1, <1>2, <1>3 DEF ColumnGet, Columns
  <2>3. CASE Level(Local(q)) # s
        BY <2>1, <2>3, <1>1, <1>3 DEF ColumnGet, Columns
  <2>4. QED
        BY <2>2, <2>3
<1>6. QED
      BY <1>4, <1>5 DEF s, c

LEMMA TypeInit == Init => TypeOK
BY DEF Init, TypeOK

LEMMA TypeStep ==
  ASSUME PaletteFits, TypeOK, [Next]_chunks
  PROVE  TypeOK'
<1>1. ASSUME NEW p \in Block, NEW column \in Columns,
             chunks' = WithColumn(ToChunk(p), column)
      PROVE  TypeOK'
      BY <1>1 DEF WithColumn, TypeOK
<1>2. ASSUME NEW p \in Block, GetChunk(ToChunk(p)) PROVE TypeOK'
      BY <1>1, <1>2, ColumnType DEF GetChunk
<1>3. ASSUME NEW p \in Block, NEW id \in RuntimeId, SetBlock(p, id) PROVE TypeOK'
  <2>1. CASE InBounds(p)
    <3>1. ColumnSet(Column(ToChunk(p)), Local(p), id) \in Columns
          BY ColumnType, ColumnSetCorrect
    <3>2. QED
          BY <1>1, <1>3, <2>1, <3>1 DEF SetBlock
  <2>2. CASE ~InBounds(p)
        BY <1>3, <2>2 DEF SetBlock, TypeOK
  <2>3. QED
        BY <2>1, <2>2
<1>4. CASE UNCHANGED chunks
      BY <1>4 DEF TypeOK
<1>5. QED
      BY <1>2, <1>3, <1>4 DEF Next

\* A chunk that is made holds what was read of it before it was.
LEMMA GetChunkKeepsContent ==
  ASSUME NEW p \in Block, GetChunk(ToChunk(p)), NEW q \in Blocks
  PROVE  Content(q)' = Content(q)
BY DEF GetChunk, WithColumn, Column, Content

\* set_block puts the id at its position, and changes no other.
LEMMA SetBlockSetsContent ==
  ASSUME PaletteFits, TypeOK,
         NEW p \in Blocks, NEW id \in RuntimeId, SetBlock(p, id), NEW q \in Blocks
  PROVE  Content(q)' = IF q = p THEN id ELSE Content(q)
<1> DEFINE column == Column(ToChunk(p))
           new == ColumnSet(column, Local(p), id)
<1>1. p \in Block /\ q \in Block /\ InBounds(p)
      BY DEF Blocks
<1>2. chunks' = WithColumn(ToChunk(p), new)
      BY <1>1 DEF SetBlock
<1>3. ColumnGet(new, Local(q)) =
        IF Level(Local(q)) = Level(Local(p)) /\ CellOf(Local(q)) = CellOf(Local(p))
          THEN id ELSE ColumnGet(column, Local(q))
      BY <1>1, ColumnType, ColumnSetCorrect
<1> HIDE DEF column, new
<1>4. CASE ToChunk(q) = ToChunk(p)
  <2>1. Content(q)' = ColumnGet(new, Local(q))
        BY <1>2, <1>4 DEF Content, Column, WithColumn
  <2>2. Content(q) = ColumnGet(column, Local(q))
        BY <1>4 DEF Content, column
  <2>3. q = p <=> /\ Level(Local(q)) = Level(Local(p))
                  /\ CellOf(Local(q)) = CellOf(Local(p))
        BY <1>4, Addressing
  <2>4. QED
        BY <2>1, <2>2, <2>3, <1>3
<1>5. CASE ToChunk(q) # ToChunk(p)
      BY <1>2, <1>5 DEF Content, Column, WithColumn
<1>6. QED
      BY <1>4, <1>5

-----------------------------------------------------------------------------
\* The theorems.

\* The world only ever holds columns whose palettes have no repetitions and whose
\* indices point into them.
THEOREM TypeCorrect ==
  ASSUME PaletteFits
  PROVE  Spec => []TypeOK
<1>1. Init => TypeOK
      BY TypeInit
<1>2. TypeOK /\ [Next]_chunks => TypeOK'
      BY TypeStep
<1>3. QED
      BY <1>1, <1>2, PTL DEF Spec

\* World::set_block in bounds puts the block it was given at its position, and
\* changes no other.
LEMMA SetBlockRefines ==
  ASSUME PaletteFits, TypeOK, NEW p \in Blocks, NEW id \in RuntimeId, SetBlock(p, id)
  PROVE  Map!Set(p, id)
BY SetBlockSetsContent DEF Map!Set

THEOREM SetBlockCorrect ==
  ASSUME PaletteFits
  PROVE  Spec => SetsTheBlock
<1>1. TypeOK =>
        [\A p \in Blocks, id \in RuntimeId : SetBlock(p, id) => Map!Set(p, id)]_chunks
      BY SetBlockRefines
<1>2. QED
      BY <1>1, TypeCorrect, PTL DEF SetsTheBlock

\* The columns, palettes and indices implement one block per position, of which a
\* step of the world changes at most one.
THEOREM Implements ==
  ASSUME PaletteFits
  PROVE  Spec => IsBlockMap
<1> DEFINE block == [p \in Blocks |-> Content(p)]
<1>1. Init => Map!Init
  <2> SUFFICES ASSUME Init, NEW p \in Blocks PROVE Content(p) \in RuntimeId
      BY DEF Map!Init
  <2>1. TypeOK /\ p \in Block
        BY TypeInit DEF Blocks
  <2>2. Column(ToChunk(p)) \in Columns
        BY <2>1, ColumnType
  <2>3. QED
        BY <2>1, <2>2, LocalRange, GetCellType DEF Content, ColumnGet, Columns
<1>2. TypeOK /\ [Next]_chunks => [Map!Next]_block
  <2> SUFFICES ASSUME TypeOK, [Next]_chunks
               PROVE  Map!Next \/ block' = block
      OBVIOUS
  <2>1. ASSUME NEW p \in Block, GetChunk(ToChunk(p))
        PROVE  block' = block
        BY <2>1, GetChunkKeepsContent
  <2>2. ASSUME NEW p \in Blocks, NEW id \in RuntimeId, SetBlock(p, id)
        PROVE  Map!Next
        BY <2>2, SetBlockRefines DEF Map!Next
  <2>3. ASSUME NEW p \in Block \ Blocks, NEW id \in RuntimeId, SetBlock(p, id)
        PROVE  UNCHANGED chunks
        BY <2>3 DEF Blocks, SetBlock
  <2>4. CASE UNCHANGED chunks
        BY <2>4 DEF Content, Column
  <2>5. QED
        BY <2>1, <2>2, <2>3, <2>4 DEF Next
<1>3. QED
      BY <1>1, <1>2, TypeCorrect, PTL DEF Spec, IsBlockMap, Map!Spec

\* What get_block reads of a column that is there is its content, and columns stay.
LEMMA ReadsContent ==
  ASSUME NEW q \in Blocks, ToChunk(q) \in DOMAIN chunks
  PROVE  GetBlock(q) = Content(q)
BY DEF Blocks, GetBlock, Content, Column

LEMMA ColumnsStay ==
  ASSUME [Next]_chunks
  PROVE  DOMAIN chunks \subseteq DOMAIN chunks'
BY DEF Next, GetChunk, SetBlock, WithColumn

\* What get_block reads of a position whose column is there changes only by a
\* set_block of that position, and to its id.
THEOREM ReadsCorrect ==
  ASSUME PaletteFits
  PROVE  Spec => ReadsFollowSets
<1>1. ASSUME TypeOK, [Next]_chunks, NEW q \in Block, GetBlock(q)' # GetBlock(q),
             ToChunk(q) \in DOMAIN chunks
      PROVE  \E id \in RuntimeId : SetBlock(q, id) /\ GetBlock(q)' = id
  <2>1. q \in Blocks
        BY <1>1 DEF GetBlock, Blocks, InBounds
  <2>2. ToChunk(q) \in DOMAIN chunks'
        BY <1>1, ColumnsStay
  <2>3. GetBlock(q) = Content(q)
        BY <1>1, <2>1, ReadsContent
  <2>4. GetBlock(q)' = Content(q)'
        BY <2>1, <2>2 DEF Blocks, GetBlock, Content, Column
  <2>5. ASSUME NEW p \in Block, GetChunk(ToChunk(p)) PROVE FALSE
        BY <2>1, <2>3, <2>4, <2>5, <1>1, GetChunkKeepsContent
  <2>6. ASSUME NEW p \in Block \ Blocks, NEW id \in RuntimeId, SetBlock(p, id)
        PROVE  FALSE
    <3>1. UNCHANGED chunks
          BY <2>6 DEF Blocks, SetBlock
    <3>2. QED
          BY <3>1, <1>1 DEF GetBlock
  <2>7. ASSUME NEW p \in Blocks, NEW id \in RuntimeId, SetBlock(p, id)
        PROVE  p = q /\ GetBlock(q)' = id
        BY <2>1, <2>3, <2>4, <2>7, <1>1, SetBlockSetsContent
  <2>8. CASE UNCHANGED chunks
        BY <2>8, <1>1 DEF GetBlock
  <2>9. QED
        BY <2>5, <2>6, <2>7, <2>8, <1>1 DEF Next
<1>2. TypeOK /\ [Next]_chunks =>
        [\A p \in Block : GetBlock(p)' # GetBlock(p) =>
           \/ ToChunk(p) \notin DOMAIN chunks
           \/ \E id \in RuntimeId : SetBlock(p, id) /\ GetBlock(p)' = id]_chunks
      BY <1>1
<1>3. QED
      BY <1>2, TypeCorrect, PTL DEF Spec, ReadsFollowSets
=============================================================================
