----------------------------- MODULE SubChunkCodec -----------------------------
(***************************************************************************)
(* Subchunks and columns on the wire: encode_subchunk and                  *)
(* encode_chunk_column of crates/protocol/src/chunk.rs and decode_subchunk *)
(* of crates/protocol/src/decode.rs, on the subchunks that set_block       *)
(* makes.                                                                  *)
(*                                                                         *)
(* Runtime ids enter the palette in their order: the codec does not tell   *)
(* them apart but by the length of their VarInts.                          *)
(***************************************************************************)
EXTENDS VarInt, FiniteSetsExt

CONSTANTS
  Cells,       \* blocks of a subchunk (4096)
  WordBits,    \* bits of a word, a multiple of eight (32)
  RuntimeId,   \* bound: the runtime ids (of 32 bits in the code)
  Touched      \* bound: the cells that are set

ASSUME SizeAssumption ==
  /\ Cells \in 1..4096 /\ WordBits \in 16..32 /\ WordBits % 8 = 0
  /\ RuntimeId \subseteq Nat /\ 0 \in RuntimeId /\ \A id \in RuntimeId : id < 2^30
  /\ Touched \subseteq 0..(Cells - 1)

VARIABLE sub   \* a SubChunk: its palette, and the index of each block

Air == 0
Version == 8

(***************************************************************************)
(* SubChunk                                                                *)
(***************************************************************************)
New == [palette |-> <<Air>>, blocks |-> [c \in 0..(Cells - 1) |-> 0]]

Init == sub = New

\* The next id to enter the palette.
NextId(id) == id = Min(RuntimeId \ ToSet(sub.palette))

\* An index has 16 bits.
Index16(n) == n % 2^16

\* set_block
SetBlock(c, id) ==
  IF Contains(sub.palette, id)
    THEN sub' = [sub EXCEPT !.blocks[c] =
                   Index16(SelectInSeq(sub.palette, LAMBDA e : e = id) - 1)]
    ELSE /\ NextId(id)
         /\ sub' = [palette |-> Append(sub.palette, id),
                    blocks  |-> [sub.blocks EXCEPT ![c] = Index16(Len(sub.palette))]]

BlockOf(s, c) == s.palette[s.blocks[c] + 1]

\* Mutant: a subchunk is taken for empty when its lowest block is air.
IsEmptyLowest(s) == s.blocks[0] = 0

\* is_subchunk_empty
IsEmpty(s) == \A c \in DOMAIN s.blocks : s.blocks[c] = 0

\* calculate_bits_per_block
BitsPerBlock(size) ==
  IF size > 256 THEN 16 ELSE CHOOSE b \in 1..8 :
                               size <= 2^b /\ (b = 1 \/ size > 2^(b - 1))

(***************************************************************************)
(* encode_subchunk                                                         *)
(***************************************************************************)
WordSize == WordBits \div 8

\* The values of the bits of a word, and of the bit after them.
Bit[n \in 0..WordBits] == IF n = 0 THEN 1 ELSE 2 * Bit[n - 1]

\* The indices, each in the next bits of a word; a word that they fill, or more
\* than fill, is put out.  What is shifted past the word is lost.
Put(w, index, bits) ==
  LET word == (w.word + index * Bit[w.used]) % Bit[WordBits]
  IN  IF w.used + bits >= WordBits
        THEN [out |-> w.out \o LE(WordSize, word), word |-> 0, used |-> 0]
        ELSE [out |-> w.out, word |-> word, used |-> w.used + bits]

Pack(blocks, bits) ==
  LET packed[i \in 0..Cells] ==
        IF i = 0 THEN [out |-> <<>>, word |-> 0, used |-> 0]
                 ELSE Put(packed[i - 1], blocks[i - 1], bits)
      end == packed[Cells]
  IN  IF end.used > 0 THEN end.out \o LE(WordSize, end.word) ELSE end.out

Encode(s) ==
  LET size == Len(s.palette)
      bits == BitsPerBlock(size)
  IN  <<Version, 1>> \o WriteVarU32(bits) \o Pack(s.blocks, bits)
        \o WriteVarU32(size) \o FlattenSeq([i \in 1..size |-> WriteVarU32(s.palette[i])])

(***************************************************************************)
(* encode_chunk_column, without a cache                                    *)
(***************************************************************************)
LevelChunk == 58

\* calculate_needed_height: up to the highest subchunk that is not empty.
NeededHeight(subs) == Max({i \in DOMAIN subs : ~IsEmpty(subs[i])} \union {1})

Sized(data) == LE(4, Len(data)) \o data

\* The coordinates, the subchunks, and 13 bytes of blob hash, border and cache.
EncodeColumn(x, z, subs) ==
  LET height == NeededHeight(subs)
  IN  <<LevelChunk>> \o WriteVarI32(x) \o WriteVarI32(z) \o LE(4, height) \o <<0>>
        \o FlattenSeq([i \in 1..height |-> Sized(Encode(subs[i]))])
        \o Zeros(13)

(***************************************************************************)
(* decode_subchunk                                                         *)
(***************************************************************************)
Failed == [failed |-> TRUE]

\* The words that the indices need if no index crosses a word.
WordsNeeded(bits) ==
  LET perWord == WordBits \div bits IN (Cells + perWord - 1) \div perWord

\* The indices read from a word: as many as begin in it.
PerWord(bits) == (WordBits + bits - 1) \div bits

\* The next id of a palette, if the ones before are there.
TakeId(data, p) ==
  LET id == ReadVarU32(data, p.at)
  IN  IF p = Failed \/ id = NoVarInt
        THEN Failed ELSE [ids |-> Append(p.ids, id.value), at |-> id.at]

\* The ids of a palette that begins after at bytes.  Every id takes a byte, so a
\* size beyond the data is an id missing.
ReadPalette(data, at) ==
  LET size == ReadVarU32(data, at)
      read[i \in 0..size.value] ==
        IF i = 0 THEN [ids |-> <<>>, at |-> size.at] ELSE TakeId(data, read[i - 1])
  IN  IF size = NoVarInt \/ size.value > Len(data) THEN Failed ELSE read[size.value]

Decode(data) ==
  LET bits    == data[3]
      after   == 3 + WordsNeeded(bits) * WordSize     \* the bytes before the palette
      Word(k) == FromLE(Slice(data, 3 + k * WordSize, 3 + (k + 1) * WordSize))
      Index(c) ==
        LET k == c \div PerWord(bits)
        IN  IF k < WordsNeeded(bits)
              THEN (Word(k) \div Bit[bits * (c % PerWord(bits))]) % Bit[bits]
              ELSE 0
      palette == ReadPalette(data, after)
  IN  IF data[2] # 1 \/ after > Len(data) \/ palette = Failed
        THEN Failed
        ELSE [palette |-> palette.ids, blocks |-> [c \in 0..(Cells - 1) |-> Index(c)]]

\* What a client reads of a column: the place, and each subchunk that is there.
TakeSub(data, r) ==
  LET end == r.at + 4 + FromLE(Slice(data, r.at, r.at + 4))
  IN  [subs |-> Append(r.subs, Decode(Slice(data, r.at + 4, end))), at |-> end]

ReadColumn(data) ==
  LET x      == ReadVarI32(data, 1)
      z      == ReadVarI32(data, x.at)
      height == FromLE(Slice(data, z.at, z.at + 4))
      read[i \in 0..height] ==
        IF i = 0 THEN [subs |-> <<>>, at |-> z.at + 5] ELSE TakeSub(data, read[i - 1])
  IN  [place |-> <<x.value, z.value>>, subs |-> read[height].subs]

Next == \E c \in Touched, id \in RuntimeId : SetBlock(c, id)

Spec == Init /\ [][Next]_sub

(***************************************************************************)
(* Properties                                                              *)
(***************************************************************************)
\* The indices fill their words exactly (one, two, four or eight bits).
Aligned(s) == WordBits % BitsPerBlock(Len(s.palette)) = 0

\* What the tests say and the code does not do.

\* decode.rs:158 test_roundtrip_terrain_subchunk, "Should preserve terrain
\* structure": whatever a subchunk holds is read back.
RoundTrip ==
  LET read == Decode(Encode(sub))
  IN  /\ read # Failed
      /\ \A c \in 0..(Cells - 1) :
           /\ read.blocks[c] < Len(read.palette)
           /\ BlockOf(read, c) = BlockOf(sub, c)
=============================================================================
