-------------------------------- MODULE VarInt --------------------------------
(***************************************************************************)
(* Numbers as bytes: the VarInts of crates/nbt/src/varint.rs, and the      *)
(* fixed-width numbers of Rust's to_le_bytes and to_be_bytes.              *)
(*                                                                         *)
(* A buffer is a sequence of bytes; a reader takes the number of bytes     *)
(* already read and gives the value and the number read after it.  Values  *)
(* are below 2^31, the largest that TLC can name.                          *)
(***************************************************************************)
EXTENDS Integers, Sequences, SequencesExt

FromLE(bytes) ==
  LET value[i \in 1..(Len(bytes) + 1)] ==
        IF i > Len(bytes) THEN 0 ELSE bytes[i] + 256 * value[i + 1]
  IN  value[1]
FromBE(bytes) == FromLE(Reverse(bytes))

\* What is left of v after each of so many shifts by a byte, and the bytes shifted out.
Shifted(size, v) ==
  LET rest[i \in 0..size] == IF i = 0 THEN v ELSE rest[i - 1] \div 256 IN rest
LE(size, v) == LET rest == Shifted(size, v) IN [i \in 1..size |-> rest[i - 1] % 256]
BE(size, v) == Reverse(LE(size, v))
Zeros(size) == [i \in 1..size |-> 0]

\* The bytes of buf between two positions.
Slice(buf, at, to) == SubSeq(buf, at + 1, to)

(***************************************************************************)
(* u32: seven bits to a byte, the lowest first; all but the last byte have *)
(* the eighth bit.                                                         *)
(***************************************************************************)
\* write_var_u32
WriteVarU32(v) ==
  LET size == CHOOSE n \in 1..5 : /\ n = 5 \/ v < 128^n
                                  /\ n = 1 \/ v >= 128^(n - 1)
  IN  [i \in 1..size |-> ((v \div 128^(i - 1)) % 128) + (IF i < size THEN 128 ELSE 0)]

NoVarInt == [value |-> 0, at |-> 0]

\* read_var_u32.  It fails at the end of the buffer and after five bytes.
ReadVarU32(buf, at) ==
  LET Ends == {n \in 1..5 : at + n <= Len(buf) /\ buf[at + n] < 128}
      size == CHOOSE n \in Ends : \A k \in Ends : n <= k
      value[i \in 1..(size + 1)] ==
        IF i > size THEN 0
                    ELSE (buf[at + i] % IF i = 5 THEN 16 ELSE 128) + 128 * value[i + 1]
  IN  IF Ends = {} THEN NoVarInt ELSE [value |-> value[1], at |-> at + size]

(***************************************************************************)
(* i32: ZigZag, then as u32.                                               *)
(***************************************************************************)
WriteVarI32(v) == WriteVarU32(IF v >= 0 THEN 2 * v ELSE -2 * v - 1)

ReadVarI32(buf, at) ==
  LET raw == ReadVarU32(buf, at)
  IN  [raw EXCEPT !.value = IF @ % 2 = 0 THEN @ \div 2 ELSE -((@ + 1) \div 2)]
=============================================================================
