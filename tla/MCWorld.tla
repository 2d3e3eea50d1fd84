------------------------------- MODULE MCWorld -------------------------------
(***************************************************************************)
(* World for TLC: small columns, positions on both sides of zero and out   *)
(* of bounds.                                                              *)
(***************************************************************************)
EXTENDS FlatWorld

At(x, y, z) == [x |-> x, y |-> y, z |-> z]

\* Two cells of one subchunk, the same cell one level up, the cell the first
\* would share if coordinates were rounded towards zero, and a y out of bounds.
SomeBlocks == {At(1, 1, 0), At(0, 1, 1), At(1, 3, 0), At(-1, 1, 0), At(1, -1, 0)}
=============================================================================
