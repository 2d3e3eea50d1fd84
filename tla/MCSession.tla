------------------------------- MODULE MCSession -------------------------------
(***************************************************************************)
(* Session for TLC.                                                        *)
(***************************************************************************)
EXTENDS Session

\* In the spawn column, and eight columns to the west.
SomePositions == {3, -128}
\* In reach of spawn, and not.
SomeBlocks == {4, 9}
\* Below, within and above what is clamped to.
SomeRadii == {1, 6, 40}
=============================================================================
