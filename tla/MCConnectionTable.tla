-------------------------- MODULE MCConnectionTable --------------------------
(***************************************************************************)
(* ConnectionTable for TLC: interchangeable addresses.                     *)
(***************************************************************************)
EXTENDS ConnectionTable, TLC

Symmetry == Permutations(Addr)
=============================================================================
