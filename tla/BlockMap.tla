------------------------------- MODULE BlockMap -------------------------------
(***************************************************************************)
(* What a block world promises: every position has one block, and setting  *)
(* a block changes the block at that position and no other.                *)
(***************************************************************************)
CONSTANTS Position, RuntimeId

VARIABLE block

Init == block \in [Position -> RuntimeId]

Set(p, id) == block' = [block EXCEPT ![p] = id]

Next == \E p \in Position, id \in RuntimeId : Set(p, id)

Spec == Init /\ [][Next]_block
=============================================================================
