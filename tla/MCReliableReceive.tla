-------------------------- MODULE MCReliableReceive --------------------------
(***************************************************************************)
(* ReliableReceive for TLC; every constant is a number given in the .cfg.  *)
(***************************************************************************)
EXTENDS ReliableReceive
=============================================================================
