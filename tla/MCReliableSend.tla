---------------------------- MODULE MCReliableSend ----------------------------
(***************************************************************************)
(* ReliableSend for TLC; every constant is a number given in the .cfg.     *)
(***************************************************************************)
EXTENDS ReliableSend
=============================================================================
