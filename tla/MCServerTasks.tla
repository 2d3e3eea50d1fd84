---------------------------- MODULE MCServerTasks ----------------------------
(***************************************************************************)
(* ServerTasks for TLC: the interaction lists a batch may carry.           *)
(***************************************************************************)
EXTENDS ServerTasks

BlockWork == {<<"skip">>, <<"break", "place">>}
BreakOnly == {<<"break">>}
=============================================================================
