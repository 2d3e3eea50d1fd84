------------------------------ MODULE MCChunkPath ------------------------------
(***************************************************************************)
(* ChunkPath for TLC.                                                      *)
(***************************************************************************)
EXTENDS ChunkPath

\* Chunk coordinates whose VarInts have one byte, two and three.
SomePlaces == {-65, 0, 8192}

SomeGuid == <<0, 1, 2, 3, 128, 254, 255, 7>>
SomeMotd == <<77, 67, 80, 69>>
=============================================================================
