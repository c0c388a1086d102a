---------------------------- MODULE MCChunkStore ----------------------------
(* ChunkStore with a small and a large content. *)
EXTENDS ChunkStore

MCSize(d) == IF d = "small" THEN 1 ELSE 2
=============================================================================
