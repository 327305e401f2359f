---------------------------- MODULE MCChunkPlan -----------------------------
(* Small widths of ChunkPlan for TLC: words of four bits, bytes of two. *)
EXTENDS ChunkPlan
=============================================================================
