----------------------------- MODULE MCPipeRing -----------------------------
(***************************************************************************)
(* PipeRing for TLC: a buffer small enough for every alignment of the two  *)
(* positions, and writes longer than the room that is left.                *)
(***************************************************************************)
EXTENDS PipeRing
=============================================================================
