----------------------------- MODULE MCConsole -----------------------------
(***************************************************************************)
(* Console for TLC.  The configurations choose the bounds.                 *)
(***************************************************************************)
EXTENDS Console
=============================================================================
