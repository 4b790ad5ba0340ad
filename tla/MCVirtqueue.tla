-------------------------- MODULE MCVirtqueue ---------------------------
(* The queue for TLC, with indices that wrap after a few requests.       *)
EXTENDS Virtqueue
=========================================================================
