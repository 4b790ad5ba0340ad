------------------------------ MODULE MCKernel ------------------------------
(***************************************************************************)
(* Kernel for TLC.  The configurations choose the table sizes.  The        *)
(* properties here are what comments and documents of the repository say   *)
(* of the kernel; the code does not keep them.                             *)
(***************************************************************************)
EXTENDS Kernel

(* sys_exit unblocks a parent that waits, and returns: no system call      *)
(* leaves the hart spinning on a lock it holds itself.                     *)
NeverHangs == ~hung

(* Readers see end of file once every write end has been closed.           *)
ReaderSeesEof ==
  \A i \in PipeId :
    pipes[i] # NoPipe /\ Refs(i, "r") # {} /\ Refs(i, "w") = {} =>
      ~pipes[i].open["w"]
=============================================================================
