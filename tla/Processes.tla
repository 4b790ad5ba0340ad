----------------------------- MODULE Processes -----------------------------
(***************************************************************************)
(* The life of processes as system calls see it: who is in the process     *)
(* table, in which state, and who owns the CPU.  Which call a step is has  *)
(* been reduced to what it does to the table; every call ends with the     *)
(* maybe_switch of src/scheduler.rs.  Module Kernel adds descriptors and   *)
(* pipes and implements this specification; module ContextSwitch adds the  *)
(* machine state that a switch saves and restores.                         *)
(***************************************************************************)
EXTENDS ProcTable

VARIABLES
  proc,      \* ProcessTable::processes without the descriptor tables
  current,   \* ProcessTable::current_pid
  next_pid   \* ProcessTable::next_pid

procVars == <<proc, current, next_pid>>

(* launch_user_shell: the shell owns the CPU while its entry says Ready.   *)
Launch ==
  /\ proc = [s \in Slot |-> IF s = 0 THEN NewProcess(1, INVALID_PID) ELSE NoProc]
  /\ current = 1
  /\ next_pid = 2

(* Slot c holds the process that owns the CPU.                             *)
Owner(c) == proc[c] # NoProc /\ proc[c].pid = current

(* The end of handle_ecall, t being the process table the call leaves.     *)
MaybeSwitch(t, c) ==
  \/ /\ Stays(t, c)
     /\ proc' = t
     /\ current' = current
  \/ /\ ~Stays(t, c)
     /\ \E s \in Slot : /\ Schedules(t, c, s)
                        /\ proc' = Switched(t, c, s)
                        /\ current' = t[s].pid

(* A call that unblocks the pids W and returns to its caller.              *)
Returns(c, W) == MaybeSwitch(Unblock(proc, W), c) /\ UNCHANGED next_pid

(* block_current, then the return with EAGAIN.                             *)
Blocks(c) == MaybeSwitch(SetState(proc, c, "Blocked"), c) /\ UNCHANGED next_pid

(* sys_exit of slot c, unblocking the pids W.                              *)
Exits(c, W) ==
  /\ MaybeSwitch(Unblock(SetState(proc, c, "Exited"), W), c)
  /\ UNCHANGED next_pid

(* ProcessTable::spawn of a child in slot s.                               *)
Spawns(c, s) ==
  /\ s \in FreeSlots(proc)
  /\ next_pid' = next_pid + 1
  /\ MaybeSwitch([proc EXCEPT ![s] = NewProcess(next_pid, current)], c)

(* ProcessTable::wait takes the exited child in slot z out of the table.   *)
Reaps(c, z) ==
  /\ z \in ExitedChildren(proc, current)
  /\ MaybeSwitch([proc EXCEPT ![z] = NoProc], c)
  /\ UNCHANGED next_pid

Step(c) ==
  \/ \E W \in SUBSET {proc[s].pid : s \in Used(proc)} : Returns(c, W) \/ Exits(c, W)
  \/ Blocks(c)
  \/ \E s \in Slot : Spawns(c, s) \/ Reaps(c, s)

StepNext == \E c \in Slot : Owner(c) /\ Step(c)

ProcSpec == Launch /\ [][StepNext]_procVars

-----------------------------------------------------------------------------
(* maybe_switch leaves the CPU with a process that is in the table, no two *)
(* entries have the same pid, only the owner of the CPU is Running, and an *)
(* owner that is Blocked or Exited means that nobody could run.            *)
CpuOwner ==
  /\ \E c \in Used(proc) :
       /\ proc[c].pid = current
       /\ proc[c].state \in {"Blocked", "Exited"} => Runnable(proc) = {}
  /\ \A s \in Used(proc) : proc[s].state = "Running" => proc[s].pid = current
  /\ \A s, t \in Used(proc) : proc[s].pid = proc[t].pid => s = t
=============================================================================
