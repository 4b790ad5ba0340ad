----------------------------- MODULE ProcTable -----------------------------
(***************************************************************************)
(* The process table of src/proc.rs and the scheduler of src/scheduler.rs, *)
(* as operators on values.  The table is a function from slots to          *)
(* processes; a search of the table runs over the slots in order.          *)
(***************************************************************************)
EXTENDS Integers

CONSTANTS MAX_PROCESSES,  \* number of slots
          NoProc          \* a free slot

Slot == 0 .. MAX_PROCESSES - 1

(* usize::MAX in the code; pids start at 1, so 0 serves as well.           *)
INVALID_PID == 0

States == {"Running", "Ready", "Blocked", "Exited"}

Process == [pid : Nat \ {0}, parent_pid : Nat, state : States]

ASSUME ProcTableAssumption ==
  /\ MAX_PROCESSES \in Nat \ {0}
  /\ NoProc \notin Process

(* Process::new: a spawned process is Ready.                               *)
NewProcess(pid, parent) ==
  [pid |-> pid, parent_pid |-> parent, state |-> "Ready"]

Used(t) == {s \in Slot : t[s] # NoProc}

FreeSlots(t) == {s \in Slot : t[s] = NoProc}

Children(t, pid) == {s \in Used(t) : t[s].parent_pid = pid}

(* A faulty variant: wait reaps a child that still runs.                   *)
ExitedChildren_Any(t, pid) == Children(t, pid)

ExitedChildren(t, pid) == {s \in Children(t, pid) : t[s].state = "Exited"}

SetState(t, s, st) == [t EXCEPT ![s].state = st]

(* Scheduler::unblock for every pid of W: only a Blocked process changes.  *)
Unblock(t, W) ==
  [s \in Slot |-> IF /\ t[s] # NoProc
                     /\ t[s].pid \in W
                     /\ t[s].state = "Blocked"
                  THEN [t[s] EXCEPT !.state = "Ready"]
                  ELSE t[s]]

(* Candidates of Scheduler::schedule.                                      *)
Runnable(t) == {s \in Used(t) : t[s].state \in {"Ready", "Running"}}

(* A faulty variant: the search always starts at the first slot.           *)
Turn_FromStart(t, c, s) == s

(* Position at which schedule considers slot s, c being the slot of the    *)
(* current process: the slots after c first if c is itself a candidate,    *)
(* otherwise the table from its start.                                     *)
Turn(t, c, s) ==
  IF c \in Runnable(t) THEN (s - c - 1) % MAX_PROCESSES ELSE s

(* Scheduler::schedule chooses slot s.                                     *)
Schedules(t, c, s) ==
  /\ s \in Runnable(t)
  /\ \A r \in Runnable(t) : Turn(t, c, s) <= Turn(t, c, r)

(* maybe_switch keeps the CPU with slot c: nobody can run, or only c can.  *)
Stays(t, c) == Runnable(t) \subseteq {c}

(* A faulty variant: the process that loses the CPU stays Running.         *)
Switched_BothRunning(t, c, s) == [t EXCEPT ![s].state = "Running"]

(* The table once maybe_switch has given the CPU of slot c to slot s.      *)
Switched(t, c, s) ==
  [t EXCEPT ![c].state = IF @ = "Running" THEN "Ready" ELSE @,
            ![s].state = "Running"]
=============================================================================
