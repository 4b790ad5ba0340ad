-------------------------- MODULE KernelCpuProofs ---------------------------
(***************************************************************************)
(* Lemmas about the tables of Kernel as data.                              *)
(*                                                                         *)
(* First the process table: who owns the CPU, the invariant CpuInv, and    *)
(* what a call leaves for maybe_switch to keep it; and which changes of    *)
(* the table leave every sleeper with somebody to wake it.  Then the pipe  *)
(* table: what counting and dropping references does to the pipes, and to  *)
(* those who wait on them.                                                 *)
(***************************************************************************)
EXTENDS Kernel, FiniteSetTheorems, TLAPS

USE FdTableAssumption, ProcTableAssumption, KernelAssumption, SMTT(30)

-----------------------------------------------------------------------------
(* The process table: each operator returns a table of the same type.      *)
ProcTables == [Slot -> Process \cup {NoProc}]

(* The two tables use the same slots.                                      *)
SameSlots(t, u) == \A s \in Slot : t[s] = NoProc <=> u[s] = NoProc

(* Setting the state of a used slot keeps the table well typed.            *)
LEMMA SetStateType ==
  ASSUME NEW t \in ProcTables, NEW c \in Slot, t[c] # NoProc, NEW st \in States
  PROVE  SetState(t, c, st) \in ProcTables /\ SameSlots(t, SetState(t, c, st))
<1>1. [t[c] EXCEPT !.state = st] \in Process
  BY DEF ProcTables, Process
<1> QED
  BY <1>1 DEF SetState, ProcTables, SameSlots

(* Unblocking keeps the table well typed and frees no slot.                *)
LEMMA UnblockType ==
  ASSUME NEW t \in ProcTables, NEW W
  PROVE  Unblock(t, W) \in ProcTables /\ SameSlots(t, Unblock(t, W))
<1>1. ASSUME NEW s \in Slot, t[s] # NoProc
      PROVE  [t[s] EXCEPT !.state = "Ready"] \in Process
  BY <1>1 DEF ProcTables, Process, States
<1> QED
  BY <1>1 DEF Unblock, ProcTables, SameSlots

(* A process table is well typed after maybe_switch if it was before, and  *)
(* the CPU belongs to a pid.                                               *)
LEMMA MaybeSwitchType ==
  ASSUME NEW t \in ProcTables, NEW c \in Slot, t[c] # NoProc,
         current \in Pid, MaybeSwitch(t, c)
  PROVE  proc' \in ProcTables /\ SameSlots(t, proc') /\ current' \in Pid
<1>1. CASE Stays(t, c)
  BY <1>1 DEF MaybeSwitch, SameSlots
<1>2. CASE ~Stays(t, c)
  <2>1. PICK s \in Slot : /\ Schedules(t, c, s)
                          /\ proc' = Switched(t, c, s)
                          /\ current' = t[s].pid
    BY <1>2 DEF MaybeSwitch
  <2>2. t[s] \in Process
    BY <2>1 DEF Schedules, Runnable, Used, ProcTables
  <2>3. t[c] \in Process
    BY DEF ProcTables
  <2>4. /\ [t[c] EXCEPT !.state = IF @ = "Running" THEN "Ready" ELSE @] \in Process
        /\ [t[s] EXCEPT !.state = "Running"] \in Process
    BY <2>2, <2>3 DEF Process, States
  <2>5. Switched(t, c, s) \in ProcTables /\ SameSlots(t, Switched(t, c, s))
    BY <2>2, <2>3, <2>4 DEF Switched, ProcTables, SameSlots
  <2> QED
    BY <2>1, <2>2, <2>5 DEF Process, Pid
<1> QED
  BY <1>1, <1>2
-----------------------------------------------------------------------------
UniquePids(t) == \A s, u \in Used(t) : t[s].pid = t[u].pid => s = u

(* A process is younger than its parent and older than the next one.       *)
Family(t, np) ==
  \A s \in Used(t) : t[s].parent_pid < t[s].pid /\ t[s].pid < np

(* Slot p holds the parent of the process in slot s.                       *)
ParentOf(t, p, s) == p \in Used(t) /\ t[p].pid = t[s].parent_pid

(* An exited process that holds descriptors is past being reaped: its      *)
(* parent exited too and is not the process in slot c.                     *)
Unreapable(t, f, c) ==
  \A s \in Used(t) :
    t[s].state = "Exited" /\ f[s] # EmptyTable =>
      \A p \in Slot : ParentOf(t, p, s) => t[p].state = "Exited" /\ p # c

OnlyRuns(t, c) == \A s \in Used(t) : t[s].state = "Running" => s = c

(* Slot c owns the CPU between two calls.                                  *)
Owns(t, f, cur, c) ==
  /\ c \in Used(t)
  /\ t[c].pid = cur
  /\ t[c].state \in {"Blocked", "Exited"} => Runnable(t) = {}
  /\ t[c].state = "Exited" =>
       \A p \in Slot : ParentOf(t, p, c) => t[p].state = "Exited"
  /\ OnlyRuns(t, c)
  /\ Unreapable(t, f, c)

CpuInv ==
  /\ UniquePids(proc)
  /\ Family(proc, next_pid)
  /\ \E c \in Slot : Owns(proc, fds, current, c)

(* What a call leaves for maybe_switch, t being the process table.         *)
BeforeSwitch(t, f, cur, c, np) ==
  /\ t \in ProcTables
  /\ c \in Used(t)
  /\ t[c].pid = cur
  /\ UniquePids(t)
  /\ Family(t, np)
  /\ OnlyRuns(t, c)
  /\ t[c].state = "Exited" =>
       \A p \in Slot : ParentOf(t, p, c) => t[p].state # "Blocked"
  /\ Unreapable(t, f, c)

-----------------------------------------------------------------------------
(* maybe_switch turns the second into the first.                           *)
LEMMA SwitchOwns ==
  ASSUME NEW t, NEW f, NEW c \in Slot, NEW np,
         BeforeSwitch(t, f, current, c, np), MaybeSwitch(t, c)
  PROVE  /\ UniquePids(proc') /\ Family(proc', np)
         /\ \E d \in Slot : Owns(proc', f, current', d)
<1>1. CASE Stays(t, c)
  <2>1. proc' = t /\ current' = current
    BY <1>1 DEF MaybeSwitch
  <2>2. t[c].state \in {"Blocked", "Exited"} => Runnable(t) = {}
    BY <1>1 DEF Stays, Runnable
  <2>3. ASSUME t[c].state = "Exited", NEW p \in Slot, ParentOf(t, p, c)
        PROVE  t[p].state = "Exited"
    <3>1. t[p].state # "Blocked" /\ t[p] \in Process /\ t[c] \in Process
      BY <2>3 DEF BeforeSwitch, ParentOf, ProcTables, Used
    <3>2. t[c].parent_pid < t[c].pid /\ p # c
      BY <2>3, <3>1 DEF BeforeSwitch, Family, ParentOf, Process
    <3>3. p \notin Runnable(t)
      BY <1>1, <3>2 DEF Stays
    <3> QED
      BY <2>3, <3>1, <3>3 DEF Runnable, ParentOf, Process, States
  <2>4. Owns(t, f, current, c)
    BY <2>2, <2>3 DEF Owns, BeforeSwitch
  <2> QED
    BY <2>1, <2>4 DEF BeforeSwitch
<1>2. CASE ~Stays(t, c)
  <2>1. PICK s \in Slot : /\ Schedules(t, c, s)
                          /\ proc' = Switched(t, c, s)
                          /\ current' = t[s].pid
    BY <1>2 DEF MaybeSwitch
  <2>2. s \in Used(t) /\ t[s].state \in {"Ready", "Running"}
    BY <2>1 DEF Schedules, Runnable
  <2>3. t \in ProcTables /\ c \in Used(t) /\ t[c] \in Process /\ t[s] \in Process
    BY <2>2 DEF BeforeSwitch, ProcTables, Used
  <2>4. ASSUME NEW r \in Slot
        PROVE  /\ r \in Used(proc') <=> r \in Used(t)
               /\ r \in Used(t) => /\ proc'[r].pid = t[r].pid
                                   /\ proc'[r].parent_pid = t[r].parent_pid
               /\ proc'[s].state = "Running"
               /\ r \in Used(t) /\ r # s =>
                    /\ proc'[r].state # "Running"
                    /\ proc'[r].state = "Exited" <=> t[r].state = "Exited"
    <3> DEFINE pc == [t[c] EXCEPT !.state = IF @ = "Running" THEN "Ready" ELSE @]
               ps == [(IF s = c THEN pc ELSE t[s]) EXCEPT !.state = "Running"]
    <3>1. /\ pc \in Process /\ pc.pid = t[c].pid /\ pc.parent_pid = t[c].parent_pid
          /\ pc.state # "Running" /\ (pc.state = "Exited" <=> t[c].state = "Exited")
      BY <2>3 DEF Process, States
    <3>2. /\ ps \in Process /\ ps.pid = t[s].pid /\ ps.parent_pid = t[s].parent_pid
          /\ ps.state = "Running"
      BY <2>3, <3>1 DEF Process, States
    <3> HIDE DEF pc, ps
    <3>3. proc'[r] = IF r = s THEN ps ELSE IF r = c THEN pc ELSE t[r]
      BY <2>1, <2>3 DEF Switched, ProcTables, pc, ps
    <3>4. proc'[s] = ps
      BY <2>1, <2>3 DEF Switched, ProcTables, pc, ps
    <3>5. r \in Used(t) /\ r # c => t[r].state # "Running"
      BY DEF BeforeSwitch, OnlyRuns
    <3>6. NoProc \notin Process /\ Used(t) = {u \in Slot : t[u] # NoProc}
          /\ Used(proc') = {u \in Slot : proc'[u] # NoProc}
      BY DEF Used
    <3>7. CASE r = s
      BY <2>2, <3>2, <3>4, <3>6, <3>7
    <3>8. CASE r # s /\ r = c
      BY <2>3, <3>1, <3>2, <3>3, <3>4, <3>6, <3>8
    <3>9. CASE r # s /\ r # c
      BY <3>2, <3>3, <3>4, <3>5, <3>6, <3>9
    <3> QED
      BY <3>7, <3>8, <3>9
  <2>5. UniquePids(proc') /\ Family(proc', np)
    BY <2>4 DEF BeforeSwitch, UniquePids, Family, Used
  <2>6. OnlyRuns(proc', s)
    BY <2>4 DEF OnlyRuns, Used
  <2>7. Unreapable(proc', f, s)
    <3> SUFFICES ASSUME NEW r \in Used(proc'), proc'[r].state = "Exited",
                        f[r] # EmptyTable,
                        NEW p \in Slot, ParentOf(proc', p, r)
                 PROVE  proc'[p].state = "Exited" /\ p # s
      BY DEF Unreapable
    <3>1. r \in Slot /\ r # s /\ r \in Used(t) /\ t[r].state = "Exited"
      BY <2>4 DEF Used
    <3>2. ParentOf(t, p, r)
      BY <2>4, <3>1 DEF ParentOf
    <3>3. t[p].state = "Exited" /\ p \in Used(t)
      BY <3>1, <3>2 DEF BeforeSwitch, Unreapable, ParentOf
    <3>4. p # s
      BY <2>2, <3>3
    <3> QED
      BY <2>4, <3>3, <3>4
  <2>8. s \in Used(proc') /\ proc'[s].pid = current' /\ proc'[s].state = "Running"
    BY <2>1, <2>2, <2>4
  <2>9. Owns(proc', f, current', s)
    BY <2>6, <2>7, <2>8 DEF Owns
  <2> QED
    BY <2>5, <2>9
<1> QED
  BY <1>1, <1>2

-----------------------------------------------------------------------------
(* The process that issues a call is the owner of the CPU.                 *)
LEMMA CallerOwns ==
  ASSUME TypeOK, CpuInv, NEW c \in Slot, OnCpu(c)
  PROVE  Owns(proc, fds, current, c) /\ proc \in ProcTables
<1>1. PICK d \in Slot : Owns(proc, fds, current, d)
  BY DEF CpuInv
<1>2. c = d
  BY <1>1 DEF CpuInv, UniquePids, Owns, OnCpu, Owner, Used
<1> QED
  BY <1>1, <1>2 DEF TypeOK, ProcTables

(* The descriptors of everybody but the caller are as before.              *)
OthersKeep(f, c) == \A s \in Slot \ {c} : f[s] = fds[s]

(* A call that at most unblocks processes.                                 *)
LEMMA BeforeUnblock ==
  ASSUME TypeOK, CpuInv, NEW c \in Slot, OnCpu(c), NEW W, NEW f, OthersKeep(f, c)
  PROVE  BeforeSwitch(Unblock(proc, W), f, current, c, next_pid)
<1> DEFINE t == Unblock(proc, W)
<1>1. Owns(proc, fds, current, c) /\ proc \in ProcTables
  BY CallerOwns
<1>2. t \in ProcTables /\ SameSlots(proc, t)
  BY <1>1, UnblockType
<1>3. ASSUME NEW s \in Slot
      PROVE  /\ s \in Used(t) <=> s \in Used(proc)
             /\ s \in Used(proc) =>
                  /\ t[s].pid = proc[s].pid
                  /\ t[s].parent_pid = proc[s].parent_pid
                  /\ t[s].state = "Exited" <=> proc[s].state = "Exited"
                  /\ t[s].state = "Running" => proc[s].state = "Running"
  BY <1>1, <1>2 DEF Used, SameSlots, Unblock, ProcTables, Process
<1> HIDE DEF t
<1>4. UniquePids(t) /\ Family(t, next_pid) /\ OnlyRuns(t, c)
  BY <1>1, <1>3 DEF CpuInv, UniquePids, Family, OnlyRuns, Owns, Used
<1>5. ASSUME t[c].state = "Exited", NEW p \in Slot, ParentOf(t, p, c)
      PROVE  t[p].state = "Exited" /\ p # c
  <2>1. c \in Used(proc) /\ ParentOf(proc, p, c) /\ proc[c].state = "Exited"
    BY <1>1, <1>3, <1>5 DEF Owns, ParentOf
  <2>2. proc[p].state = "Exited" /\ p \in Used(proc)
    BY <1>1, <2>1 DEF Owns, ParentOf
  <2>3. proc[c].parent_pid < proc[c].pid /\ proc[c] \in Process
    BY <1>1, <2>1 DEF CpuInv, Family, Used, ProcTables
  <2>4. p # c
    BY <2>1, <2>3 DEF ParentOf, Process
  <2> QED
    BY <1>3, <2>2, <2>4
<1>6. Unreapable(t, f, c)
  <2> SUFFICES ASSUME NEW s \in Used(t), t[s].state = "Exited",
                      f[s] # EmptyTable, NEW p \in Slot, ParentOf(t, p, s)
               PROVE  t[p].state = "Exited" /\ p # c
    BY DEF Unreapable
  <2>1. CASE s = c
    BY <1>5, <2>1
  <2>2. CASE s # c
    <3>1. s \in Used(proc) /\ proc[s].state = "Exited" /\ fds[s] # EmptyTable
      BY <1>3, <2>2 DEF OthersKeep, Used
    <3>2. ParentOf(proc, p, s) /\ p \in Used(proc)
      BY <1>3, <3>1 DEF ParentOf, Used
    <3>3. proc[p].state = "Exited" /\ p # c
      BY <1>1, <3>1, <3>2 DEF Owns, Unreapable
    <3> QED
      BY <1>3, <3>2, <3>3
  <2> QED
    BY <2>1, <2>2
<1>7. c \in Used(t) /\ t[c].pid = current
  BY <1>1, <1>3 DEF Owns
<1>8. t[c].state = "Exited" =>
        \A p \in Slot : ParentOf(t, p, c) => t[p].state # "Blocked"
  BY <1>5
<1>9. BeforeSwitch(t, f, current, c, next_pid)
  BY <1>2, <1>4, <1>6, <1>7, <1>8 DEF BeforeSwitch
<1> QED
  BY <1>9 DEF t

(* A call that leaves the process table alone is a special case.           *)
LEMMA BeforeReturn ==
  ASSUME TypeOK, CpuInv, NEW c \in Slot, OnCpu(c), NEW f, OthersKeep(f, c)
  PROVE  BeforeSwitch(proc, f, current, c, next_pid)
<1>1. Unblock(proc, {}) = proc
  BY DEF Unblock, TypeOK
<1> QED
  BY <1>1, BeforeUnblock

(* A call that blocks the caller.                                          *)
LEMMA BeforeBlock ==
  ASSUME TypeOK, CpuInv, NEW c \in Slot, OnCpu(c)
  PROVE  BeforeSwitch(SetState(proc, c, "Blocked"), fds, current, c, next_pid)
<1> DEFINE t == SetState(proc, c, "Blocked")
<1>1. Owns(proc, fds, current, c) /\ proc \in ProcTables
  BY CallerOwns
<1>2. t \in ProcTables /\ SameSlots(proc, t)
  BY <1>1, SetStateType DEF Owns, Used, States
<1>3. ASSUME NEW s \in Slot
      PROVE  /\ s \in Used(t) <=> s \in Used(proc)
             /\ s \in Used(proc) => /\ t[s].pid = proc[s].pid
                                    /\ t[s].parent_pid = proc[s].parent_pid
                                    /\ s # c => t[s].state = proc[s].state
             /\ t[c].state = "Blocked"
  BY <1>1, <1>2, Zenon DEF Used, SameSlots, SetState, ProcTables, Process, Owns
<1> HIDE DEF t
<1>4. UniquePids(t) /\ Family(t, next_pid) /\ OnlyRuns(t, c)
  BY <1>1, <1>3 DEF CpuInv, UniquePids, Family, OnlyRuns, Owns, Used
<1>5. Unreapable(t, fds, c)
  <2> SUFFICES ASSUME NEW s \in Used(t), t[s].state = "Exited",
                      fds[s] # EmptyTable, NEW p \in Slot, ParentOf(t, p, s)
               PROVE  t[p].state = "Exited" /\ p # c
    BY DEF Unreapable
  <2>1. s \in Used(proc) /\ proc[s].state = "Exited" /\ ParentOf(proc, p, s)
    BY <1>3 DEF Used, ParentOf
  <2>2. proc[p].state = "Exited" /\ p # c /\ p \in Used(proc)
    BY <1>1, <2>1 DEF Owns, Unreapable, ParentOf
  <2> QED
    BY <1>3, <2>2
<1>6. c \in Used(t) /\ t[c].pid = current /\ t[c].state # "Exited"
  BY <1>1, <1>3 DEF Owns
<1>7. BeforeSwitch(t, fds, current, c, next_pid)
  BY <1>2, <1>4, <1>5, <1>6 DEF BeforeSwitch
<1> QED
  BY <1>7 DEF t

(* The exit of the caller, which unblocks its parent.                      *)
LEMMA BeforeExit ==
  ASSUME TypeOK, CpuInv, NEW c \in Slot, OnCpu(c), NEW W, NEW f,
         OthersKeep(f, c), f[c] = EmptyTable
  PROVE  LET parent == {proc[c].parent_pid} \ {INVALID_PID}
             t == SetState(Unblock(proc, W), c, "Exited")
         IN BeforeSwitch(Unblock(t, parent), f, current, c, next_pid)
<1> DEFINE parent == {proc[c].parent_pid} \ {INVALID_PID}
           u == Unblock(proc, W)
           v == SetState(u, c, "Exited")
           t == Unblock(v, parent)
<1>1. Owns(proc, fds, current, c) /\ proc \in ProcTables
  BY CallerOwns
<1>2. u \in ProcTables /\ SameSlots(proc, u)
  BY <1>1, UnblockType, Zenon
<1>3. v \in ProcTables /\ SameSlots(u, v)
  BY <1>1, <1>2, SetStateType DEF Owns, Used, States, SameSlots
<1>4. t \in ProcTables /\ SameSlots(v, t)
  BY <1>3, UnblockType
<1>5. ASSUME NEW s \in Slot, s \in Used(proc)
      PROVE  /\ u[s].pid = proc[s].pid
             /\ u[s].parent_pid = proc[s].parent_pid
             /\ u[s].state = "Exited" <=> proc[s].state = "Exited"
             /\ u[s].state = "Running" => proc[s].state = "Running"
  BY <1>1, <1>2, <1>5 DEF Used, SameSlots, Unblock, ProcTables, Process
<1> HIDE DEF u
<1>6. ASSUME NEW s \in Slot, s \in Used(proc)
      PROVE  /\ v[s].pid = u[s].pid
             /\ v[s].parent_pid = u[s].parent_pid
             /\ s # c => v[s].state = u[s].state
             /\ v[c].state = "Exited"
  BY <1>1, <1>2, <1>6 DEF Used, SameSlots, SetState, ProcTables, Process, Owns
<1> HIDE DEF v
<1>7. ASSUME NEW s \in Slot, s \in Used(proc)
      PROVE  /\ t[s].pid = v[s].pid
             /\ t[s].parent_pid = v[s].parent_pid
             /\ t[s].state = "Exited" <=> v[s].state = "Exited"
             /\ t[s].state = "Running" => v[s].state = "Running"
             /\ t[s].state = "Blocked" => v[s].pid \notin parent
  <2>1. v[s] \in Process
    BY <1>2, <1>3, <1>7 DEF Used, SameSlots, ProcTables
  <2> QED
    BY <2>1 DEF Unblock, Process
<1> HIDE DEF t
<1>8. \A s \in Slot : s \in Used(t) <=> s \in Used(proc)
  BY <1>2, <1>3, <1>4, Zenon DEF SameSlots, Used
<1>9. ASSUME NEW s \in Slot, s \in Used(proc)
      PROVE  /\ t[s].pid = proc[s].pid
             /\ t[s].parent_pid = proc[s].parent_pid
             /\ s # c => (t[s].state = "Exited" <=> proc[s].state = "Exited")
             /\ t[s].state = "Running" => proc[s].state = "Running"
  BY <1>5, <1>6, <1>7, <1>9
<1>10. c \in Used(proc) /\ t[c].state = "Exited"
  BY <1>1, <1>6, <1>7, Zenon DEF Owns
<1>11. UniquePids(t) /\ Family(t, next_pid) /\ OnlyRuns(t, c)
  BY <1>1, <1>8, <1>9, ZenonT(30) DEF CpuInv, UniquePids, Family, OnlyRuns, Owns, Used
<1>12. ASSUME NEW p \in Slot, ParentOf(t, p, c)
       PROVE  t[p].state # "Blocked"
  <2>1. p \in Used(proc) /\ proc[p].pid = proc[c].parent_pid /\ proc[p] \in Process
    BY <1>1, <1>8, <1>9, <1>10, <1>12, Zenon DEF ParentOf, Used, ProcTables
  <2>2. proc[p].pid \in parent
    BY <2>1 DEF Process, INVALID_PID
  <2>3. v[p].pid = proc[p].pid
    BY <1>5, <1>6, <2>1
  <2> QED
    BY <1>7, <2>1, <2>2, <2>3, Zenon
<1>13. Unreapable(t, f, c)
  <2> SUFFICES ASSUME NEW s \in Used(t), t[s].state = "Exited",
                      f[s] # EmptyTable, NEW p \in Slot, ParentOf(t, p, s)
               PROVE  t[p].state = "Exited" /\ p # c
    BY DEF Unreapable
  <2>1. s \in Slot /\ s # c /\ s \in Used(proc)
    BY <1>8 DEF Used
  <2>2. proc[s].state = "Exited" /\ fds[s] # EmptyTable /\ ParentOf(proc, p, s)
    BY <1>8, <1>9, <2>1, Zenon DEF OthersKeep, ParentOf
  <2>3. proc[p].state = "Exited" /\ p # c /\ p \in Used(proc)
    BY <1>1, <2>1, <2>2, Zenon DEF Owns, Unreapable, ParentOf
  <2> QED
    BY <1>9, <2>3
<1>14. c \in Used(t) /\ t[c].pid = current
  BY <1>1, <1>8, <1>9, <1>10, Zenon DEF Owns
<1>15. BeforeSwitch(t, f, current, c, next_pid)
  BY <1>4, <1>11, <1>12, <1>13, <1>14, Zenon DEF BeforeSwitch
<1> QED
  BY <1>15 DEF t, v, u

(* A successful spawn into the free slot s.                                *)
LEMMA BeforeSpawn ==
  ASSUME TypeOK, CpuInv, NEW c \in Slot, OnCpu(c), NEW s \in Slot,
         proc[s] = NoProc, NEW f, \A r \in Slot \ {s} : f[r] = fds[r]
  PROVE  BeforeSwitch([proc EXCEPT ![s] = NewProcess(next_pid, current)],
                      f, current, c, next_pid + 1)
<1> DEFINE new == NewProcess(next_pid, current)
           t == [proc EXCEPT ![s] = new]
<1>1. Owns(proc, fds, current, c) /\ proc \in ProcTables
  BY CallerOwns
<1>2. next_pid \in Nat \ {0} /\ current \in Nat \ {0}
  BY DEF TypeOK, Pid
<1>3. /\ new \in Process /\ new.pid = next_pid /\ new.parent_pid = current
      /\ new.state = "Ready"
  BY <1>2 DEF NewProcess, Process, States
<1> HIDE DEF new
<1>4. t \in ProcTables /\ t[s] = new /\ \A r \in Slot : r # s => t[r] = proc[r]
  BY <1>1, <1>3, Zenon DEF ProcTables
<1> HIDE DEF t
<1>5. s # c /\ c \in Used(proc) /\ Used(t) = Used(proc) \cup {s}
  BY <1>1, <1>3, <1>4, Zenon DEF Used, Owns
<1>6. \A r \in Used(proc) : /\ r # s /\ t[r] = proc[r] /\ proc[r] \in Process
                            /\ proc[r].parent_pid < proc[r].pid
                            /\ proc[r].pid < next_pid
  BY <1>1, <1>4 DEF Used, ProcTables, CpuInv, Family
<1>7. current < next_pid
  BY <1>1, <1>6, Zenon DEF Owns
<1>8. UniquePids(t)
  BY <1>2, <1>3, <1>4, <1>5, <1>6 DEF CpuInv, UniquePids, Process
<1>9. Family(t, next_pid + 1)
  BY <1>2, <1>3, <1>4, <1>5, <1>6, <1>7 DEF Family, Process
<1>10. OnlyRuns(t, c)
  BY <1>1, <1>3, <1>4, <1>5, <1>6, Zenon DEF OnlyRuns, Owns
<1>11. ASSUME NEW r \in Used(proc), NEW p \in Slot, ParentOf(t, p, r)
       PROVE  p # s /\ ParentOf(proc, p, r)
  BY <1>2, <1>3, <1>4, <1>5, <1>6, <1>11 DEF ParentOf, Process
<1>12. ASSUME t[c].state = "Exited", NEW p \in Slot, ParentOf(t, p, c)
       PROVE  t[p].state # "Blocked"
  <2>1. ParentOf(proc, p, c) /\ p # s /\ proc[c].state = "Exited"
    BY <1>5, <1>6, <1>11, <1>12, Zenon
  <2>2. proc[p].state = "Exited"
    BY <1>1, <2>1 DEF Owns
  <2> QED
    BY <1>4, <2>1, <2>2
<1>13. Unreapable(t, f, c)
  <2> SUFFICES ASSUME NEW r \in Used(t), t[r].state = "Exited",
                      f[r] # EmptyTable, NEW p \in Slot, ParentOf(t, p, r)
               PROVE  t[p].state = "Exited" /\ p # c
    BY DEF Unreapable
  <2>1. r # s /\ r \in Used(proc) /\ r \in Slot
    BY <1>3, <1>4, <1>5, Zenon DEF Used
  <2>2. proc[r].state = "Exited" /\ fds[r] # EmptyTable
    BY <1>4, <2>1
  <2>3. ParentOf(proc, p, r) /\ p # s
    BY <1>11, <2>1, Zenon
  <2>4. proc[p].state = "Exited" /\ p # c
    BY <1>1, <2>1, <2>2, <2>3, Zenon DEF Owns, Unreapable
  <2> QED
    BY <1>4, <2>3, <2>4
<1>14. c \in Used(t) /\ t[c].pid = current
  BY <1>1, <1>4, <1>5, Zenon DEF Owns
<1>15. BeforeSwitch(t, f, current, c, next_pid + 1)
  BY <1>4, <1>8, <1>9, <1>10, <1>12, <1>13, <1>14, Zenon DEF BeforeSwitch
<1> QED
  BY <1>15 DEF t, new

(* Reaping the process in slot z.                                          *)
LEMMA BeforeReap ==
  ASSUME TypeOK, CpuInv, NEW c \in Slot, OnCpu(c), NEW z \in Slot, z # c,
         NEW f, \A r \in Slot \ {z} : f[r] = fds[r]
  PROVE  BeforeSwitch([proc EXCEPT ![z] = NoProc], f, current, c, next_pid)
<1> DEFINE t == [proc EXCEPT ![z] = NoProc]
<1>1. Owns(proc, fds, current, c) /\ proc \in ProcTables
  BY CallerOwns
<1>2. t \in ProcTables /\ t[z] = NoProc /\ \A r \in Slot : r # z => t[r] = proc[r]
  BY <1>1 DEF ProcTables
<1> HIDE DEF t
<1>3. \A r \in Slot : r \in Used(t) <=> r \in Used(proc) /\ r # z
  BY <1>2, Zenon DEF Used
<1>4. UniquePids(t) /\ Family(t, next_pid) /\ OnlyRuns(t, c)
  BY <1>1, <1>2, <1>3 DEF CpuInv, UniquePids, Family, OnlyRuns, Owns, Used
<1>5. ASSUME NEW r \in Used(t), NEW p \in Slot, ParentOf(t, p, r)
      PROVE  /\ ParentOf(proc, p, r) /\ r \in Used(proc) /\ p # z /\ r # z
             /\ t[p] = proc[p] /\ t[r] = proc[r] /\ r \in Slot
  BY <1>2, <1>3, <1>5, Zenon DEF ParentOf, Used
<1>6. c \in Used(t) /\ t[c].pid = current
  BY <1>1, <1>2, <1>3, Zenon DEF Owns
<1>7. ASSUME t[c].state = "Exited", NEW p \in Slot, ParentOf(t, p, c)
      PROVE  t[p].state # "Blocked"
  BY <1>1, <1>5, <1>6, <1>7, Zenon DEF Owns
<1>8. Unreapable(t, f, c)
  BY <1>1, <1>5 DEF Owns, Unreapable
<1>9. BeforeSwitch(t, f, current, c, next_pid)
  BY <1>2, <1>4, <1>6, <1>7, <1>8, Zenon DEF BeforeSwitch
<1> QED
  BY <1>9 DEF t

-----------------------------------------------------------------------------
(* The pipe table.  A pipe is consistent when an end is open exactly while *)
(* its count is positive.                                                  *)
PipeTables == [PipeId -> Pipe \cup {NoPipe}]

Consistent(p) == \A e \in End : p.open[e] <=> p.refcount[e] > 0

(* Incref adds k to one count and keeps the pipe consistent.               *)
LEMMA IncrefPipe ==
  ASSUME NEW p \in Pipe, Consistent(p), NEW e \in End, NEW k \in Nat
  PROVE  /\ Incref(p, e, k) \in Pipe
         /\ Consistent(Incref(p, e, k))
         /\ \A d \in End : Incref(p, e, k).refcount[d] =
                            IF d = e THEN p.refcount[d] + k ELSE p.refcount[d]
<1>1. CASE k = 0
  BY <1>1 DEF Incref, Pipe, End
<1>2. CASE k # 0
  <2> DEFINE q == [len |-> p.len,
                   open |-> [p.open EXCEPT ![e] = TRUE],
                   refcount |-> [p.refcount EXCEPT ![e] = @ + k],
                   waiting |-> p.waiting]
  <2>1. Incref(p, e, k) = q
    BY <1>2, Zenon DEF Incref, Pipe
  <2>2. q \in Pipe
    BY DEF Pipe
  <2>3. Consistent(q)
    BY <1>2 DEF Consistent, Pipe, End
  <2>4. \A d \in End : q.refcount[d] =
                       IF d = e THEN p.refcount[d] + k ELSE p.refcount[d]
    BY DEF Pipe, End
  <2> QED
    BY <2>1, <2>2, <2>3, <2>4
<1> QED
  BY <1>1, <1>2

(* DropEnd subtracts k from one count, stopping at zero, and keeps the     *)
(* pipe consistent.                                                        *)
LEMMA DropEndPipe ==
  ASSUME NEW p \in Pipe, Consistent(p), NEW e \in End, NEW k \in Nat
  PROVE  /\ DropEnd(p, e, k) \in Pipe
         /\ Consistent(DropEnd(p, e, k))
         /\ \A d \in End : DropEnd(p, e, k).refcount[d] =
              IF d # e THEN p.refcount[d]
              ELSE IF p.refcount[d] > k THEN p.refcount[d] - k ELSE 0
<1>1. CASE k = 0
  BY <1>1 DEF DropEnd, Pipe, End
<1>2. CASE k # 0
  <2> DEFINE o == Opposite(e)
             q == [len |-> p.len,
                   open |-> [p.open EXCEPT ![e] = p.refcount[e] > k],
                   refcount |-> [p.refcount EXCEPT ![e] = IF @ > k THEN @ - k ELSE 0],
                   waiting |-> [p.waiting EXCEPT ![o] =
                                  IF p.refcount[e] > k THEN @ ELSE {}]]
  <2>1. DropEnd(p, e, k) = q
    BY <1>2, Zenon DEF DropEnd, Pipe
  <2>2. q \in Pipe
    <3>1. p.refcount[e] \in Nat /\ o \in End
      BY DEF Pipe, End, Opposite
    <3>2. [p.open EXCEPT ![e] = p.refcount[e] > k] \in [End -> BOOLEAN]
      BY DEF Pipe
    <3>3. [p.refcount EXCEPT ![e] = IF @ > k THEN @ - k ELSE 0] \in [End -> Nat]
      BY <3>1 DEF Pipe
    <3>4. [p.waiting EXCEPT ![o] = IF p.refcount[e] > k THEN @ ELSE {}]
             \in [End -> SUBSET Pid]
      BY <3>1, Zenon DEF Pipe
    <3> QED
      BY <3>2, <3>3, <3>4 DEF Pipe
  <2>3. ASSUME NEW d \in End
        PROVE  q.open[d] <=> q.refcount[d] > 0
    <3>1. CASE d = e
      <4>1. q.open[d] <=> p.refcount[e] > k
        BY <3>1, Zenon DEF Pipe
      <4>2. q.refcount[d] = IF p.refcount[e] > k THEN p.refcount[e] - k ELSE 0
        BY <3>1 DEF Pipe
      <4>3. p.refcount[e] \in Nat
        BY DEF Pipe
      <4> HIDE DEF q
      <4> QED
        BY <4>1, <4>2, <4>3
    <3>2. CASE d # e
      BY <3>2 DEF Consistent, Pipe
    <3> QED
      BY <3>1, <3>2
  <2>4. \A d \in End : q.refcount[d] =
              IF d # e THEN p.refcount[d]
              ELSE IF p.refcount[d] > k THEN p.refcount[d] - k ELSE 0
    BY DEF Pipe, End
  <2> QED
    BY <2>1, <2>2, <2>3, <2>4 DEF Consistent
<1> QED
  BY <1>1, <1>2

(* What holds of every allocated pipe: it is consistent, and an end is     *)
(* open, since close_pipe_end frees the slot with the second end.          *)
Sound(q) ==
  \A i \in PipeId : q[i] # NoPipe => /\ Consistent(q[i])
                                     /\ q[i].open["r"] \/ q[i].open["w"]

(* Finitely many descriptors of a table name an end of a pipe.             *)
LEMMA FdsOfFinite ==
  ASSUME NEW t, NEW i, NEW e, NEW F
  PROVE  /\ IsFiniteSet(FdsOf(t, i, e))
         /\ IsFiniteSet(FdsOf(t, i, e) \cap F)
         /\ Cardinality(FdsOf(t, i, e)) \in Nat
         /\ Cardinality(FdsOf(t, i, e) \cap F) \in Nat
<1>1. IsFiniteSet(Fd)
  BY FS_Interval DEF Fd
<1>2. FdsOf(t, i, e) \subseteq Fd /\ FdsOf(t, i, e) \cap F \subseteq Fd
  BY DEF FdsOf
<1>3. IsFiniteSet(FdsOf(t, i, e)) /\ IsFiniteSet(FdsOf(t, i, e) \cap F)
  BY <1>1, <1>2, FS_Subset, Zenon
<1> QED
  BY <1>3, FS_CardinalityType

(* CloneRefs adds to each count the number of descriptors cloned.          *)
LEMMA CloneRefsCounts ==
  ASSUME NEW q \in PipeTables, Sound(q), NEW t
  PROVE  /\ CloneRefs(q, t) \in PipeTables
         /\ Sound(CloneRefs(q, t))
         /\ \A i \in PipeId : CloneRefs(q, t)[i] = NoPipe <=> q[i] = NoPipe
         /\ \A i \in PipeId, e \in End :
              q[i] # NoPipe => CloneRefs(q, t)[i].refcount[e] =
                                 q[i].refcount[e] + Cardinality(FdsOf(t, i, e))
<1> DEFINE R == CloneRefs(q, t)
<1>1. ASSUME NEW i \in PipeId, q[i] # NoPipe
      PROVE  /\ R[i] \in Pipe
             /\ Consistent(R[i])
             /\ R[i].open["r"] \/ R[i].open["w"]
             /\ \A e \in End : R[i].refcount[e] =
                                q[i].refcount[e] + Cardinality(FdsOf(t, i, e))
  <2> DEFINE kr == Cardinality(FdsOf(t, i, "r"))
             kw == Cardinality(FdsOf(t, i, "w"))
             p1 == Incref(q[i], "r", kr)
             p2 == Incref(p1, "w", kw)
  <2>1. R[i] = p2
    BY <1>1 DEF CloneRefs
  <2>2. kr \in Nat /\ kw \in Nat
    BY FdsOfFinite
  <2>3. q[i] \in Pipe /\ Consistent(q[i]) /\ (q[i].open["r"] \/ q[i].open["w"])
    BY <1>1 DEF PipeTables, Sound
  <2>e. "r" \in End /\ "w" \in End /\ "r" # "w"
    BY Zenon DEF End
  <2> HIDE DEF kr, kw
  <2>4. /\ p1 \in Pipe /\ Consistent(p1)
        /\ p1.refcount["r"] = q[i].refcount["r"] + kr
        /\ p1.refcount["w"] = q[i].refcount["w"]
    BY <2>2, <2>3, <2>e, IncrefPipe
  <2> HIDE DEF p1
  <2>5. /\ p2 \in Pipe /\ Consistent(p2)
        /\ p2.refcount["r"] = p1.refcount["r"]
        /\ p2.refcount["w"] = p1.refcount["w"] + kw
    BY <2>2, <2>4, <2>e, IncrefPipe
  <2> HIDE DEF p2
  <2>6. q[i].refcount["r"] > 0 \/ q[i].refcount["w"] > 0
    BY <2>3, <2>e DEF Consistent
  <2>7. q[i].refcount["r"] \in Nat /\ q[i].refcount["w"] \in Nat
    BY <2>3, <2>e, Zenon DEF Pipe
  <2>8. p2.refcount["r"] > 0 \/ p2.refcount["w"] > 0
    BY <2>2, <2>4, <2>5, <2>6, <2>7
  <2>9. p2.open["r"] \/ p2.open["w"]
    BY <2>5, <2>8, <2>e DEF Consistent
  <2> QED
    BY <2>1, <2>4, <2>5, <2>9 DEF End, kr, kw
<1>2. \A i \in PipeId : q[i] = NoPipe => R[i] = NoPipe
  BY DEF CloneRefs
<1>3. DOMAIN R = PipeId /\ R = [i \in PipeId |-> R[i]]
  BY Zenon DEF CloneRefs
<1> QED
  BY <1>1, <1>2, <1>3 DEF PipeTables, Sound

(* CloseRefs takes from each count the number of descriptors closed, and   *)
(* frees a slot only when both counts are used up.                         *)
LEMMA CloseRefsCounts ==
  ASSUME NEW q \in PipeTables, Sound(q), NEW t, NEW F
  PROVE  /\ CloseRefs(q, t, F) \in PipeTables
         /\ Sound(CloseRefs(q, t, F))
         /\ \A i \in PipeId : q[i] = NoPipe => CloseRefs(q, t, F)[i] = NoPipe
         /\ \A i \in PipeId, e \in End :
              LET k == Cardinality(FdsOf(t, i, e) \cap F)
                  p == CloseRefs(q, t, F)[i]
              IN q[i] # NoPipe =>
                   IF p = NoPipe THEN q[i].refcount[e] <= k
                   ELSE p.refcount[e] = IF q[i].refcount[e] > k
                                        THEN q[i].refcount[e] - k ELSE 0
<1> DEFINE R == CloseRefs(q, t, F)
           K(i, e) == Cardinality(FdsOf(t, i, e) \cap F)
           Left(i, e) == IF q[i].refcount[e] > K(i, e)
                         THEN q[i].refcount[e] - K(i, e) ELSE 0
<1>1. ASSUME NEW i \in PipeId, q[i] # NoPipe
      PROVE  IF R[i] = NoPipe
             THEN \A e \in End : q[i].refcount[e] <= K(i, e)
             ELSE /\ R[i] \in Pipe
                  /\ Consistent(R[i])
                  /\ R[i].open["r"] \/ R[i].open["w"]
                  /\ \A e \in End : R[i].refcount[e] = Left(i, e)
  <2> DEFINE kr == K(i, "r")
             kw == K(i, "w")
             p1 == DropEnd(q[i], "r", kr)
             p2 == DropEnd(p1, "w", kw)
  <2>1. R[i] = IF kr + kw = 0 THEN q[i] ELSE Release(p2)
    BY <1>1 DEF CloseRefs
  <2>2. kr \in Nat /\ kw \in Nat
    BY FdsOfFinite, Zenon
  <2>3. q[i] \in Pipe /\ Consistent(q[i]) /\ (q[i].open["r"] \/ q[i].open["w"])
    BY <1>1 DEF PipeTables, Sound
  <2>4. "r" \in End /\ "w" \in End /\ "r" # "w" /\ \A e \in End : e = "r" \/ e = "w"
    BY DEF End
  <2>5. q[i].refcount["r"] \in Nat /\ q[i].refcount["w"] \in Nat
    BY <2>3, <2>4 DEF Pipe
  <2>6. CASE kr + kw = 0
    <3>1. kr = 0 /\ kw = 0 /\ R[i] = q[i]
      BY <2>1, <2>2, <2>6
    <3> HIDE DEF K
    <3>2. q[i].refcount["r"] = Left(i, "r") /\ q[i].refcount["w"] = Left(i, "w")
      BY <2>5, <3>1
    <3>3. \A e \in End : q[i].refcount[e] = Left(i, e)
      BY <2>4, <3>2, Zenon
    <3> QED
      BY <1>1, <2>3, <3>1, <3>3, Zenon
  <2>7. CASE kr + kw # 0
    <3> HIDE DEF kr, kw
    <3>1. /\ p1 \in Pipe /\ Consistent(p1)
          /\ p1.refcount["w"] = q[i].refcount["w"]
          /\ p1.refcount["r"] = IF q[i].refcount["r"] > kr
                                THEN q[i].refcount["r"] - kr ELSE 0
      BY <2>2, <2>3, <2>4, DropEndPipe
    <3> HIDE DEF p1
    <3>2. p1 \in Pipe /\ Consistent(p1) /\ "w" \in End /\ kw \in Nat
      BY <2>2, <2>4, <3>1, Zenon
    <3>3. /\ p2 \in Pipe /\ Consistent(p2)
          /\ \A d \in End : p2.refcount[d] =
               IF d # "w" THEN p1.refcount[d]
               ELSE IF p1.refcount[d] > kw THEN p1.refcount[d] - kw ELSE 0
      BY <3>2, DropEndPipe
    <3> HIDE DEF p2
    <3>4. /\ p2 \in Pipe /\ Consistent(p2)
          /\ p2.refcount["r"] = p1.refcount["r"]
          /\ p2.refcount["w"] = IF p1.refcount["w"] > kw
                                THEN p1.refcount["w"] - kw ELSE 0
      BY <2>4, <3>3
    <3>5. \A e \in End : p2.refcount[e] = Left(i, e)
      BY <2>4, <3>1, <3>4, Zenon DEF kr, kw
    <3>6. CASE p2.open["r"] \/ p2.open["w"]
      <4>1. R[i] = p2
        BY <2>1, <2>7, <3>6, Zenon DEF Release
      <4> QED
        BY <4>1, <3>4, <3>5, <3>6, Zenon
    <3>7. CASE ~(p2.open["r"] \/ p2.open["w"])
      <4>1. R[i] = NoPipe
        BY <2>1, <2>7, <3>7 DEF Release
      <4>2. ~(p2.refcount["r"] > 0) /\ ~(p2.refcount["w"] > 0)
        BY <3>4, <3>7, <2>4, Zenon DEF Consistent
      <4>3. q[i].refcount["r"] <= kr /\ q[i].refcount["w"] <= kw
        BY <4>2, <3>1, <3>4, <2>2, <2>5
      <4> QED
        BY <4>1, <4>3, <2>4, Zenon DEF kr, kw
    <3> QED
      BY <3>6, <3>7, Zenon
  <2> QED
    BY <2>6, <2>7, Zenon
<1>2. \A i \in PipeId : q[i] = NoPipe => R[i] = NoPipe
  BY DEF CloseRefs
<1>3. R = [i \in PipeId |-> R[i]]
  BY DEF CloseRefs
<1> HIDE DEF R
<1>4. R \in PipeTables
  BY <1>1, <1>2, <1>3, Zenon DEF PipeTables
<1>5. Sound(R)
  BY <1>1, <1>2 DEF Sound
<1> QED
  BY <1>1, <1>2, <1>4, <1>5, Zenon DEF R

-----------------------------------------------------------------------------
(* Those who wait on pipe p have to.                                       *)
MustWait(p) ==
  /\ p.waiting["r"] # {} => p.len = 0 /\ p.open["w"]
  /\ p.waiting["w"] # {} => SpaceAvailable(p) = 0 /\ p.open["r"]

AllMustWait(q) == \A i \in PipeId : q[i] # NoPipe => MustWait(q[i])

(* Between pipe tables q and r only pids of W lose a registration.         *)
LosesOnly(q, r, W) ==
  \A i \in PipeId, e \in End :
    q[i] # NoPipe =>
      \A pid \in q[i].waiting[e] :
        pid \in W \/ (r[i] # NoPipe /\ pid \in r[i].waiting[e])

(* Counting the clone of a descriptor leaves the waiters where they are.   *)
LEMMA IncrefWaits ==
  ASSUME NEW p \in Pipe, MustWait(p), NEW e \in End, NEW k \in Nat
  PROVE  /\ MustWait(Incref(p, e, k))
         /\ Incref(p, e, k) \in Pipe
         /\ Incref(p, e, k).waiting = p.waiting
<1>1. CASE k = 0
  BY <1>1 DEF Incref
<1>2. CASE k # 0
  <2> DEFINE q == [len |-> p.len,
                   open |-> [p.open EXCEPT ![e] = TRUE],
                   refcount |-> [p.refcount EXCEPT ![e] = @ + k],
                   waiting |-> p.waiting]
  <2>1. Incref(p, e, k) = q
    BY <1>2, Zenon DEF Incref, Pipe
  <2>2. q \in Pipe /\ q.waiting = p.waiting /\ q.len = p.len
    BY DEF Pipe
  <2>3. \A d \in End : p.open[d] => q.open[d]
    BY DEF Pipe
  <2> HIDE DEF q
  <2>4. MustWait(q)
    BY <2>2, <2>3 DEF MustWait, SpaceAvailable, End
  <2> QED
    BY <2>1, <2>2, <2>4, Zenon
<1> QED
  BY <1>1, <1>2

(* Cloning a descriptor table leaves every waiter registered.              *)
LEMMA CloneWaits ==
  ASSUME NEW q \in PipeTables, AllMustWait(q), NEW t
  PROVE  /\ AllMustWait(CloneRefs(q, t))
         /\ CloneRefs(q, t) \in PipeTables
         /\ \A W : LosesOnly(q, CloneRefs(q, t), W)
<1> DEFINE r == CloneRefs(q, t)
<1>1. ASSUME NEW i \in PipeId, q[i] # NoPipe
      PROVE  r[i] \in Pipe /\ r[i] # NoPipe /\ MustWait(r[i]) /\ r[i].waiting = q[i].waiting
  <2> DEFINE a == Cardinality(FdsOf(t, i, "r"))
             b == Cardinality(FdsOf(t, i, "w"))
             p == Incref(q[i], "r", a)
  <2>1. a \in Nat /\ b \in Nat
    BY FdsOfFinite
  <2>2. q[i] \in Pipe /\ MustWait(q[i]) /\ "r" \in End /\ "w" \in End
    BY <1>1 DEF PipeTables, AllMustWait, End
  <2>3. r[i] = Incref(p, "w", b)
    BY <1>1 DEF CloneRefs
  <2> HIDE DEF a, b, r
  <2>4. MustWait(p) /\ p \in Pipe /\ p.waiting = q[i].waiting
    BY <2>1, <2>2, IncrefWaits, Zenon
  <2> HIDE DEF p
  <2> QED
    BY <2>1, <2>2, <2>3, <2>4, IncrefWaits
<1>2. /\ \A i \in PipeId : q[i] = NoPipe => r[i] = NoPipe
      /\ r = [i \in PipeId |-> r[i]]
  BY DEF CloneRefs
<1> HIDE DEF r
<1>3. r \in PipeTables
  BY <1>1, <1>2 DEF PipeTables
<1>4. AllMustWait(r) /\ \A W : LosesOnly(q, r, W)
  BY <1>1, <1>2, Zenon DEF AllMustWait, LosesOnly
<1> QED
  BY <1>3, <1>4, Zenon DEF r

(* Dropping references to an end wakes whoever loses a registration, and   *)
(* leaves no waiter on the opposite end of one that closed.                *)
LEMMA DropWaits ==
  ASSUME NEW p \in Pipe, MustWait(p), NEW e \in End, NEW k \in Nat
  PROVE  /\ MustWait(DropEnd(p, e, k))
         /\ DropEnd(p, e, k) \in Pipe
         /\ \A d \in End : \A pid \in p.waiting[d] :
              pid \in WokenByClose(p, e, k) \/ pid \in DropEnd(p, e, k).waiting[d]
<1> DEFINE r == DropEnd(p, e, k)
           o == Opposite(e)
<1>1. o \in End /\ o # e
  BY DEF Opposite, End
<1>2. p.refcount[e] \in Nat
  BY ZenonT(30) DEF Pipe
<1>3. /\ r \in Pipe /\ r.len = p.len
      /\ p.open[o] => r.open[o]
      /\ r.waiting[e] = p.waiting[e]
      /\ r.waiting[o] # {} => r.waiting[o] = p.waiting[o] /\ (p.open[e] => r.open[e])
      /\ ~ClosesEnd(p, e, k) => r.waiting[o] = p.waiting[o]
  <2>1. CASE k = 0
    BY <2>1, Zenon DEF DropEnd
  <2>2. CASE k # 0
    <3> DEFINE q == [len |-> p.len,
                     open |-> [p.open EXCEPT ![e] = p.refcount[e] > k],
                     refcount |-> [p.refcount EXCEPT ![e] = IF @ > k THEN @ - k ELSE 0],
                     waiting |-> [p.waiting EXCEPT ![o] =
                                    IF p.refcount[e] > k THEN @ ELSE {}]]
    <3> HIDE DEF o
    <3>1. DropEnd(p, e, k) = q
      BY <2>2, Zenon DEF DropEnd, Pipe, o
    <3>2. q \in Pipe /\ q.len = p.len
      BY <1>1, <1>2 DEF Pipe
    <3>3. /\ p.open[o] => q.open[o]
          /\ p.refcount[e] > k => q.open[e]
      BY <1>1, Zenon DEF Pipe
    <3>4. /\ q.waiting[e] = p.waiting[e]
          /\ q.waiting[o] = IF p.refcount[e] > k THEN p.waiting[o] ELSE {}
      BY <1>1, <1>2 DEF Pipe
    <3> HIDE DEF q
    <3>5. ~ClosesEnd(p, e, k) => p.refcount[e] > k
      BY <1>2, <2>2 DEF ClosesEnd
    <3> QED
      BY <3>1, <3>2, <3>3, <3>4, <3>5
  <2> QED
    BY <2>1, <2>2
<1> HIDE DEF r, o
<1>6. \A d \in End : d = e \/ d = o
  BY DEF o, Opposite, End
<1>7. \A d \in End : \A pid \in p.waiting[d] :
          pid \in WokenByClose(p, e, k) \/ pid \in r.waiting[d]
  BY <1>3, <1>6, Zenon DEF WokenByClose, o
<1>4. ASSUME e = "r" PROVE MustWait(r)
  <2>1. o = "w"
    BY <1>4, Zenon DEF o, Opposite
  <2> QED
    BY <1>3, <1>4, <2>1 DEF MustWait, SpaceAvailable
<1>5. ASSUME e = "w" PROVE MustWait(r)
  <2>1. o = "r"
    BY <1>5 DEF o, Opposite
  <2> QED
    BY <1>3, <1>5, <2>1 DEF MustWait, SpaceAvailable
<1>8. MustWait(r)
  BY <1>4, <1>5 DEF End
<1> QED
  BY <1>3, <1>7, <1>8 DEF r

(* Closing descriptors F of table t wakes whoever loses a registration: a  *)
(* pipe is released only once both ends are closed, and then nobody waits. *)
LEMMA CloseWaits ==
  ASSUME NEW q \in PipeTables, AllMustWait(q), NEW t, NEW F
  PROVE  /\ AllMustWait(CloseRefs(q, t, F))
         /\ LosesOnly(q, CloseRefs(q, t, F), WokenByCloses(q, t, F))
<1> DEFINE z == CloseRefs(q, t, F)
           W == WokenByCloses(q, t, F)
<1>1. ASSUME NEW i \in PipeId, q[i] # NoPipe
      PROVE  /\ z[i] # NoPipe => MustWait(z[i])
             /\ \A e \in End : \A pid \in q[i].waiting[e] :
                  pid \in W \/ (z[i] # NoPipe /\ pid \in z[i].waiting[e])
  <2> DEFINE a == Cardinality(FdsOf(t, i, "r") \cap F)
             b == Cardinality(FdsOf(t, i, "w") \cap F)
             p == DropEnd(q[i], "r", a)
             o == DropEnd(p, "w", b)
  <2>1. a \in Nat /\ b \in Nat
    BY FdsOfFinite, Zenon
  <2>2. q[i] \in Pipe /\ MustWait(q[i]) /\ "r" \in End /\ "w" \in End
    BY <1>1 DEF PipeTables, AllMustWait, End
  <2>3. z[i] = IF a + b = 0 THEN q[i] ELSE Release(o)
    BY <1>1 DEF CloseRefs
  <2>4. /\ WokenByClose(q[i], "r", a) \subseteq W
        /\ WokenByClose(q[i], "w", b) \subseteq W
    <3>1. \A e \in End :
            WokenByClose(q[i], e, Cardinality(FdsOf(t, i, e) \cap F)) \subseteq W
      <4> DEFINE K(j, d) == WokenByClose(q[j], d, Cardinality(FdsOf(t, j, d) \cap F))
                 S(j) == UNION {K(j, d) : d \in End}
                 Q == PipeId \ FreePipes(q)
      <4>1. i \in Q
        BY <1>1, Zenon DEF FreePipes
      <4>2. W = UNION {S(j) : j \in Q}
        BY Zenon DEF WokenByCloses
      <4> HIDE DEF K, Q, W
      <4>3. \A e \in End : K(i, e) \subseteq S(i)
        BY Zenon
      <4> HIDE DEF S
      <4>4. S(i) \subseteq W
        BY <4>1, <4>2, Zenon
      <4>5. \A e \in End : K(i, e) \subseteq W
        BY <4>3, <4>4, Zenon
      <4> QED
        BY <4>5, Zenon DEF K
    <3> QED
      BY <2>2, <3>1, Zenon
  <2>5. WokenByClose(p, "w", b) \subseteq WokenByClose(q[i], "w", b)
    BY <2>1, <2>2, Zenon DEF p, WokenByClose, ClosesEnd, DropEnd, Opposite, Pipe, End
  <2> HIDE DEF a, b, z, W
  <2>6. /\ MustWait(p) /\ p \in Pipe
        /\ \A d \in End : \A pid \in q[i].waiting[d] : pid \in W \/ pid \in p.waiting[d]
    BY <2>1, <2>2, <2>4, DropWaits, Zenon
  <2> HIDE DEF p
  <2>7. /\ MustWait(o) /\ o \in Pipe
        /\ \A d \in End : \A pid \in p.waiting[d] : pid \in W \/ pid \in o.waiting[d]
    BY <2>1, <2>2, <2>4, <2>5, <2>6, DropWaits, Zenon
  <2> HIDE DEF o
  <2>8. CASE a + b = 0
    BY <1>1, <2>2, <2>3, <2>8, Zenon
  <2>9. CASE a + b # 0 /\ (o.open["r"] \/ o.open["w"])
    <3>1. z[i] = o /\ o # NoPipe
      BY <2>3, <2>7, <2>9, Zenon DEF Release
    <3> QED
      BY <2>6, <2>7, <3>1, Zenon
  <2>10. CASE a + b # 0 /\ ~(o.open["r"] \/ o.open["w"])
    <3>1. z[i] = NoPipe
      BY <2>3, <2>10, Zenon DEF Release
    <3>2. \A d \in End : o.waiting[d] = {}
      BY <2>7, <2>10, Zenon DEF MustWait, End
    <3> QED
      BY <2>6, <2>7, <3>1, <3>2, Zenon
  <2> QED
    BY <2>8, <2>9, <2>10
<1>2. \A i \in PipeId : q[i] = NoPipe => z[i] = NoPipe
  BY DEF CloseRefs
<1> HIDE DEF z, W
<1>3. AllMustWait(z) /\ LosesOnly(q, z, W)
  BY <1>1, <1>2, Zenon DEF AllMustWait, LosesOnly
<1> QED
  BY <1>3, Zenon DEF z, W

-----------------------------------------------------------------------------
Registered(q, pid) ==
  \E i \in PipeId, e \in End : q[i] # NoPipe /\ pid \in q[i].waiting[e]

LiveChild(t, pid) == \E z \in Children(t, pid) : t[z].state # "Exited"

(* In process table t and pipe table q every sleeper will be woken.        *)
NoSleeperLost(t, q) ==
  \A s \in Used(t) :
    t[s].state = "Blocked" => Registered(q, t[s].pid) \/ LiveChild(t, t[s].pid)

(* Between process tables t and u, the only new sleepers are ones that     *)
(* will be woken, and of the others none is in W.                          *)
SleepersStay(t, u, r, W) ==
  \A s \in Used(u) :
    u[s].state = "Blocked" =>
      \/ Registered(r, u[s].pid)
      \/ LiveChild(u, u[s].pid)
      \/ /\ s \in Used(t) /\ t[s].state = "Blocked"
         /\ t[s].pid = u[s].pid /\ u[s].pid \notin W

(* A process that has not exited still has not, or its parent is in W.     *)
LiveStay(t, u, W) ==
  \A z \in Used(t) :
    t[z].state # "Exited" =>
      \/ t[z].parent_pid \in W
      \/ /\ z \in Used(u) /\ u[z].state # "Exited"
         /\ u[z].parent_pid = t[z].parent_pid

(* A change of the two tables that wakes all it takes a registration or a  *)
(* live child from loses no sleeper.                                       *)
LEMMA NoneLost ==
  ASSUME NEW t, NEW u, NEW q, NEW r, NEW W, NoSleeperLost(t, q),
         LosesOnly(q, r, W), SleepersStay(t, u, r, W), LiveStay(t, u, W)
  PROVE  NoSleeperLost(u, r)
<1> SUFFICES ASSUME NEW s \in Used(u), u[s].state = "Blocked",
                    ~Registered(r, u[s].pid)
             PROVE  LiveChild(u, u[s].pid)
  BY Zenon DEF NoSleeperLost
<1>1. CASE LiveChild(u, u[s].pid)
  BY <1>1, Zenon
<1>2. CASE /\ s \in Used(t) /\ t[s].state = "Blocked"
           /\ t[s].pid = u[s].pid /\ u[s].pid \notin W
  <2>1. ~Registered(q, t[s].pid)
    BY <1>2, Zenon DEF Registered, LosesOnly
  <2>2. PICK z \in Children(t, t[s].pid) : t[z].state # "Exited"
    BY <1>2, <2>1, Zenon DEF NoSleeperLost, LiveChild
  <2>3. z \in Children(u, u[s].pid) /\ u[z].state # "Exited"
    BY <1>2, <2>2, Zenon DEF LiveStay, Children, Used
  <2> QED
    BY <2>3, Zenon DEF LiveChild
<1> QED
  BY <1>1, <1>2, Zenon DEF SleepersStay

(* The change of process that ends a call loses none.                      *)
LEMMA SwitchLosesNone ==
  ASSUME NEW t \in ProcTables, NEW c \in Slot, t[c] # NoProc, NEW q,
         NoSleeperLost(t, q), MaybeSwitch(t, c)
  PROVE  NoSleeperLost(proc', q)
<1>1. CASE proc' = t
  BY <1>1
<1>2. CASE \E s \in Slot : Schedules(t, c, s) /\ proc' = Switched(t, c, s)
  <2>1. PICK s \in Slot : Schedules(t, c, s) /\ proc' = Switched(t, c, s)
    BY <1>2, Zenon
  <2>2. s \in Used(t) /\ t[s].state \in {"Ready", "Running"}
    BY <2>1, Zenon DEF Schedules, Runnable
  <2>3. LosesOnly(q, q, {})
    BY DEF LosesOnly
  <2>4. \A z \in Slot :
          /\ proc'[z] = NoProc <=> t[z] = NoProc
          /\ t[z] # NoProc =>
               /\ proc'[z].pid = t[z].pid
               /\ proc'[z].parent_pid = t[z].parent_pid
               /\ proc'[z].state = "Blocked" => t[z].state = "Blocked"
               /\ proc'[z].state = "Exited" => t[z].state = "Exited"
    BY <2>1, <2>2 DEF Switched, ProcTables, Process, States, Used
  <2>5. SleepersStay(t, proc', q, {}) /\ LiveStay(t, proc', {})
    BY <2>4 DEF SleepersStay, LiveStay, Used
  <2> QED
    BY <2>3, <2>5, NoneLost
<1> QED
  BY <1>1, <1>2 DEF MaybeSwitch

(* Unblocking W loses none, when only pids of W lose a registration.       *)
LEMMA UnblockLosesNone ==
  ASSUME NEW t \in ProcTables, NEW q, NEW r, NEW W,
         NoSleeperLost(t, q), LosesOnly(q, r, W)
  PROVE  NoSleeperLost(Unblock(t, W), r)
<1> DEFINE u == Unblock(t, W)
<1>1. \A z \in Slot :
        /\ u[z] = NoProc <=> t[z] = NoProc
        /\ t[z] # NoProc =>
             /\ u[z].pid = t[z].pid
             /\ u[z].parent_pid = t[z].parent_pid
             /\ u[z].state = "Blocked" => t[z].state = "Blocked" /\ t[z].pid \notin W
             /\ u[z].state = "Exited" => t[z].state = "Exited"
  BY Zenon DEF Unblock, ProcTables, Process, States
<1> HIDE DEF u
<1>2. SleepersStay(t, u, r, W) /\ LiveStay(t, u, W)
  BY <1>1 DEF SleepersStay, LiveStay, Used
<1> QED
  BY <1>2, NoneLost DEF u
=============================================================================
