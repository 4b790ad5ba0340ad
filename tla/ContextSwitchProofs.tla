------------------------ MODULE ContextSwitchProofs ------------------------
(***************************************************************************)
(* A process that loses the CPU gets it back as it left it, for every      *)
(* number of processes, window and program.                                *)
(***************************************************************************)
EXTENDS ContextSwitch, ExecProofs

USE ProcTableAssumption, SMTT(30)

ProcTables == [Slot -> Process \cup {NoProc}]

UniquePids(t) == \A s, u \in Used(t) : t[s].pid = t[u].pid => s = u

(* A process is younger than its parent and older than the next one.       *)
Family(t, np) ==
  \A s \in Used(t) : t[s].parent_pid < t[s].pid /\ t[s].pid < np

OnlyRuns(t, c) == \A s \in Used(t) : t[s].state = "Running" => s = c

(* Two tables with the same processes, in whatever states.                 *)
SameProcesses(t, u) ==
  \A s \in Slot :
    /\ s \in Used(t) <=> s \in Used(u)
    /\ s \in Used(t) => t[s].pid = u[s].pid /\ t[s].parent_pid = u[s].parent_pid

(* What a call of slot c leaves for maybe_switch.                          *)
BeforeSwitch(t, cur, c, np) ==
  /\ t \in ProcTables
  /\ c \in Used(t) /\ t[c].pid = cur
  /\ UniquePids(t) /\ Family(t, np) /\ OnlyRuns(t, c)

(* Slot c owns the CPU between two calls.                                  *)
Owns(t, cur, c) ==
  /\ c \in Used(t) /\ t[c].pid = cur
  /\ t[c].state \in {"Blocked", "Exited"} => Runnable(t) = {}
  /\ OnlyRuns(t, c)

CpuInv ==
  /\ proc \in ProcTables
  /\ next_pid \in Nat
  /\ UniquePids(proc) /\ Family(proc, next_pid)
  /\ \E c \in Slot : Owns(proc, current, c)

(* Entries of the table are processes.                                     *)
LEMMA UsedAreProcesses ==
  ASSUME NEW t \in ProcTables, NEW s \in Used(t)
  PROVE  /\ s \in Slot /\ t[s] \in Process
         /\ t[s].pid \in Nat \ {0} /\ t[s].parent_pid \in Nat /\ t[s].state \in States
BY DEF ProcTables, Used, Process

(* A change of states keeps what the invariant says of pids.               *)
LEMMA SameFamily ==
  ASSUME NEW t, NEW u, SameProcesses(t, u), NEW np, UniquePids(t), Family(t, np)
  PROVE  UniquePids(u) /\ Family(u, np)
BY DEF SameProcesses, UniquePids, Family, Used

(* Unblock changes states only and makes nobody Running.                   *)
LEMMA UnblockTable ==
  ASSUME NEW t \in ProcTables, NEW W
  PROVE  /\ Unblock(t, W) \in ProcTables
         /\ SameProcesses(t, Unblock(t, W))
         /\ \A c : OnlyRuns(t, c) => OnlyRuns(Unblock(t, W), c)
<1> DEFINE u == Unblock(t, W)
<1>1. ASSUME NEW s \in Slot
      PROVE  /\ u[s] \in Process \cup {NoProc}
             /\ u[s] # NoProc <=> t[s] # NoProc
             /\ t[s] # NoProc => /\ u[s].pid = t[s].pid /\ u[s].parent_pid = t[s].parent_pid
                                 /\ u[s].state = "Running" => t[s].state = "Running"
  <2>1. CASE t[s] # NoProc /\ t[s].pid \in W /\ t[s].state = "Blocked"
    <3> DEFINE x == [t[s] EXCEPT !.state = "Ready"]
    <3>1. t[s] \in Process
      BY <2>1 DEF ProcTables
    <3>2. x \in Process /\ x.pid = t[s].pid /\ x.parent_pid = t[s].parent_pid /\ x.state = "Ready"
      BY <3>1 DEF Process, States
    <3>3. u[s] = x
      BY <2>1 DEF Unblock
    <3> QED BY <2>1, <3>2, <3>3
  <2>2. CASE ~(t[s] # NoProc /\ t[s].pid \in W /\ t[s].state = "Blocked")
    <3>1. u[s] = t[s]
      BY <2>2 DEF Unblock
    <3> QED BY <3>1 DEF ProcTables
  <2> QED BY <2>1, <2>2
<1>2. u \in ProcTables
  BY <1>1 DEF ProcTables, Unblock
<1> HIDE DEF u
<1>3. SameProcesses(t, u) /\ \A c : OnlyRuns(t, c) => OnlyRuns(u, c)
  BY <1>1 DEF SameProcesses, OnlyRuns, Used
<1> QED BY <1>2, <1>3 DEF u

(* So does SetState, which the model only uses to stop a process.          *)
LEMMA SetStateTable ==
  ASSUME NEW t \in ProcTables, NEW c \in Used(t), NEW st \in {"Blocked", "Exited"}
  PROVE  /\ SetState(t, c, st) \in ProcTables
         /\ SameProcesses(t, SetState(t, c, st))
         /\ OnlyRuns(t, c) => OnlyRuns(SetState(t, c, st), c)
<1> DEFINE x == [t[c] EXCEPT !.state = st]
           u == SetState(t, c, st)
<1>1. /\ c \in Slot /\ t[c] \in Process /\ t[c] # NoProc
      /\ x \in Process /\ x.pid = t[c].pid /\ x.parent_pid = t[c].parent_pid
  BY DEF ProcTables, Used, Process, States
<1>2. u = [t EXCEPT ![c] = x]
  BY DEF SetState
<1> HIDE DEF x
<1>3. u \in ProcTables /\ u[c] = x /\ \A s \in Slot \ {c} : u[s] = t[s]
  BY <1>1, <1>2 DEF ProcTables
<1> HIDE DEF u
<1>4. SameProcesses(t, u) /\ (OnlyRuns(t, c) => OnlyRuns(u, c))
  BY <1>1, <1>3 DEF SameProcesses, OnlyRuns, Used
<1> QED BY <1>3, <1>4 DEF u

(* maybe_switch gives the CPU to a process of the table, and to one that   *)
(* can run if there is one.                                                *)
LEMMA SwitchOwns ==
  ASSUME NEW t, NEW c \in Slot, NEW np \in Nat,
         BeforeSwitch(t, current, c, np), MaybeSwitch(t, c)
  PROVE  /\ proc' \in ProcTables /\ SameProcesses(t, proc')
         /\ UniquePids(proc') /\ Family(proc', np)
         /\ \E d \in Slot : Owns(proc', current', d)
<1>1. CASE Stays(t, c)
  <2>1. proc' = t /\ current' = current
    BY <1>1 DEF MaybeSwitch
  <2>2. t[c].state \in {"Blocked", "Exited"} => Runnable(t) = {}
    BY <1>1 DEF Stays, Runnable
  <2>3. SameProcesses(t, t)
    BY DEF SameProcesses
  <2> QED BY <2>1, <2>2, <2>3 DEF Owns, BeforeSwitch
<1>2. CASE ~Stays(t, c)
  <2>1. PICK s \in Slot : /\ Schedules(t, c, s)
                          /\ proc' = Switched(t, c, s)
                          /\ current' = t[s].pid
    BY <1>2 DEF MaybeSwitch
  <2>2. s \in Used(t)
    BY <2>1 DEF Schedules, Runnable
  <2>3. t \in ProcTables /\ c \in Used(t) /\ t[c] \in Process /\ t[s] \in Process
    BY <2>2, UsedAreProcesses DEF BeforeSwitch
  <2> DEFINE pc == [t[c] EXCEPT !.state = IF @ = "Running" THEN "Ready" ELSE @]
             ps == [(IF s = c THEN pc ELSE t[s]) EXCEPT !.state = "Running"]
  <2>4. /\ pc \in Process /\ pc.pid = t[c].pid /\ pc.parent_pid = t[c].parent_pid
        /\ pc.state # "Running"
    BY <2>3 DEF Process, States
  <2>5. /\ ps \in Process /\ ps.pid = t[s].pid /\ ps.parent_pid = t[s].parent_pid
        /\ ps.state = "Running"
    BY <2>3, <2>4 DEF Process, States
  <2>6. /\ proc' \in ProcTables /\ proc'[s] = ps
        /\ \A r \in Slot \ {s} : proc'[r] = IF r = c THEN pc ELSE t[r]
    <3>1. proc' = [[t EXCEPT ![c] = pc] EXCEPT ![s] = ps]
      BY <2>1, <2>2, <2>3 DEF Switched, ProcTables, Used
    <3> HIDE DEF pc, ps
    <3> QED BY <2>3, <2>4, <2>5, <3>1 DEF ProcTables
  <2> HIDE DEF pc, ps
  <2>7. SameProcesses(t, proc')
    BY <2>2, <2>3, <2>4, <2>5, <2>6 DEF SameProcesses, Used
  <2>8. OnlyRuns(proc', s)
    <3> SUFFICES ASSUME NEW r \in Used(proc'), r # s
                 PROVE  proc'[r].state # "Running"
      BY DEF OnlyRuns
    <3>1. r \in Slot /\ r \in Used(t)
      BY <2>7 DEF SameProcesses, Used
    <3>2. r # c => t[r].state # "Running"
      BY <3>1 DEF BeforeSwitch, OnlyRuns
    <3> QED BY <2>4, <2>6, <3>1, <3>2
  <2>9. Owns(proc', current', s)
    BY <2>1, <2>2, <2>5, <2>6, <2>7, <2>8 DEF Owns, SameProcesses
  <2>10. UniquePids(proc') /\ Family(proc', np)
    BY <2>7, SameFamily DEF BeforeSwitch
  <2> QED BY <2>6, <2>7, <2>9, <2>10
<1> QED BY <1>1, <1>2

-----------------------------------------------------------------------------
(* The process that makes a call is the owner of the CPU.                  *)
LEMMA CallerOwns ==
  ASSUME CpuInv, NEW c \in Slot, Owner(c)
  PROVE  Owns(proc, current, c) /\ BeforeSwitch(proc, current, c, next_pid)
<1>1. PICK d \in Slot : Owns(proc, current, d)
  BY DEF CpuInv
<1>2. c = d
  BY <1>1 DEF CpuInv, UniquePids, Owns, Owner, Used
<1> QED BY <1>1, <1>2 DEF CpuInv, Owns, BeforeSwitch

(* Calls that change states only.                                          *)
LEMMA BeforeReturn ==
  ASSUME CpuInv, NEW c \in Slot, Owner(c), NEW W
  PROVE  /\ BeforeSwitch(Unblock(proc, W), current, c, next_pid)
         /\ SameProcesses(proc, Unblock(proc, W))
<1> DEFINE u == Unblock(proc, W)
<1>1. BeforeSwitch(proc, current, c, next_pid)
  BY CallerOwns
<1>2. u \in ProcTables /\ SameProcesses(proc, u) /\ (OnlyRuns(proc, c) => OnlyRuns(u, c))
  BY <1>1, UnblockTable DEF BeforeSwitch
<1> HIDE DEF u
<1>3. UniquePids(u) /\ Family(u, next_pid)
  BY <1>1, <1>2, SameFamily DEF BeforeSwitch
<1>4. BeforeSwitch(u, current, c, next_pid)
  BY <1>1, <1>2, <1>3 DEF BeforeSwitch, SameProcesses
<1> QED BY <1>2, <1>4 DEF u

(* What a process that blocks or exits hands to the scheduler, with the    *)
(* waiters that its call wakes.                                            *)
LEMMA BeforeStop ==
  ASSUME CpuInv, NEW c \in Slot, Owner(c), NEW st \in {"Blocked", "Exited"}, NEW W
  PROVE  /\ BeforeSwitch(SetState(proc, c, st), current, c, next_pid)
         /\ SameProcesses(proc, SetState(proc, c, st))
         /\ BeforeSwitch(Unblock(SetState(proc, c, st), W), current, c, next_pid)
         /\ SameProcesses(proc, Unblock(SetState(proc, c, st), W))
<1> DEFINE t == SetState(proc, c, st)
           u == Unblock(t, W)
<1>1. BeforeSwitch(proc, current, c, next_pid)
  BY CallerOwns
<1>2. t \in ProcTables /\ SameProcesses(proc, t) /\ OnlyRuns(t, c)
  BY <1>1, SetStateTable DEF BeforeSwitch
<1> HIDE DEF t
<1>3. u \in ProcTables /\ SameProcesses(t, u) /\ OnlyRuns(u, c)
  BY <1>2, UnblockTable
<1> HIDE DEF u
<1>4. SameProcesses(proc, u)
  BY <1>2, <1>3 DEF SameProcesses
<1>5. UniquePids(t) /\ Family(t, next_pid) /\ UniquePids(u) /\ Family(u, next_pid)
  BY <1>1, <1>2, <1>4, SameFamily DEF BeforeSwitch
<1>6. BeforeSwitch(t, current, c, next_pid) /\ BeforeSwitch(u, current, c, next_pid)
  BY <1>1, <1>2, <1>3, <1>4, <1>5 DEF BeforeSwitch, SameProcesses
<1> QED BY <1>2, <1>4, <1>6 DEF t, u

(* A spawn: the child is younger than everybody in the table.              *)
LEMMA BeforeSpawn ==
  ASSUME CpuInv, NEW c \in Slot, Owner(c), NEW s \in FreeSlots(proc)
  PROVE  LET t == [proc EXCEPT ![s] = NewProcess(next_pid, current)]
         IN  /\ BeforeSwitch(t, current, c, next_pid + 1)
             /\ s \in Slot /\ s # c /\ s \notin Used(proc) /\ Used(t) = Used(proc) \cup {s}
             /\ t[s].pid = next_pid /\ \A r \in Used(proc) : t[r].pid = proc[r].pid
<1> DEFINE x == NewProcess(next_pid, current)
           t == [proc EXCEPT ![s] = x]
<1>1. BeforeSwitch(proc, current, c, next_pid) /\ next_pid \in Nat
  BY CallerOwns DEF CpuInv
<1>2. proc \in ProcTables /\ c \in Used(proc) /\ proc[c].pid = current
      /\ s \in Slot /\ s \notin Used(proc) /\ s # c
  BY <1>1 DEF BeforeSwitch, FreeSlots, Used
<1>3. current \in Nat \ {0} /\ current < next_pid
  BY <1>1, <1>2, UsedAreProcesses DEF BeforeSwitch, Family
<1>4. /\ x \in Process /\ x # NoProc /\ x.pid = next_pid /\ x.parent_pid = current
      /\ x.state = "Ready"
  BY <1>1, <1>3 DEF NewProcess, Process, States
<1> HIDE DEF x
<1>5. t \in ProcTables /\ t[s] = x /\ \A r \in Slot \ {s} : t[r] = proc[r]
  BY <1>2, <1>4 DEF ProcTables
<1> HIDE DEF t
<1>6. Used(t) = Used(proc) \cup {s} /\ \A r \in Used(proc) : t[r] = proc[r]
  BY <1>2, <1>4, <1>5 DEF Used
<1>7. \A r \in Used(proc) : /\ proc[r].pid \in Nat /\ proc[r].parent_pid \in Nat
                             /\ proc[r].pid < next_pid /\ proc[r].parent_pid < proc[r].pid
  BY <1>1, <1>2, UsedAreProcesses DEF BeforeSwitch, Family
<1>8. UniquePids(t)
  BY <1>1, <1>4, <1>5, <1>6, <1>7 DEF BeforeSwitch, UniquePids
<1>9. Family(t, next_pid + 1)
  BY <1>1, <1>3, <1>4, <1>5, <1>6, <1>7 DEF Family
<1>10. OnlyRuns(t, c)
  BY <1>1, <1>4, <1>5, <1>6, Zenon DEF BeforeSwitch, OnlyRuns
<1>11. BeforeSwitch(t, current, c, next_pid + 1)
  BY <1>2, <1>5, <1>6, <1>8, <1>9, <1>10, Zenon DEF BeforeSwitch
<1>12. /\ BeforeSwitch(t, current, c, next_pid + 1)
       /\ s \in Slot /\ s # c /\ s \notin Used(proc) /\ Used(t) = Used(proc) \cup {s}
       /\ t[s].pid = next_pid /\ \A r \in Used(proc) : t[r].pid = proc[r].pid
  BY <1>2, <1>4, <1>5, <1>6, <1>11
<1> QED BY ONLY <1>12, Zenon DEF t, x

(* A reap: a process is not its own child.                                 *)
LEMMA BeforeReap ==
  ASSUME CpuInv, NEW c \in Slot, Owner(c), NEW z \in ExitedChildren(proc, current)
  PROVE  LET t == [proc EXCEPT ![z] = NoProc]
         IN  /\ BeforeSwitch(t, current, c, next_pid)
             /\ z \in Slot /\ z # c /\ Used(t) = Used(proc) \ {z}
             /\ \A r \in Used(t) : t[r].pid = proc[r].pid
<1> DEFINE t == [proc EXCEPT ![z] = NoProc]
<1>1. BeforeSwitch(proc, current, c, next_pid)
  BY CallerOwns
<1>2. proc \in ProcTables /\ c \in Used(proc) /\ proc[c].pid = current
      /\ z \in Slot /\ z \in Used(proc) /\ proc[z].parent_pid = current
  BY <1>1 DEF BeforeSwitch, ExitedChildren, Children, Used
<1>3. z # c
  BY <1>1, <1>2, UsedAreProcesses DEF BeforeSwitch, Family
<1>4. t \in ProcTables /\ t[z] = NoProc /\ \A r \in Slot \ {z} : t[r] = proc[r]
  BY <1>2 DEF ProcTables
<1> HIDE DEF t
<1>5. Used(t) = Used(proc) \ {z} /\ \A r \in Used(t) : t[r] = proc[r]
  BY <1>2, <1>4 DEF Used
<1>6. BeforeSwitch(t, current, c, next_pid)
  BY <1>1, <1>2, <1>3, <1>4, <1>5 DEF BeforeSwitch, UniquePids, Family, OnlyRuns
<1>7. /\ BeforeSwitch(t, current, c, next_pid)
      /\ z \in Slot /\ z # c /\ Used(t) = Used(proc) \ {z}
      /\ \A r \in Used(t) : t[r].pid = proc[r].pid
  BY <1>2, <1>3, <1>5, <1>6
<1> QED BY ONLY <1>7, Zenon DEF t

-----------------------------------------------------------------------------
(* The fields of a saved context and of the machine.                       *)
IsContext(x) ==
  x = [pc |-> x.pc, sp |-> x.sp, argc |-> x.argc, argv |-> x.argv, memory |-> x.memory,
       started |-> x.started]

IsMachine(m) == m = [pc |-> m.pc, sp |-> m.sp, a0 |-> m.a0, window |-> m.window]

Contexts(f) == f = [s \in Slot |-> f[s]] /\ \A s \in Slot : IsContext(f[s])

(* What Save and the end of Restore leave of a context.                    *)
LEMMA SavedContext ==
  ASSUME NEW x, IsContext(x), NEW m
  PROVE  Save(x, m) = [pc |-> m.pc, sp |-> m.sp, argc |-> x.argc, argv |-> x.argv,
                       memory |-> m.window, started |-> x.started]
<1> DEFINE y == [x EXCEPT !.pc = m.pc]
           z == [y EXCEPT !.sp = m.sp]
<1>1. Save(x, m) = [z EXCEPT !.memory = m.window]
  BY DEF IsContext, Save
<1>2. /\ IsContext(y)
      /\ y = [pc |-> m.pc, sp |-> x.sp, argc |-> x.argc, argv |-> x.argv,
              memory |-> x.memory, started |-> x.started]
  BY DEF IsContext
<1> HIDE DEF y
<1>3. /\ IsContext(z)
      /\ z = [pc |-> m.pc, sp |-> m.sp, argc |-> x.argc, argv |-> x.argv,
              memory |-> x.memory, started |-> x.started]
  BY <1>2 DEF IsContext
<1> HIDE DEF z
<1>4. [z EXCEPT !.memory = m.window]
        = [pc |-> m.pc, sp |-> m.sp, argc |-> x.argc, argv |-> x.argv,
           memory |-> m.window, started |-> x.started]
  BY <1>3 DEF IsContext
<1> QED BY <1>1, <1>4, Zenon

(* Marking a context as started changes nothing else of it.                *)
LEMMA StartedContext ==
  ASSUME NEW x, IsContext(x), NEW b
  PROVE  [x EXCEPT !.started = b]
           = [pc |-> x.pc, sp |-> x.sp, argc |-> x.argc, argv |-> x.argv,
              memory |-> x.memory, started |-> b]
BY DEF IsContext

(* After a step the process of slot s, on the CPU or in its entry, is at   *)
(* program counter pc with stack pointer sp and in memory w.               *)
LeftWith(s, pc, sp, w) ==
  IF proc'[s].pid = current'
  THEN hw'.pc = pc /\ hw'.sp = sp /\ hw'.window = w
  ELSE saved'[s].pc = pc /\ saved'[s].sp = sp /\ saved'[s].memory = w

(* maybe_switch takes nothing from anybody: the caller keeps what the call *)
(* left on the machine, the others what their entries hold.                *)
LEMMA SwitchKeeps ==
  ASSUME NEW t, NEW c \in Slot, NEW np \in Nat, NEW m, NEW ctx,
         BeforeSwitch(t, current, c, np), MaybeSwitch(t, c),
         IsMachine(m), Contexts(ctx), Switch(c, m, ctx)
  PROVE  /\ IsMachine(hw') /\ Contexts(saved')
         /\ LeftWith(c, m.pc, m.sp, m.window)
         /\ \A s \in Used(t) \ {c} : LeftWith(s, ctx[s].pc, ctx[s].sp, ctx[s].memory)
         /\ \A s \in Slot : saved'[s].argv = ctx[s].argv
<1> DEFINE one == Save(ctx[c], m)
           kept == IF Saves(c) THEN [ctx EXCEPT ![c] = Save(@, m)] ELSE ctx
<1>1. /\ proc' \in ProcTables /\ SameProcesses(t, proc')
      /\ UniquePids(proc') /\ \E d \in Slot : Owns(proc', current', d)
  BY SwitchOwns
<1>2. /\ IsContext(one) /\ one.pc = m.pc /\ one.sp = m.sp /\ one.memory = m.window
      /\ one.argv = ctx[c].argv
  <2>1. one = [pc |-> m.pc, sp |-> m.sp, argc |-> ctx[c].argc, argv |-> ctx[c].argv,
               memory |-> m.window, started |-> ctx[c].started]
    <3>1. IsContext(ctx[c])
      BY DEF Contexts
    <3> QED BY <3>1, SavedContext, Zenon
  <2> HIDE DEF one
  <2> QED BY <2>1, Zenon DEF IsContext
<1> HIDE DEF one
<1>3. /\ Contexts(kept)
      /\ \A s \in Slot : kept[s].argv = ctx[s].argv
      /\ \A s \in Slot \ {c} : kept[s] = ctx[s]
      /\ Saves(c) => kept[c] = one
  <2>1. CASE Saves(c)
    <3>1. kept = [s \in Slot |-> IF s = c THEN one ELSE ctx[s]]
      BY <2>1, Zenon DEF Contexts, one
    <3> HIDE DEF kept
    <3> QED BY <1>2, <3>1, Zenon DEF Contexts
  <2>2. CASE ~Saves(c)
    BY <2>2, Zenon
  <2> QED BY <2>1, <2>2
<1>4. \/ current' = current /\ hw' = m /\ saved' = kept
      \/ /\ current' # current
         /\ \E s \in Slot :
              /\ proc'[s] # NoProc /\ proc'[s].pid = current'
              /\ hw' = Restore(kept[s], m)
              /\ saved' = [kept EXCEPT ![s].started = TRUE]
  BY Zenon DEF Switch
<1>5. current' # current => Saves(c)
  BY DEF Saves
<1> HIDE DEF kept
<1>6. /\ \A s \in Used(t) : s \in Slot /\ s \in Used(proc') /\ proc'[s].pid = t[s].pid
      /\ c \in Used(t) /\ t[c].pid = current
  BY <1>1, Zenon DEF SameProcesses, BeforeSwitch, Used
<1>7. CASE current' = current /\ hw' = m /\ saved' = kept
  <2>1. proc'[c].pid = current' /\ \A s \in Used(t) \ {c} : proc'[s].pid # current'
    BY <1>1, <1>6, <1>7, Zenon DEF UniquePids
  <2> QED BY <1>3, <1>6, <1>7, <2>1, Zenon DEF LeftWith
<1>8. ASSUME current' # current, NEW s \in Slot,
             proc'[s] # NoProc, proc'[s].pid = current',
             hw' = Restore(kept[s], m), saved' = [kept EXCEPT ![s].started = TRUE]
      PROVE  /\ IsMachine(hw') /\ Contexts(saved')
             /\ LeftWith(c, m.pc, m.sp, m.window)
             /\ \A r \in Used(t) \ {c} : LeftWith(r, ctx[r].pc, ctx[r].sp, ctx[r].memory)
             /\ \A r \in Slot : saved'[r].argv = ctx[r].argv
  <2>1. s # c /\ proc'[c].pid # current'
    BY <1>6, <1>8
  <2>2. \A r \in Used(t) \ {s} : proc'[r].pid # current'
    BY <1>1, <1>6, <1>8 DEF UniquePids, Used
  <2> DEFINE k == kept[s]
  <2>3. IsContext(k)
    BY <1>3 DEF Contexts
  <2>4. /\ IsMachine(hw') /\ hw'.pc = k.pc /\ hw'.sp = k.sp /\ hw'.window = k.memory
    <3>1. hw' = [pc |-> k.pc, sp |-> k.sp, a0 |-> IF k.started THEN m.a0 ELSE k.argc,
                 window |-> k.memory]
      BY <1>8, Zenon DEF Restore, IsMachine
    <3> HIDE DEF k
    <3> QED BY <3>1, Zenon DEF IsMachine
  <2> DEFINE new == [pc |-> k.pc, sp |-> k.sp, argc |-> k.argc, argv |-> k.argv,
                     memory |-> k.memory, started |-> TRUE]
  <2>5. saved' = [r \in Slot |-> IF r = s THEN new ELSE kept[r]]
    <3>1. [k EXCEPT !.started = TRUE] = new
      BY <2>3, StartedContext, Zenon
    <3>2. saved' = [kept EXCEPT ![s] = [k EXCEPT !.started = TRUE]]
      BY <1>8, Zenon
    <3> HIDE DEF new
    <3> QED BY <1>3, <3>1, <3>2, Zenon DEF Contexts
  <2>6. IsContext(new) /\ new.argv = k.argv
    BY Zenon DEF IsContext
  <2> HIDE DEF new, k
  <2>7. Contexts(saved') /\ saved'[s].argv = k.argv /\ \A r \in Slot \ {s} : saved'[r] = kept[r]
    BY <1>3, <2>5, <2>6, Zenon DEF Contexts
  <2>8. \A r \in Slot : saved'[r].argv = ctx[r].argv
    BY <1>3, <2>7 DEF k
  <2>9. LeftWith(c, m.pc, m.sp, m.window)
    <3>1. saved'[c] = one
      BY <1>3, <1>5, <1>8, <2>1, <2>7, Zenon
    <3> QED BY <1>2, <2>1, <3>1 DEF LeftWith
  <2>10. ASSUME NEW r \in Used(t) \ {c}
         PROVE  LeftWith(r, ctx[r].pc, ctx[r].sp, ctx[r].memory)
    <3>1. r \in Slot /\ kept[r] = ctx[r]
      BY <1>3, <1>6
    <3>2. CASE r = s
      BY <1>8, <2>4, <3>1, <3>2, Zenon DEF LeftWith, k
    <3>3. CASE r # s
      BY <2>2, <2>7, <3>1, <3>3, Zenon DEF LeftWith
    <3> QED BY <3>2, <3>3
  <2> QED BY <2>4, <2>7, <2>8, <2>9, <2>10
<1> QED BY <1>4, <1>7, <1>8

-----------------------------------------------------------------------------
(* get_arg finds the arguments of x, and the segments of x are in place.   *)
Carries(bytes, argv, x) ==
  /\ \A i \in DOMAIN x.args : GetArg(bytes, argv, i - 1) = Shortened(x.args[i])
  /\ \A b \in Expected[x] : bytes[b[1]] = b[2]

(* What the process of a slot can rely on, with pc, sp and w as it has     *)
(* them and argv as its entry has it.                                      *)
InOrder(stamp, pc, sp, w) == pc = stamp /\ sp = stamp /\ w.own = stamp /\ w.bytes \in Image

SlotInv(s) ==
  /\ IF proc[s].pid = current
     THEN InOrder(Latest(s), hw.pc, hw.sp, hw.window)
     ELSE InOrder(Latest(s), saved[s].pc, saved[s].sp, saved[s].memory)
  /\ ~spoiled[s] => Carries(Memory(s).bytes, saved[s].argv, started[s])

(* The inductive invariant.                                                *)
CtxInv ==
  /\ CpuInv
  /\ calls \in [Slot -> 0 .. CallMod - 1]
  /\ started \in [Slot -> Programs \cup {Shell}]
  /\ DOMAIN spoiled = Slot
  /\ IsMachine(hw) /\ Contexts(saved)
  /\ \A s \in Used(proc) : SlotInv(s)

(* A call keeps the invariant if what it leaves on the machine is right    *)
(* for its caller, and what it leaves in the table for everybody else.     *)
LEMMA CallKeeps ==
  ASSUME NEW t, NEW c \in Slot, NEW m, NEW ctx,
         next_pid' \in Nat, BeforeSwitch(t, current, c, next_pid'), MaybeSwitch(t, c),
         IsMachine(m), Contexts(ctx), Switch(c, m, ctx),
         calls' \in [Slot -> 0 .. CallMod - 1],
         started' \in [Slot -> Programs \cup {Shell}], DOMAIN spoiled' = Slot,
         InOrder(At(current, calls'[c]), m.pc, m.sp, m.window),
         ~spoiled'[c] => Carries(m.window.bytes, ctx[c].argv, started'[c]),
         \A s \in Used(t) \ {c} :
           /\ InOrder(At(t[s].pid, calls'[s]), ctx[s].pc, ctx[s].sp, ctx[s].memory)
           /\ ~spoiled'[s] => Carries(ctx[s].memory.bytes, ctx[s].argv, started'[s])
  PROVE  CtxInv'
<1>1. PICK np \in Nat : np = next_pid'
  BY Zenon
<1>2. /\ proc' \in ProcTables /\ SameProcesses(t, proc')
      /\ UniquePids(proc') /\ Family(proc', np)
      /\ \E d \in Slot : Owns(proc', current', d)
  BY <1>1, SwitchOwns, Zenon
<1>3. CpuInv'
  BY <1>1, <1>2, Zenon DEF CpuInv
<1>4. /\ IsMachine(hw') /\ Contexts(saved')
      /\ LeftWith(c, m.pc, m.sp, m.window)
      /\ \A s \in Used(t) \ {c} : LeftWith(s, ctx[s].pc, ctx[s].sp, ctx[s].memory)
      /\ \A s \in Slot : saved'[s].argv = ctx[s].argv
  BY <1>1, SwitchKeeps
<1>5. ASSUME NEW s \in Used(proc')
      PROVE  SlotInv(s)'
  <2>1. s \in Slot /\ s \in Used(t) /\ proc'[s].pid = t[s].pid
    BY <1>2, Zenon DEF SameProcesses, Used
  <2>2. ASSUME NEW pc, NEW sp, NEW w, LeftWith(s, pc, sp, w),
               InOrder(At(t[s].pid, calls'[s]), pc, sp, w),
               ~spoiled'[s] => Carries(w.bytes, ctx[s].argv, started'[s])
        PROVE  SlotInv(s)'
    <3>1. Latest(s)' = At(t[s].pid, calls'[s])
      BY <2>1 DEF Latest
    <3>2. CASE proc'[s].pid = current'
      BY <1>4, <2>1, <2>2, <3>1, <3>2, Zenon DEF LeftWith, SlotInv, Memory
    <3>3. CASE proc'[s].pid # current'
      BY <1>4, <2>1, <2>2, <3>1, <3>3, Zenon DEF LeftWith, SlotInv, Memory
    <3> QED BY <3>2, <3>3, Zenon
  <2>3. t[c].pid = current
    BY DEF BeforeSwitch
  <2>4. CASE s = c
    BY <1>4, <2>2, <2>3, <2>4, ZenonT(30)
  <2>5. CASE s # c
    BY <1>4, <2>1, <2>2, <2>5
  <2> QED BY <2>4, <2>5, Zenon
<1> QED BY <1>3, <1>4, <1>5, Zenon DEF CtxInv

(* What the assumptions say of a program.                                  *)
LEMMA ProgramFacts ==
  ASSUME NEW x \in Programs \cup {Shell}
  PROVE  /\ x.file.headers \in Headers /\ x.args \in Arguments
         /\ \/ BuildUserStack(NoImage.window, x.args).failed
            \/ BuildUserStack(NoImage.window, x.args).sp >= USER_IMAGE_BASE
BY ContextAssumption, Zenon

(* The zeroed window that the first program is loaded into.                *)
LEMMA EmptyImage == NoImage.window \in Image
BY ExecAssumption DEF NoImage, Image, Byte

(* A stack built over the segments of a program completes its image, the   *)
(* segments being in place up to where the stack begins.                   *)
LEMMA StackCompletes ==
  ASSUME NEW w \in Image, NEW v \in Image, NEW x \in Programs \cup {Shell}, Loads(x.file),
         NEW image, image = BuildUserStack(v, x.args), ~image.failed,
         \A a \in Window : a < image.sp => v[a] = LoadIntoUserWindow(w, x.file)[a]
  PROVE  Carries(image.window, image.argv, x)
<1> DEFINE file == x.file
           L == LoadIntoUserWindow(w, file)
           E == LoadIntoUserWindow(NoImage.window, file)
           plain == BuildUserStack(NoImage.window, x.args)
           empty == Built(NoImage.window, x)
<1>1. file.headers \in Headers /\ x.args \in Arguments /\ (plain.failed \/ plain.sp >= USER_IMAGE_BASE)
  BY ProgramFacts, Zenon
<1>2. /\ L \in Image
      /\ \A k \in Loaded(file) : \A i \in 0 .. file.headers[k].memsz - 1 :
           Place(file, k, i) \in Window /\ ~Covered(file, k, Place(file, k, i)) =>
             L[Place(file, k, i)] = Content(file.headers[k], i)
  BY <1>1, LoadFine, ZenonT(30)
<1>3. E \in Image
  BY <1>1, EmptyImage, LoadFine, Zenon
<1>4. ~plain.failed /\ image.sp = plain.sp
  <2>1. image.failed = plain.failed /\ (~plain.failed => image.sp = plain.sp)
    BY <1>1, EmptyImage, BuildAlike, Zenon
  <2> QED BY <2>1, Zenon
<1>5. ~empty.failed /\ image.sp = empty.sp
  BY <1>1, <1>3, BuildAlike, Zenon DEF Built
<1>6. /\ \A a \in Window : a < image.sp => image.window[a] = v[a]
      /\ image.sp >= USER_IMAGE_BASE => \A i \in 1 .. Len(x.args) :
           GetArg(image.window, image.argv, i - 1) = Shortened(x.args[i])
  BY <1>1, BuildFine, Zenon
<1>7. DOMAIN x.args = 1 .. Len(x.args)
  BY <1>1, ArgumentFacts
<1>8. \A i \in DOMAIN x.args : GetArg(image.window, image.argv, i - 1) = Shortened(x.args[i])
  BY <1>1, <1>4, <1>6, <1>7, Zenon
<1> HIDE DEF L, E, plain, empty
<1>9. ASSUME NEW b \in Expected[x] PROVE image.window[b[1]] = b[2]
  <2> DEFINE Open(k) == {j \in 0 .. file.headers[k].memsz - 1 : ~Covered(file, k, Place(file, k, j))}
             Bytes(k) == {<<Place(file, k, i), Content(file.headers[k], i)>> : i \in Open(k)}
  <2>1. Expected[x] = {c \in UNION {Bytes(k) : k \in Loaded(file)} : c[1] < empty.sp}
    BY <1>5, Zenon DEF Expected, empty
  <2>2. PICK k \in Loaded(file) : b \in Bytes(k)
    <3> HIDE DEF Bytes
    <3> QED BY <1>9, <2>1, Zenon
  <2>3. PICK i \in 0 .. file.headers[k].memsz - 1 :
          ~Covered(file, k, Place(file, k, i)) /\ b = <<Place(file, k, i), Content(file.headers[k], i)>>
    BY <2>2, Zenon
  <2>4. b[1] = Place(file, k, i) /\ b[2] = Content(file.headers[k], i)
    BY <2>3
  <2>5. b[1] < image.sp
    <3> HIDE DEF Bytes
    <3> QED BY <1>5, <1>9, <2>1, Zenon
  <2>6. b[1] \in Window
    <3>1. Place(file, k, i) \in Window
      BY <1>1, PlacedInside, Zenon
    <3> QED BY <2>4, <3>1, Zenon
  <2>7. L[b[1]] = b[2]
    BY <1>2, <2>3, <2>4, <2>6, Zenon
  <2> QED BY <1>6, <2>5, <2>6, <2>7, Zenon DEF L
<1> QED BY <1>8, <1>9, Zenon DEF Carries

(* An image that was built carries its program and its arguments.          *)
LEMMA BuiltFine ==
  ASSUME NEW w \in Image, NEW x \in Programs \cup {Shell}, Loads(x.file)
  PROVE  /\ Built(w, x).window \in Image
         /\ ~Built(w, x).failed => Carries(Built(w, x).window, Built(w, x).argv, x)
<1> DEFINE L == LoadIntoUserWindow(w, x.file)
<1>1. x.file.headers \in Headers /\ x.args \in Arguments
  BY ProgramFacts, Zenon
<1>2. L \in Image
  BY <1>1, LoadFine, Zenon
<1>3. Built(w, x).window \in Image
  BY <1>1, <1>2, BuildFine, Zenon DEF Built
<1>4. Built(w, x) = BuildUserStack(L, x.args)
  BY DEF Built
<1>5. ASSUME ~Built(w, x).failed PROVE Carries(Built(w, x).window, Built(w, x).argv, x)
  BY <1>2, <1>4, <1>5, StackCompletes, Zenon
<1> QED BY <1>3, <1>5

(* So does the shell's, whose stack is built a second time.                *)
LEMMA ShellFine ==
  LET image == BuildUserStack(Built(NoImage.window, Shell).window, Shell.args)
  IN  image.window \in Image /\ Carries(image.window, image.argv, Shell)
<1> DEFINE L == LoadIntoUserWindow(NoImage.window, Shell.file)
           first == BuildUserStack(L, Shell.args)
           image == BuildUserStack(first.window, Shell.args)
<1>1. /\ Shell.file.headers \in Headers /\ Shell.args \in Arguments
      /\ Loads(Shell.file) /\ ~first.failed /\ first = Built(NoImage.window, Shell)
  BY ContextAssumption, ProgramFacts, Zenon DEF Built
<1>2. L \in Image
  BY <1>1, EmptyImage, LoadFine, Zenon
<1>3. first.window \in Image /\ \A a \in Window : a < first.sp => first.window[a] = L[a]
  BY <1>1, <1>2, BuildFine, Zenon
<1>4. image.window \in Image
  BY <1>1, <1>3, BuildFine, Zenon
<1>5. ~image.failed /\ image.sp = first.sp
  BY <1>1, <1>2, <1>3, BuildAlike, Zenon
<1>6. \A a \in Window : a < image.sp => first.window[a] = L[a]
  BY <1>3, <1>5, Zenon
<1>7. Carries(image.window, image.argv, Shell)
  <2> HIDE DEF image
  <2>1. image = BuildUserStack(first.window, Shell.args)
    BY Zenon DEF image
  <2> QED BY <1>1, <1>3, <1>5, <1>6, <2>1, EmptyImage, StackCompletes, Zenon
<1> QED BY ONLY <1>1, <1>4, <1>7, Zenon DEF image

(* What the invariant says of the caller of a call and of the others.      *)
LEMMA CallerAndOthers ==
  ASSUME CtxInv, NEW c \in Slot, Owner(c)
  PROVE  /\ c \in Used(proc) /\ proc[c].pid = current /\ CpuInv
         /\ hw.window.bytes \in Image
         /\ ~spoiled[c] => Carries(hw.window.bytes, saved[c].argv, started[c])
         /\ \A s \in Used(proc) \ {c} :
              /\ InOrder(At(proc[s].pid, calls[s]), saved[s].pc, saved[s].sp, saved[s].memory)
              /\ ~spoiled[s] => Carries(saved[s].memory.bytes, saved[s].argv, started[s])
<1>1. c \in Used(proc) /\ proc[c].pid = current /\ CpuInv
  BY DEF Owner, Used, CtxInv
<1>2. \A s \in Used(proc) \ {c} : proc[s].pid # current
  BY <1>1 DEF CpuInv, UniquePids
<1>3. \A s \in Used(proc) : SlotInv(s)
  BY DEF CtxInv
<1>4. /\ hw.window.bytes \in Image
      /\ ~spoiled[c] => Carries(hw.window.bytes, saved[c].argv, started[c])
  BY <1>1, <1>3, Zenon DEF SlotInv, Memory, InOrder
<1>5. ASSUME NEW s \in Used(proc) \ {c}
      PROVE  /\ InOrder(At(proc[s].pid, calls[s]), saved[s].pc, saved[s].sp, saved[s].memory)
             /\ ~spoiled[s] => Carries(saved[s].memory.bytes, saved[s].argv, started[s])
  <2>1. SlotInv(s) /\ proc[s].pid # current
    BY <1>2, <1>3
  <2> QED BY <2>1, Zenon DEF SlotInv, Memory, Latest
<1> QED BY <1>1, <1>4, <1>5, Zenon

(* The machine at the end of a call, with whatever bytes in the window.    *)
LEMMA CallerMachine ==
  ASSUME CtxInv, NEW c \in Slot, NEW bytes \in Image
  PROVE  LET m == Machine(At(current, (calls[c] + 1) % CallMod), bytes)
         IN  /\ IsMachine(m) /\ m.window.bytes = bytes
             /\ InOrder(At(current, Counted(c)[c]), m.pc, m.sp, m.window)
             /\ Counted(c) \in [Slot -> 0 .. CallMod - 1]
             /\ \A s \in Slot \ {c} : Counted(c)[s] = calls[s]
<1> DEFINE n == (calls[c] + 1) % CallMod
           m == Machine(At(current, n), bytes)
<1>1. calls \in [Slot -> 0 .. CallMod - 1] /\ calls[c] \in Nat /\ CallMod \in Nat \ {0}
  BY ContextAssumption DEF CtxInv
<1>2. n \in 0 .. CallMod - 1
  BY <1>1
<1>3. Counted(c) = [calls EXCEPT ![c] = n]
  BY DEF Counted
<1> HIDE DEF n
<1>4. /\ Counted(c)[c] = n /\ Counted(c) \in [Slot -> 0 .. CallMod - 1]
      /\ \A s \in Slot \ {c} : Counted(c)[s] = calls[s]
  BY <1>1, <1>2, <1>3
<1>5. /\ IsMachine(m) /\ m.window.bytes = bytes
      /\ InOrder(At(current, n), m.pc, m.sp, m.window)
  BY Zenon DEF Machine, IsMachine, InOrder
<1> HIDE DEF m
<1>6. /\ IsMachine(m) /\ m.window.bytes = bytes
      /\ InOrder(At(current, Counted(c)[c]), m.pc, m.sp, m.window)
      /\ Counted(c) \in [Slot -> 0 .. CallMod - 1]
      /\ \A s \in Slot \ {c} : Counted(c)[s] = calls[s]
  BY <1>4, <1>5, Zenon
<1> QED BY ONLY <1>6, Zenon DEF m, n

(* A call that leaves the table's processes, the contexts and the window   *)
(* as they are.                                                            *)
LEMMA QuietCallKeeps ==
  ASSUME CtxInv, NEW c \in Slot, Owner(c), NEW t,
         BeforeSwitch(t, current, c, next_pid), SameProcesses(proc, t), MaybeSwitch(t, c),
         Switch(c, Trapped(c), saved), calls' = Counted(c),
         UNCHANGED <<next_pid, started, spoiled>>
  PROVE  CtxInv'
<1> DEFINE m == Trapped(c)
<1>1. /\ c \in Used(proc) /\ proc[c].pid = current /\ CpuInv
      /\ hw.window.bytes \in Image
      /\ ~spoiled[c] => Carries(hw.window.bytes, saved[c].argv, started[c])
      /\ \A s \in Used(proc) \ {c} :
           /\ InOrder(At(proc[s].pid, calls[s]), saved[s].pc, saved[s].sp, saved[s].memory)
           /\ ~spoiled[s] => Carries(saved[s].memory.bytes, saved[s].argv, started[s])
  BY CallerAndOthers, Zenon
<1>2. /\ IsMachine(m) /\ m.window.bytes = hw.window.bytes
      /\ InOrder(At(current, Counted(c)[c]), m.pc, m.sp, m.window)
      /\ Counted(c) \in [Slot -> 0 .. CallMod - 1]
      /\ \A s \in Slot \ {c} : Counted(c)[s] = calls[s]
  BY <1>1, CallerMachine, Zenon DEF Trapped
<1> HIDE DEF m
<1>3. ASSUME NEW s \in Used(t) \ {c}
      PROVE  /\ InOrder(At(t[s].pid, calls'[s]), saved[s].pc, saved[s].sp, saved[s].memory)
             /\ ~spoiled'[s] => Carries(saved[s].memory.bytes, saved[s].argv, started'[s])
  <2>1. s \in Slot /\ s \in Used(proc) \ {c} /\ t[s].pid = proc[s].pid /\ calls'[s] = calls[s]
    BY <1>2 DEF SameProcesses, Used
  <2> QED BY <1>1, <2>1, Zenon
<1>4. next_pid' \in Nat /\ Contexts(saved) /\ DOMAIN spoiled' = Slot
      /\ started' \in [Slot -> Programs \cup {Shell}]
  BY DEF CtxInv, CpuInv
<1>5. Switch(c, m, saved) /\ BeforeSwitch(t, current, c, next_pid')
  BY Zenon DEF m
<1>6. /\ InOrder(At(current, calls'[c]), m.pc, m.sp, m.window)
      /\ ~spoiled'[c] => Carries(m.window.bytes, saved[c].argv, started'[c])
      /\ calls' \in [Slot -> 0 .. CallMod - 1]
  BY <1>1, <1>2
<1> QED BY <1>2, <1>3, <1>4, <1>5, <1>6, CallKeeps, Zenon

(* A system call that neither reaps nor spawns keeps every process's       *)
(* place, memory, program and arguments.                                   *)
LEMMA PlainKeeps ==
  ASSUME CtxInv, NEW c \in Slot, Owner(c), Plain(c)
  PROVE  CtxInv'
<1>1. CpuInv /\ Switch(c, Trapped(c), saved) /\ calls' = Counted(c) /\ UNCHANGED <<started, spoiled>>
  BY DEF CtxInv, Plain
<1>2. ASSUME NEW W, Returns(c, W)
      PROVE  CtxInv'
  <2> DEFINE t == Unblock(proc, W)
  <2>1. BeforeSwitch(t, current, c, next_pid) /\ SameProcesses(proc, t)
    BY <1>1, BeforeReturn
  <2>2. MaybeSwitch(t, c) /\ UNCHANGED <<next_pid, started, spoiled>>
    BY <1>1, <1>2, Zenon DEF Returns
  <2> HIDE DEF t
  <2> QED BY <1>1, <2>1, <2>2, QuietCallKeeps, Zenon
<1>3. ASSUME NEW W, Exits(c, W)
      PROVE  CtxInv'
  <2> DEFINE t == Unblock(SetState(proc, c, "Exited"), W)
  <2>1. BeforeSwitch(t, current, c, next_pid) /\ SameProcesses(proc, t)
    BY <1>1, BeforeStop
  <2>2. MaybeSwitch(t, c) /\ UNCHANGED <<next_pid, started, spoiled>>
    BY <1>1, <1>3, Zenon DEF Exits
  <2> HIDE DEF t
  <2> QED BY <1>1, <2>1, <2>2, QuietCallKeeps
<1>4. ASSUME Blocks(c)
      PROVE  CtxInv'
  <2> DEFINE t == SetState(proc, c, "Blocked")
  <2>1. BeforeSwitch(t, current, c, next_pid) /\ SameProcesses(proc, t)
    BY <1>1, BeforeStop
  <2>2. MaybeSwitch(t, c) /\ UNCHANGED <<next_pid, started, spoiled>>
    BY <1>1, <1>4 DEF Blocks
  <2> HIDE DEF t
  <2> QED BY <1>1, <2>1, <2>2, QuietCallKeeps
<1> QED BY <1>2, <1>3, <1>4, Zenon DEF Plain

(* What a context is made of when a slot is filled or emptied.             *)
LEMMA Freshly ==
  ASSUME NEW pid, NEW image, NEW s \in Slot, Contexts(saved)
  PROVE  LET x == FreshContext(pid, image)
             ctx == [saved EXCEPT ![s] = x]
         IN  /\ Contexts(ctx) /\ ctx[s] = x /\ \A r \in Slot \ {s} : ctx[r] = saved[r]
             /\ x.pc = At(pid, 0) /\ x.sp = At(pid, 0) /\ x.argv = image.argv
             /\ x.memory.own = At(pid, 0) /\ x.memory.bytes = image.window
<1> DEFINE x == FreshContext(pid, image)
           ctx == [saved EXCEPT ![s] = x]
<1>1. /\ IsContext(x)
      /\ x.pc = At(pid, 0) /\ x.sp = At(pid, 0) /\ x.argv = image.argv
      /\ x.memory.own = At(pid, 0) /\ x.memory.bytes = image.window
  BY Zenon DEF FreshContext, IsContext
<1> HIDE DEF x
<1>2. Contexts(ctx) /\ ctx[s] = x /\ \A r \in Slot \ {s} : ctx[r] = saved[r]
  <2>1. ctx = [r \in Slot |-> IF r = s THEN x ELSE saved[r]]
    BY Zenon DEF Contexts
  <2> HIDE DEF ctx
  <2> QED BY <1>1, <2>1, Zenon DEF Contexts
<1> HIDE DEF ctx
<1>3. /\ Contexts(ctx) /\ ctx[s] = x /\ \A r \in Slot \ {s} : ctx[r] = saved[r]
      /\ x.pc = At(pid, 0) /\ x.sp = At(pid, 0) /\ x.argv = image.argv
      /\ x.memory.own = At(pid, 0) /\ x.memory.bytes = image.window
  BY <1>1, <1>2, Zenon
<1> QED BY ONLY <1>3, Zenon DEF ctx, x

(* wait_for_child clears the slot of the child and leaves the contexts of  *)
(* all others alone.                                                       *)
LEMMA ReapKeeps ==
  ASSUME CtxInv, NEW c \in Slot, Owner(c), NEW z \in Slot, Reap(c, z)
  PROVE  CtxInv'
<1> DEFINE m == Trapped(c)
           x == FreshContext(1, NoImage)
           ctx == [saved EXCEPT ![z] = x]
           t == [proc EXCEPT ![z] = NoProc]
<1>1. /\ c \in Used(proc) /\ proc[c].pid = current /\ CpuInv
      /\ hw.window.bytes \in Image
      /\ ~spoiled[c] => Carries(hw.window.bytes, saved[c].argv, started[c])
      /\ \A s \in Used(proc) \ {c} :
           /\ InOrder(At(proc[s].pid, calls[s]), saved[s].pc, saved[s].sp, saved[s].memory)
           /\ ~spoiled[s] => Carries(saved[s].memory.bytes, saved[s].argv, started[s])
  BY CallerAndOthers, Zenon
<1>2. /\ IsMachine(m) /\ m.window.bytes = hw.window.bytes
      /\ InOrder(At(current, Counted(c)[c]), m.pc, m.sp, m.window)
      /\ Counted(c) \in [Slot -> 0 .. CallMod - 1]
      /\ \A s \in Slot \ {c} : Counted(c)[s] = calls[s]
  BY <1>1, CallerMachine, Zenon DEF Trapped
<1>3. /\ BeforeSwitch(t, current, c, next_pid) /\ MaybeSwitch(t, c) /\ next_pid' = next_pid
      /\ z # c /\ Used(t) = Used(proc) \ {z} /\ \A r \in Used(t) : t[r].pid = proc[r].pid
  <2>1. z \in ExitedChildren(proc, current) /\ MaybeSwitch(t, c) /\ next_pid' = next_pid
    BY Zenon DEF Reap, Reaps
  <2>2. /\ BeforeSwitch(t, current, c, next_pid)
        /\ z # c /\ Used(t) = Used(proc) \ {z} /\ \A r \in Used(t) : t[r].pid = proc[r].pid
    BY <1>1, <2>1, BeforeReap, Zenon
  <2> QED BY <2>1, <2>2, Zenon
<1>4. Contexts(ctx) /\ \A r \in Slot \ {z} : ctx[r] = saved[r]
  BY Freshly DEF CtxInv
<1>5. Switch(c, m, ctx)
  BY DEF Reap
<1> HIDE DEF m, x, ctx, t
<1>6. /\ calls' = [Counted(c) EXCEPT ![z] = 0] /\ started' = [started EXCEPT ![z] = Shell]
      /\ spoiled' = [spoiled EXCEPT ![z] = FALSE]
  BY Zenon DEF Reap
<1>7. CallMod \in Nat \ {0} /\ started \in [Slot -> Programs \cup {Shell}] /\ DOMAIN spoiled = Slot
  BY ContextAssumption, Zenon DEF CtxInv
<1>8. /\ calls' \in [Slot -> 0 .. CallMod - 1]
      /\ started' \in [Slot -> Programs \cup {Shell}] /\ DOMAIN spoiled' = Slot
      /\ \A r \in Slot \ {z} : /\ calls'[r] = Counted(c)[r] /\ started'[r] = started[r]
                               /\ spoiled'[r] = spoiled[r]
  BY <1>2, <1>6, <1>7
<1>9. ASSUME NEW s \in Used(t) \ {c}
      PROVE  /\ InOrder(At(t[s].pid, calls'[s]), ctx[s].pc, ctx[s].sp, ctx[s].memory)
             /\ ~spoiled'[s] => Carries(ctx[s].memory.bytes, ctx[s].argv, started'[s])
  <2>1. /\ s \in Slot /\ s \in Used(proc) \ {c} /\ t[s].pid = proc[s].pid /\ calls'[s] = calls[s]
        /\ ctx[s] = saved[s] /\ spoiled'[s] = spoiled[s] /\ started'[s] = started[s]
    BY <1>2, <1>3, <1>4, <1>8, Zenon DEF Used
  <2> QED BY <1>1, <2>1, Zenon
<1>10. /\ InOrder(At(current, calls'[c]), m.pc, m.sp, m.window)
       /\ ~spoiled'[c] => Carries(m.window.bytes, ctx[c].argv, started'[c])
  BY <1>1, <1>2, <1>3, <1>4, <1>8, Zenon
<1>11. next_pid' \in Nat /\ BeforeSwitch(t, current, c, next_pid')
  BY <1>1, <1>3, Zenon DEF CpuInv
<1> QED BY <1>2, <1>3, <1>4, <1>5, <1>8, <1>9, <1>10, <1>11, CallKeeps, Zenon

(* sys_spawn gives the child a context of its own and puts the parent's    *)
(* window back after it has built the child's image in it.                 *)
LEMMA SpawnKeeps ==
  ASSUME CtxInv, NEW c \in Slot, Owner(c), NEW s \in Slot, NEW x \in Programs, Spawn(c, s, x)
  PROVE  CtxInv'
<1> DEFINE image == Built(hw.window.bytes, x)
           m == Trapped(c)
           y == FreshContext(next_pid, image)
           ctx == [saved EXCEPT ![s] = y]
           t == [proc EXCEPT ![s] = NewProcess(next_pid, current)]
<1>1. /\ c \in Used(proc) /\ proc[c].pid = current /\ CpuInv
      /\ hw.window.bytes \in Image
      /\ ~spoiled[c] => Carries(hw.window.bytes, saved[c].argv, started[c])
      /\ \A r \in Used(proc) \ {c} :
           /\ InOrder(At(proc[r].pid, calls[r]), saved[r].pc, saved[r].sp, saved[r].memory)
           /\ ~spoiled[r] => Carries(saved[r].memory.bytes, saved[r].argv, started[r])
  BY CallerAndOthers, Zenon
<1>2. /\ IsMachine(m) /\ m.window.bytes = hw.window.bytes
      /\ InOrder(At(current, Counted(c)[c]), m.pc, m.sp, m.window)
      /\ Counted(c) \in [Slot -> 0 .. CallMod - 1]
      /\ \A r \in Slot \ {c} : Counted(c)[r] = calls[r]
  BY <1>1, CallerMachine, Zenon DEF Trapped
<1>3. /\ Loads(x.file) /\ ~image.failed /\ Switch(c, m, ctx)
      /\ s \in FreeSlots(proc) /\ next_pid' = next_pid + 1 /\ MaybeSwitch(t, c)
      /\ calls' = [Counted(c) EXCEPT ![s] = 0] /\ started' = [started EXCEPT ![s] = x]
      /\ spoiled' = [spoiled EXCEPT ![s] = FALSE]
  BY Zenon DEF Spawn, Spawns
<1>4. /\ BeforeSwitch(t, current, c, next_pid + 1)
      /\ s # c /\ s \notin Used(proc) /\ Used(t) = Used(proc) \cup {s}
      /\ t[s].pid = next_pid /\ \A r \in Used(proc) : t[r].pid = proc[r].pid
  BY <1>1, <1>3, BeforeSpawn, Zenon
<1>5. image.window \in Image /\ Carries(image.window, image.argv, x)
  BY <1>1, <1>3, BuiltFine, Zenon
<1>6. /\ Contexts(ctx) /\ ctx[s] = y /\ \A r \in Slot \ {s} : ctx[r] = saved[r]
      /\ y.pc = At(next_pid, 0) /\ y.sp = At(next_pid, 0) /\ y.argv = image.argv
      /\ y.memory.own = At(next_pid, 0) /\ y.memory.bytes = image.window
  <2>1. Contexts(saved)
    BY Zenon DEF CtxInv
  <2> HIDE DEF image
  <2> QED BY <2>1, Freshly, Zenon
<1> HIDE DEF image, m, y, ctx, t
<1>7. CallMod \in Nat \ {0} /\ started \in [Slot -> Programs \cup {Shell}] /\ DOMAIN spoiled = Slot
  BY ContextAssumption, Zenon DEF CtxInv
<1>8. /\ calls' \in [Slot -> 0 .. CallMod - 1]
      /\ started' \in [Slot -> Programs \cup {Shell}] /\ DOMAIN spoiled' = Slot
      /\ calls'[s] = 0 /\ started'[s] = x
      /\ \A r \in Slot \ {s} : /\ calls'[r] = Counted(c)[r] /\ started'[r] = started[r]
                               /\ spoiled'[r] = spoiled[r]
  <2>1. /\ calls' = [Counted(c) EXCEPT ![s] = 0] /\ Counted(c) \in [Slot -> 0 .. CallMod - 1]
        /\ started' = [started EXCEPT ![s] = x] /\ spoiled' = [spoiled EXCEPT ![s] = FALSE]
    BY <1>2, <1>3, Zenon
  <2>2. 0 \in 0 .. CallMod - 1
    BY ONLY <1>7
  <2> QED BY ONLY <1>7, <2>1, <2>2, s \in Slot, x \in Programs, Zenon
<1>9. ASSUME NEW r \in Used(t) \ {c}
      PROVE  /\ InOrder(At(t[r].pid, calls'[r]), ctx[r].pc, ctx[r].sp, ctx[r].memory)
             /\ ~spoiled'[r] => Carries(ctx[r].memory.bytes, ctx[r].argv, started'[r])
  <2>1. CASE r = s
    BY <1>4, <1>5, <1>6, <1>8, <2>1, Zenon DEF InOrder
  <2>2. CASE r # s
    <3>1. /\ r \in Slot /\ r \in Used(proc) \ {c} /\ t[r].pid = proc[r].pid /\ calls'[r] = calls[r]
          /\ ctx[r] = saved[r] /\ spoiled'[r] = spoiled[r] /\ started'[r] = started[r]
      BY <1>2, <1>4, <1>6, <1>8, <2>2, Zenon DEF Used
    <3> QED BY <1>1, <3>1, Zenon
  <2> QED BY <2>1, <2>2
<1>10. /\ InOrder(At(current, calls'[c]), m.pc, m.sp, m.window)
       /\ ~spoiled'[c] => Carries(m.window.bytes, ctx[c].argv, started'[c])
  BY <1>1, <1>2, <1>4, <1>6, <1>8, Zenon
<1>11. next_pid' \in Nat /\ BeforeSwitch(t, current, c, next_pid')
  <2>1. next_pid \in Nat /\ next_pid' = next_pid + 1
    BY <1>1, <1>3, Zenon DEF CpuInv
  <2>2. next_pid + 1 \in Nat
    BY ONLY <2>1
  <2> QED BY <1>4, <2>1, <2>2, Zenon
<1> QED BY <1>2, <1>3, <1>6, <1>8, <1>9, <1>10, <1>11, CallKeeps, Zenon

(* A spawn that fails half way leaves every other process as it was; only  *)
(* the caller's window may be spoiled.                                     *)
LEMMA SpawnFailsKeeps ==
  ASSUME CtxInv, NEW c \in Slot, Owner(c), SpawnFails(c)
  PROVE  CtxInv'
<1> DEFINE t == Unblock(proc, {})
<1>1. /\ c \in Used(proc) /\ proc[c].pid = current /\ CpuInv
      /\ hw.window.bytes \in Image
      /\ \A s \in Used(proc) \ {c} :
           /\ InOrder(At(proc[s].pid, calls[s]), saved[s].pc, saved[s].sp, saved[s].memory)
           /\ ~spoiled[s] => Carries(saved[s].memory.bytes, saved[s].argv, started[s])
  BY CallerAndOthers, Zenon
<1>2. BeforeSwitch(t, current, c, next_pid) /\ SameProcesses(proc, t)
  BY <1>1, BeforeReturn
<1>3. MaybeSwitch(t, c) /\ UNCHANGED <<next_pid, started>> /\ calls' = Counted(c)
  BY DEF SpawnFails, Returns
<1> HIDE DEF t
<1>4. CASE Switch(c, Trapped(c), saved) /\ UNCHANGED spoiled
  BY <1>2, <1>3, <1>4, QuietCallKeeps, Zenon
<1>5. ASSUME NEW x \in Programs, Loads(x.file),
             Switch(c, [Trapped(c) EXCEPT !.window.bytes = Built(hw.window.bytes, x).window], saved),
             spoiled' = [spoiled EXCEPT ![c] = TRUE]
      PROVE  CtxInv'
  <2> DEFINE w == Built(hw.window.bytes, x).window
             m == Machine(At(current, (calls[c] + 1) % CallMod), w)
  <2>1. w \in Image
    BY <1>1, <1>5, BuiltFine
  <2> HIDE DEF w
  <2>2. [Trapped(c) EXCEPT !.window.bytes = w] = m
    BY DEF Trapped, Machine
  <2>3. /\ IsMachine(m) /\ m.window.bytes = w
        /\ InOrder(At(current, Counted(c)[c]), m.pc, m.sp, m.window)
        /\ Counted(c) \in [Slot -> 0 .. CallMod - 1]
        /\ \A s \in Slot \ {c} : Counted(c)[s] = calls[s]
    BY <2>1, CallerMachine, Zenon
  <2>4. Switch(c, m, saved)
    BY <1>5, <2>2 DEF w
  <2> HIDE DEF m
  <2>5. /\ spoiled'[c] /\ DOMAIN spoiled' = Slot
        /\ \A s \in Slot \ {c} : spoiled'[s] = spoiled[s]
    BY <1>5 DEF CtxInv
  <2>6. ASSUME NEW s \in Used(t) \ {c}
        PROVE  /\ InOrder(At(t[s].pid, calls'[s]), saved[s].pc, saved[s].sp, saved[s].memory)
               /\ ~spoiled'[s] => Carries(saved[s].memory.bytes, saved[s].argv, started'[s])
    <3>1. /\ s \in Slot /\ s \in Used(proc) \ {c} /\ t[s].pid = proc[s].pid
          /\ calls'[s] = calls[s] /\ spoiled'[s] = spoiled[s] /\ started' = started
      BY <1>2, <1>3, <2>3, <2>5, Zenon DEF SameProcesses, Used
    <3> QED BY <1>1, <3>1, Zenon
  <2>7. /\ next_pid' \in Nat /\ BeforeSwitch(t, current, c, next_pid') /\ Contexts(saved)
        /\ started' \in [Slot -> Programs \cup {Shell}]
    BY <1>1, <1>2, <1>3, Zenon DEF CpuInv, CtxInv
  <2>8. /\ InOrder(At(current, calls'[c]), m.pc, m.sp, m.window)
        /\ calls' \in [Slot -> 0 .. CallMod - 1]
    BY <1>3, <2>3, Zenon
  <2> QED BY <1>3, <2>3, <2>4, <2>5, <2>6, <2>7, <2>8, CallKeeps, Zenon
<1> QED BY <1>4, <1>5, Zenon DEF SpawnFails

(* launch_user_shell.                                                      *)
LEMMA InitOrder == Init => CtxInv
<1> SUFFICES ASSUME Init PROVE CtxInv
  OBVIOUS
<1> DEFINE image == BuildUserStack(Built(NoImage.window, Shell).window, Shell.args)
           f == [s \in Slot |-> FreshContext(1, IF s = 0 THEN image ELSE NoImage)]
<1>1. /\ Launch /\ calls = [s \in Slot |-> 0] /\ hw = Machine(At(1, 0), image.window)
      /\ saved = f /\ started = [s \in Slot |-> Shell] /\ spoiled = [s \in Slot |-> FALSE]
  BY Zenon DEF Init
<1>2. image.window \in Image /\ Carries(image.window, image.argv, Shell)
  BY ShellFine, Zenon
<1> HIDE DEF image
<1>3. 0 \in Slot /\ CallMod \in Nat \ {0}
  BY ContextAssumption DEF Slot
<1>4. /\ proc \in ProcTables /\ Used(proc) = {0} /\ proc[0].pid = 1 /\ current = 1
      /\ proc[0].parent_pid = 0 /\ proc[0].state = "Ready" /\ next_pid = 2
  BY <1>1, <1>3 DEF Launch, ProcTables, Used, NewProcess, Process, States, INVALID_PID
<1>5. CpuInv
  <2>1. Owns(proc, current, 0)
    BY <1>4 DEF Owns, OnlyRuns
  <2>2. UniquePids(proc) /\ Family(proc, next_pid)
    BY <1>4 DEF UniquePids, Family
  <2> QED BY <1>3, <1>4, <2>1, <2>2, Zenon DEF CpuInv
<1>6. /\ calls \in [Slot -> 0 .. CallMod - 1] /\ calls[0] = 0
      /\ started \in [Slot -> Programs \cup {Shell}] /\ started[0] = Shell
      /\ DOMAIN spoiled = Slot
  BY <1>1, <1>3
<1>7. /\ IsMachine(hw) /\ hw.pc = At(1, 0) /\ hw.sp = At(1, 0) /\ hw.window.own = At(1, 0)
      /\ hw.window.bytes = image.window
  BY <1>1, Zenon DEF Machine, IsMachine
<1>8. Contexts(saved) /\ saved[0].argv = image.argv
  <2>1. \A s \in Slot : IsContext(f[s])
    BY Zenon DEF FreshContext, IsContext
  <2>2. f = [s \in Slot |-> f[s]]
    BY Zenon
  <2>3. f[0].argv = image.argv
    BY <1>3, Zenon DEF FreshContext
  <2> QED BY <1>1, <2>1, <2>2, <2>3, Zenon DEF Contexts
<1>9. SlotInv(0)
  BY <1>2, <1>4, <1>6, <1>7, <1>8, Zenon DEF SlotInv, InOrder, Latest, Memory
<1> QED BY <1>4, <1>5, <1>6, <1>7, <1>8, <1>9, Zenon DEF CtxInv

(* The invariant of the context switch holds in every reachable state.     *)
LEMMA CtxInvHolds == Spec => []CtxInv
<1>1. CtxInv /\ UNCHANGED vars => CtxInv'
  <2> SUFFICES ASSUME CtxInv, UNCHANGED vars PROVE CtxInv'
    OBVIOUS
  <2>1. /\ proc' = proc /\ current' = current /\ next_pid' = next_pid /\ calls' = calls
        /\ hw' = hw /\ saved' = saved /\ started' = started /\ spoiled' = spoiled
    BY DEF vars, procVars, ctxVars
  <2>2. CpuInv'
    BY <2>1 DEF CtxInv, CpuInv
  <2>3. \A s \in Used(proc') : SlotInv(s)'
    BY <2>1, Zenon DEF CtxInv, SlotInv, Latest, Memory
  <2> QED BY <2>1, <2>2, <2>3 DEF CtxInv
<1>2. CtxInv /\ Next => CtxInv'
  BY PlainKeeps, ReapKeeps, SpawnKeeps, SpawnFailsKeeps, Zenon DEF Next
<1> QED BY <1>1, <1>2, InitOrder, PTL DEF Spec

-----------------------------------------------------------------------------
(* The types of the machine and of a saved context.                        *)
GoodMachine(m) ==
  {m.pc, m.sp, m.a0, m.window.own} \subseteq Stamp /\ m.window.bytes \in Image

GoodContext(x) ==
  /\ {x.pc, x.sp, x.argc, x.memory.own} \subseteq Stamp
  /\ x.memory.bytes \in Image
  /\ x.argv \in Window /\ x.argv % WORD = 0

ContextTypes == GoodMachine(hw) /\ \A s \in Slot : GoodContext(saved[s])

(* A switch moves values between the machine and the entries, and keeps    *)
(* their types.                                                            *)
LEMMA SwitchTypes ==
  ASSUME NEW c \in Slot, NEW m, NEW ctx, IsMachine(m), GoodMachine(m), Contexts(ctx),
         \A s \in Slot : GoodContext(ctx[s]), Switch(c, m, ctx)
  PROVE  ContextTypes'
<1> DEFINE one == Save(ctx[c], m)
           kept == IF Saves(c) THEN [ctx EXCEPT ![c] = Save(@, m)] ELSE ctx
<1>1. IsContext(one) /\ GoodContext(one)
  <2>1. one = [pc |-> m.pc, sp |-> m.sp, argc |-> ctx[c].argc, argv |-> ctx[c].argv,
               memory |-> m.window, started |-> ctx[c].started]
    <3>1. IsContext(ctx[c])
      BY DEF Contexts
    <3> QED BY <3>1, SavedContext, Zenon
  <2> HIDE DEF one
  <2>2. /\ IsContext(one) /\ one.pc = m.pc /\ one.sp = m.sp /\ one.memory = m.window
        /\ one.argc = ctx[c].argc /\ one.argv = ctx[c].argv
    BY <2>1, Zenon DEF IsContext
  <2> QED BY <2>2 DEF GoodContext, GoodMachine
<1> HIDE DEF one
<1>2. Contexts(kept) /\ \A s \in Slot : GoodContext(kept[s])
  <2>1. CASE Saves(c)
    <3>1. kept = [s \in Slot |-> IF s = c THEN one ELSE ctx[s]]
      BY <2>1, Zenon DEF Contexts, one
    <3> HIDE DEF kept
    <3> QED BY <1>1, <3>1, Zenon DEF Contexts
  <2>2. CASE ~Saves(c)
    BY <2>2, Zenon
  <2> QED BY <2>1, <2>2
<1>3. \/ hw' = m /\ saved' = kept
      \/ \E s \in Slot : hw' = Restore(kept[s], m) /\ saved' = [kept EXCEPT ![s].started = TRUE]
  BY Zenon DEF Switch
<1> HIDE DEF kept
<1>4. CASE hw' = m /\ saved' = kept
  BY <1>2, <1>4, Zenon DEF ContextTypes, GoodMachine, GoodContext
<1>5. ASSUME NEW s \in Slot, hw' = Restore(kept[s], m), saved' = [kept EXCEPT ![s].started = TRUE]
      PROVE  ContextTypes'
  <2> DEFINE k == kept[s]
             new == [pc |-> k.pc, sp |-> k.sp, argc |-> k.argc, argv |-> k.argv,
                     memory |-> k.memory, started |-> TRUE]
  <2>1. IsContext(k) /\ GoodContext(k)
    BY <1>2 DEF Contexts
  <2>2. hw' = [pc |-> k.pc, sp |-> k.sp, a0 |-> IF k.started THEN m.a0 ELSE k.argc,
               window |-> k.memory]
    BY <1>5, Zenon DEF Restore, IsMachine
  <2>3. saved' = [r \in Slot |-> IF r = s THEN new ELSE kept[r]]
    <3>1. [k EXCEPT !.started = TRUE] = new
      BY <2>1, StartedContext, Zenon
    <3>2. saved' = [kept EXCEPT ![s] = [k EXCEPT !.started = TRUE]]
      BY <1>5, Zenon
    <3> HIDE DEF new
    <3> QED BY <1>2, <3>1, <3>2, Zenon DEF Contexts
  <2> HIDE DEF k
  <2>4. GoodContext(new)
    <3>1. /\ new.pc = k.pc /\ new.sp = k.sp /\ new.argc = k.argc /\ new.argv = k.argv
          /\ new.memory = k.memory
      BY Zenon
    <3> HIDE DEF new
    <3> QED BY <2>1, <3>1 DEF GoodContext
  <2> HIDE DEF new
  <2>5. \A r \in Slot : saved'[r] = IF r = s THEN new ELSE kept[r]
    BY <2>3, Zenon
  <2>6. /\ hw'.pc = k.pc /\ hw'.sp = k.sp /\ hw'.window = k.memory
        /\ hw'.a0 = m.a0 \/ hw'.a0 = k.argc
    BY <2>2, Zenon
  <2>7. GoodMachine(hw')
    BY <2>1, <2>6 DEF GoodMachine, GoodContext
  <2>8. \A r \in Slot : GoodContext(saved'[r])
    BY <1>2, <2>4, <2>5, Zenon
  <2> QED BY <2>7, <2>8, Zenon DEF ContextTypes, GoodMachine, GoodContext
<1> QED BY <1>3, <1>4, <1>5, Zenon

(* What a call leaves on the machine for its caller has the right types.   *)
LEMMA CallTypes ==
  ASSUME CtxInv, NEW c \in Slot, Owner(c), NEW bytes \in Image
  PROVE  LET m == Machine(At(current, (calls[c] + 1) % CallMod), bytes)
         IN  IsMachine(m) /\ GoodMachine(m)
<1> DEFINE n == (calls[c] + 1) % CallMod
           x == At(current, n)
           m == Machine(x, bytes)
<1>1. c \in Used(proc) /\ proc[c].pid = current /\ CpuInv
  BY CallerAndOthers, Zenon
<1>2. current \in Nat \ {0}
  BY <1>1, UsedAreProcesses, Zenon DEF CpuInv
<1>3. calls[c] \in Nat /\ CallMod \in Nat \ {0}
  BY ContextAssumption DEF CtxInv
<1>4. n \in 0 .. CallMod - 1
  BY <1>3
<1> HIDE DEF n
<1>5. x \in Stamp
  BY <1>2, <1>4 DEF At, Stamp
<1> HIDE DEF x
<1>6. /\ IsMachine(m) /\ m.pc = x /\ m.sp = x /\ m.a0 = x /\ m.window.own = x
      /\ m.window.bytes = bytes
  BY Zenon DEF Machine, IsMachine
<1> HIDE DEF m
<1>7. IsMachine(m) /\ GoodMachine(m)
  BY <1>5, <1>6 DEF GoodMachine
<1> QED BY ONLY <1>7, Zenon DEF m, x, n

(* So does the entry of a process that has not run, and an empty entry.    *)
LEMMA FreshTypes ==
  ASSUME NEW pid \in Nat \ {0}, NEW image, image.window \in Image,
         image.argv \in Window, image.argv % WORD = 0
  PROVE  IsContext(FreshContext(pid, image)) /\ GoodContext(FreshContext(pid, image))
<1> DEFINE x == FreshContext(pid, image)
           a == At(pid, 0)
<1>1. a \in Stamp
  BY ContextAssumption DEF At, Stamp
<1>2. /\ IsContext(x) /\ x.pc = a /\ x.sp = a /\ x.argc = a /\ x.argv = image.argv
      /\ x.memory.own = a /\ x.memory.bytes = image.window
  BY Zenon DEF FreshContext, IsContext
<1> HIDE DEF a, x
<1>3. IsContext(x) /\ GoodContext(x)
  BY <1>1, <1>2 DEF GoodContext
<1> QED BY ONLY <1>3, Zenon DEF x

(* The argv of an image that was built.                                    *)
LEMMA BuiltArgv ==
  ASSUME NEW v \in Image, NEW x \in Programs \cup {Shell}, ~BuildUserStack(v, x.args).failed
  PROVE  LET image == BuildUserStack(v, x.args) IN image.argv \in Window /\ image.argv % WORD = 0
<1> DEFINE image == BuildUserStack(v, x.args)
           plain == BuildUserStack(NoImage.window, x.args)
<1>1. x.args \in Arguments /\ (plain.failed \/ plain.sp >= USER_IMAGE_BASE)
  BY ProgramFacts, Zenon
<1>2. image.failed = plain.failed /\ (~plain.failed => image.sp = plain.sp)
  BY <1>1, EmptyImage, BuildAlike, Zenon
<1>3. image.sp >= USER_IMAGE_BASE
  BY <1>1, <1>2, Zenon
<1> QED BY <1>1, <1>3, ArgvInside, Zenon

(* Every step keeps the types of the registers, the contexts and the       *)
(* window.                                                                 *)
LEMMA TypesKept ==
  ASSUME CtxInv, ContextTypes, Next
  PROVE  ContextTypes'
<1>1. PICK c \in Slot :
        /\ Owner(c)
        /\ \/ Plain(c)
           \/ SpawnFails(c)
           \/ \E s \in Slot : Reap(c, s) \/ (\E x \in Programs : Spawn(c, s, x))
  BY Zenon DEF Next
<1>2. hw.window.bytes \in Image /\ Contexts(saved) /\ \A s \in Slot : GoodContext(saved[s])
  BY DEF ContextTypes, GoodMachine, CtxInv
<1>3. IsMachine(Trapped(c)) /\ GoodMachine(Trapped(c))
  BY <1>1, <1>2, CallTypes, Zenon DEF Trapped
<1>4. ASSUME NEW s \in Slot, NEW x, IsContext(x), GoodContext(x)
      PROVE  /\ Contexts([saved EXCEPT ![s] = x])
             /\ \A r \in Slot : GoodContext([saved EXCEPT ![s] = x][r])
  <2> DEFINE ctx == [saved EXCEPT ![s] = x]
  <2>1. ctx = [r \in Slot |-> IF r = s THEN x ELSE saved[r]]
    BY <1>2, Zenon DEF Contexts
  <2> HIDE DEF ctx
  <2>2. Contexts(ctx) /\ \A r \in Slot : GoodContext(ctx[r])
    BY <1>2, <1>4, <2>1, Zenon DEF Contexts
  <2> QED BY ONLY <2>2, Zenon DEF ctx
<1>5. CASE Plain(c)
  <2>1. Switch(c, Trapped(c), saved)
    BY <1>5, Zenon DEF Plain
  <2> QED BY <1>2, <1>3, <2>1, SwitchTypes, Zenon
<1>6. CASE SpawnFails(c)
  <2>1. CASE Switch(c, Trapped(c), saved)
    BY <1>2, <1>3, <2>1, SwitchTypes, Zenon
  <2>2. ASSUME NEW x \in Programs, Loads(x.file),
               Switch(c, [Trapped(c) EXCEPT !.window.bytes = Built(hw.window.bytes, x).window], saved)
        PROVE  ContextTypes'
    <3> DEFINE w == Built(hw.window.bytes, x).window
               m == Machine(At(current, (calls[c] + 1) % CallMod), w)
    <3>1. w \in Image
      BY <1>2, <2>2, BuiltFine, Zenon
    <3> HIDE DEF w
    <3>2. [Trapped(c) EXCEPT !.window.bytes = w] = m
      BY DEF Trapped, Machine
    <3>3. IsMachine(m) /\ GoodMachine(m)
      BY <1>1, <3>1, CallTypes, Zenon
    <3>4. Switch(c, m, saved)
      BY <2>2, <3>2 DEF w
    <3> HIDE DEF m
    <3> QED BY <1>2, <3>3, <3>4, SwitchTypes, Zenon
  <2> QED BY <1>6, <2>1, <2>2, Zenon DEF SpawnFails
<1>7. ASSUME NEW z \in Slot, Reap(c, z)
      PROVE  ContextTypes'
  <2> DEFINE x == FreshContext(1, NoImage)
             ctx == [saved EXCEPT ![z] = x]
  <2>1. NoImage.argv \in Window /\ NoImage.argv % WORD = 0
    BY ExecAssumption DEF NoImage, Window
  <2>2. IsContext(x) /\ GoodContext(x)
    <3>1. 1 \in Nat \ {0}
      OBVIOUS
    <3> QED BY <2>1, <3>1, EmptyImage, FreshTypes, Zenon
  <2>3. Switch(c, Trapped(c), ctx)
    BY <1>7, Zenon DEF Reap
  <2> HIDE DEF x
  <2>4. Contexts(ctx) /\ \A r \in Slot : GoodContext(ctx[r])
    BY <1>4, <2>2, Zenon
  <2> HIDE DEF ctx
  <2> QED BY <1>3, <2>3, <2>4, SwitchTypes, Zenon
<1>8. ASSUME NEW s \in Slot, NEW p \in Programs, Spawn(c, s, p)
      PROVE  ContextTypes'
  <2> DEFINE image == Built(hw.window.bytes, p)
             x == FreshContext(next_pid, image)
             ctx == [saved EXCEPT ![s] = x]
  <2>1. Loads(p.file) /\ ~image.failed /\ Switch(c, Trapped(c), ctx)
    BY <1>8, Zenon DEF Spawn
  <2>2. image.window \in Image
    BY <1>2, <2>1, BuiltFine, Zenon
  <2>3. image.argv \in Window /\ image.argv % WORD = 0
    <3>1. LoadIntoUserWindow(hw.window.bytes, p.file) \in Image
      BY <1>2, ProgramFacts, LoadFine, Zenon
    <3> QED BY <2>1, <3>1, BuiltArgv, Zenon DEF Built
  <2> HIDE DEF image
  <2>4. next_pid \in Nat \ {0}
    <3>1. c \in Used(proc) /\ CpuInv
      BY <1>1, CallerAndOthers, Zenon
    <3> QED BY <3>1, UsedAreProcesses DEF CpuInv, Family
  <2>5. IsContext(x) /\ GoodContext(x)
    BY <2>2, <2>3, <2>4, FreshTypes, Zenon
  <2> HIDE DEF x
  <2>6. Contexts(ctx) /\ \A r \in Slot : GoodContext(ctx[r])
    BY <1>4, <2>5, Zenon
  <2> HIDE DEF ctx
  <2> QED BY <1>3, <2>1, <2>6, SwitchTypes, Zenon
<1> QED BY <1>1, <1>5, <1>6, <1>7, <1>8, Zenon

(* launch_user_shell leaves a well-typed machine and table.                *)
LEMMA InitTypes == Init => ContextTypes
<1> SUFFICES ASSUME Init PROVE ContextTypes
  OBVIOUS
<1> DEFINE first == Built(NoImage.window, Shell)
           image == BuildUserStack(first.window, Shell.args)
<1>1. hw = Machine(At(1, 0), image.window)
      /\ saved = [s \in Slot |-> FreshContext(1, IF s = 0 THEN image ELSE NoImage)]
  BY Zenon DEF Init
<1>2. image.window \in Image
  BY ShellFine, Zenon
<1>3. image.argv \in Window /\ image.argv % WORD = 0
  <2> DEFINE L == LoadIntoUserWindow(NoImage.window, Shell.file)
  <2>1. Loads(Shell.file) /\ ~first.failed /\ first = BuildUserStack(L, Shell.args)
    BY ContextAssumption, Zenon DEF Built
  <2>2. Shell.file.headers \in Headers /\ Shell.args \in Arguments
    BY ProgramFacts, Zenon
  <2>3. L \in Image
    BY <2>2, EmptyImage, LoadFine, Zenon
  <2>4. first.window \in Image
    BY <2>1, <2>2, <2>3, BuildFine, Zenon
  <2>5. image.failed = first.failed
    <3> HIDE DEF first
    <3>1. image.failed = BuildUserStack(L, Shell.args).failed
      BY <2>2, <2>3, <2>4, BuildAlike, Zenon
    <3> QED BY <2>1, <3>1, Zenon
  <2> QED BY <2>1, <2>4, <2>5, BuiltArgv, Zenon
<1>4. NoImage.argv \in Window /\ NoImage.argv % WORD = 0 /\ 1 \in Nat \ {0}
  BY ExecAssumption DEF NoImage, Window
<1> HIDE DEF image
<1>5. GoodContext(FreshContext(1, image)) /\ GoodContext(FreshContext(1, NoImage))
  BY <1>2, <1>3, <1>4, EmptyImage, FreshTypes, Zenon
<1>6. \A s \in Slot : GoodContext(saved[s])
  BY <1>1, <1>5, Zenon
<1>7. GoodMachine(hw)
  <2> DEFINE a == At(1, 0)
  <2>1. a \in Stamp
    BY ContextAssumption DEF At, Stamp
  <2>2. /\ hw.pc = a /\ hw.sp = a /\ hw.a0 = a /\ hw.window.own = a
        /\ hw.window.bytes = image.window
    BY <1>1, Zenon DEF Machine
  <2> HIDE DEF a
  <2> QED BY <1>2, <2>1, <2>2, Zenon DEF GoodMachine
<1> QED BY <1>6, <1>7 DEF ContextTypes

(* Every variable has the type of the code's field: stamps, pids and argv  *)
(* pointers included, through every switch, spawn and failed spawn.        *)
THEOREM SwitchTypeCorrect == Spec => []TypeOK
<1>1. ContextTypes /\ UNCHANGED vars => ContextTypes'
  BY DEF ContextTypes, GoodMachine, GoodContext, vars, ctxVars
<1>2. CtxInv /\ ContextTypes => TypeOK
  <2> SUFFICES ASSUME CtxInv, ContextTypes PROVE TypeOK
    BY Zenon
  <2>1. current \in Nat \ {0} /\ next_pid \in Nat /\ proc \in ProcTables
    BY UsedAreProcesses DEF CtxInv, CpuInv, Owns
  <2> QED BY <2>1, Zenon DEF CtxInv, ContextTypes, GoodMachine, GoodContext, ProcTables, TypeOK
<1> QED BY <1>1, <1>2, InitTypes, TypesKept, CtxInvHolds, PTL DEF Spec

(* The CPU belongs to one process of the table.                            *)
THEOREM SwitchKeepsOwner == Spec => []CpuOwner
<1>1. CtxInv => CpuOwner
  BY Zenon DEF CtxInv, CpuInv, Owns, OnlyRuns, UniquePids, CpuOwner
<1> QED BY <1>1, CtxInvHolds, PTL

(* A process that traps, loses the CPU and gets it back continues at its   *)
(* own program counter, with its own stack pointer and in its own memory:  *)
(* the swap of contexts and windows by maybe_switch is invisible to it,    *)
(* for any number of processes.                                            *)
THEOREM SwitchIsTransparent == Spec => []ContinuesWhereItLeft
<1>1. CtxInv => ContinuesWhereItLeft
  BY Zenon DEF CtxInv, SlotInv, InOrder, Memory, ContinuesWhereItLeft
<1> QED BY <1>1, CtxInvHolds, PTL

(* get_arg finds in the window of a process the arguments that sys_spawn   *)
(* was given for it, unless a failed spawn of its own has spoiled that     *)
(* window.                                                                 *)
THEOREM ArgumentsReach == Spec => []ArgumentsArrive
<1>1. CtxInv => ArgumentsArrive
  BY Zenon DEF CtxInv, SlotInv, Carries, ArgumentsArrive
<1> QED BY <1>1, CtxInvHolds, PTL

(* Below its stack a process finds every byte that load_into_user_window   *)
(* had to place there, the zeroes of its bss included, unless a failed     *)
(* spawn of its own has spoiled the window.                                *)
THEOREM ProgramsReach == Spec => []ProgramArrives
<1>1. CtxInv => ProgramArrives
  BY Zenon DEF CtxInv, SlotInv, Carries, ProgramArrives
<1> QED BY <1>1, CtxInvHolds, PTL
=============================================================================
