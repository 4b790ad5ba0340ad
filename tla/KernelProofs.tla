---------------------------- MODULE KernelProofs ----------------------------
(***************************************************************************)
(* The main theorems of Kernel, for every size of the tables and both      *)
(* locks: type correctness, the pipe descriptors, the reference counts,    *)
(* the owner of the CPU, the reaping of processes and the wake-ups.        *)
(*                                                                         *)
(* That wait reaps only what has given its descriptors back is not clear   *)
(* from the code: a process that exits when nobody else can run goes on    *)
(* running (maybe_switch stays with it) and may open descriptors again. It *)
(* is never reaped, because its parent, which exit would have unblocked    *)
(* and the scheduler run, must have exited before.                         *)
(*                                                                         *)
(* No wake-up is lost: who waits on a pipe has to (WaitersMustWait), and   *)
(* who is Blocked is still registered with a pipe or has a child that has  *)
(* not exited (BlockedWillBeWoken).  The two are inductive together, given *)
(* the types.  A registration goes away in three ways: a transfer wakes    *)
(* the opposite end, the last close of an end wakes the opposite end, and  *)
(* the slot of a pipe is released.  The third is why WaitersMustWait is    *)
(* needed: a pipe with a waiter has the opposite end open, so a call that  *)
(* releases it closes that end and wakes the waiter on the way.            *)
(***************************************************************************)
EXTENDS KernelIoProofs

USE FdTableAssumption, ProcTableAssumption, KernelAssumption, SMTT(30)

(* A call that ends in maybe_switch keeps the CPU invariant.               *)
LEMMA CpuStep ==
  ASSUME NEW t, NEW c \in Slot, MaybeSwitch(t, c),
         BeforeSwitch(t, fds', current, c, next_pid')
  PROVE  CpuInv'
<1>1. /\ UniquePids(proc') /\ Family(proc', next_pid')
      /\ \E d \in Slot : Owns(proc', fds', current', d)
  BY SwitchOwns, SMTT(30)
<1> QED
  BY <1>1 DEF CpuInv, UniquePids, Family, Owns, OnlyRuns, Unreapable, ParentOf,
              Used, Runnable

(* A call that hangs, and no call, keep it.                                *)
LEMMA CpuIdle ==
  ASSUME CpuInv, UNCHANGED <<proc, current, next_pid, fds>>
  PROVE  CpuInv'
  BY DEF CpuInv, UniquePids, Family, Owns, OnlyRuns, Unreapable, ParentOf,
         Used, Runnable

(* Moving bytes keeps it, whether or not somebody is woken.                *)
LEMMA CpuTransfer ==
  ASSUME TypeOK, CpuInv, NEW c \in Slot, OnCpu(c), NEW i, NEW len, NEW e,
         Transfer(c, i, len, e)
  PROVE  CpuInv'
<1> DEFINE W == IF len # pipes[i].len THEN pipes[i].waiting[e] ELSE {}
<1>1. CASE Hang(W)
  BY <1>1, CpuIdle DEF Hang
<1>2. CASE Wake(W, c) /\ UNCHANGED <<next_pid, fds, hung, leaks>>
  <2>1. OthersKeep(fds', c)
    BY <1>2 DEF OthersKeep
  <2>2. BeforeSwitch(Unblock(proc, W), fds', current, c, next_pid)
    BY <2>1, BeforeUnblock
  <2> QED
    BY <1>2, <2>2, CpuStep, Zenon DEF Wake
<1> QED
  BY <1>1, <1>2, SMTT(30) DEF Transfer

(* So does a call that leaves the process table as it is,                  *)
LEMMA CpuReturn ==
  ASSUME TypeOK, CpuInv, NEW c \in Slot, OnCpu(c), MaybeSwitch(proc, c),
         next_pid' = next_pid, OthersKeep(fds', c)
  PROVE  CpuInv'
<1>1. BeforeSwitch(proc, fds', current, c, next_pid)
  BY BeforeReturn
<1> QED
  BY <1>1, CpuStep

(* one that blocks its caller,                                             *)
LEMMA CpuBlock ==
  ASSUME TypeOK, CpuInv, NEW c \in Slot, OnCpu(c), Block(c),
         next_pid' = next_pid, fds' = fds
  PROVE  CpuInv'
<1>1. BeforeSwitch(SetState(proc, c, "Blocked"), fds', current, c, next_pid')
  BY BeforeBlock
<1> QED
  BY <1>1, CpuStep DEF Block

(* sys_read and sys_write,                                                 *)
LEMMA CpuReadWrite ==
  ASSUME TypeOK, CpuInv, NEW c \in Slot, OnCpu(c), NEW fd, NEW n,
         SysRead(c, fd, n) \/ SysWrite(c, fd, n)
  PROVE  CpuInv'
<1>1. CASE Return(c)
  BY <1>1, CpuReturn DEF Return, OthersKeep
<1>2. ASSUME NEW i, NEW e, WaitOn(c, i, e) PROVE CpuInv'
  BY <1>2, CpuBlock DEF WaitOn
<1>3. ASSUME NEW i, NEW len, NEW e, Transfer(c, i, len, e) PROVE CpuInv'
  BY <1>3, CpuTransfer
<1> QED
  BY <1>1, <1>2, <1>3, Zenon DEF SysRead, SysWrite, PipeRead, PipeWrite

(* and what closes descriptors of the caller.                              *)
LEMMA CpuClose ==
  ASSUME TypeOK, CpuInv, NEW c \in Slot, OnCpu(c), NEW W,
         \/ Hang(W)
         \/ Wake(W, c) /\ OthersKeep(fds', c) /\ next_pid' = next_pid
  PROVE  CpuInv'
<1>1. CASE Hang(W)
  BY <1>1, CpuIdle DEF Hang
<1>2. CASE Wake(W, c) /\ OthersKeep(fds', c) /\ next_pid' = next_pid
  <2>1. BeforeSwitch(Unblock(proc, W), fds', current, c, next_pid')
    BY <1>2, BeforeUnblock
  <2> QED
    BY <1>2, <2>1, CpuStep DEF Wake
<1> QED
  BY <1>1, <1>2

(* wait reaps a process other than the caller that holds no descriptor.    *)
LEMMA ReapsOnlyEmpty ==
  ASSUME TypeOK, CpuInv, NEW c \in Slot, OnCpu(c)
  PROVE  ReapsEmpty(c)
<1> SUFFICES ASSUME NEW z \in ExitedChildren(proc, current)
             PROVE  z # c /\ fds[z] = EmptyTable
  BY DEF ReapsEmpty
<1>1. Owns(proc, fds, current, c) /\ proc \in ProcTables
  BY CallerOwns
<1>2. /\ z \in Used(proc) /\ proc[z].state = "Exited"
      /\ proc[z].parent_pid = current /\ proc[c].pid = current
      /\ c \in Used(proc)
  BY <1>1 DEF ExitedChildren, Children, Owns
<1>3. proc[z].parent_pid < proc[z].pid /\ proc[z] \in Process
  BY <1>1, <1>2 DEF CpuInv, Family, Used, ProcTables
<1>4. z # c
  BY <1>2, <1>3 DEF Process
<1>5. ParentOf(proc, c, z)
  BY <1>2 DEF ParentOf
<1> QED
  BY <1>1, <1>2, <1>4, <1>5 DEF Owns, Unreapable

(* Every call keeps the CPU invariant.                                     *)
LEMMA NextCpuInv ==
  ASSUME TypeOK, CpuInv, [Next]_vars
  PROVE  CpuInv'
<1>1. CASE UNCHANGED vars
  BY <1>1, CpuIdle DEF vars
<1>2. ASSUME NEW c \in Slot, OnCpu(c), Syscall(c) PROVE CpuInv'
  <2>0. fds \in FdTables
    BY DEF TypeOK, FdTables
  <2>1. ASSUME NEW fd \in UserFds, NEW n \in 0 .. MaxIO,
               SysRead(c, fd, n) \/ SysWrite(c, fd, n)
        PROVE  CpuInv'
    BY <1>2, <2>1, CpuReadWrite
  <2>2. CASE SysOpen(c)
    <3>1. MaybeSwitch(proc, c) /\ OthersKeep(fds', c) /\ next_pid' = next_pid
      BY <2>0, <2>2 DEF SysOpen, Return, OthersKeep, FdTables
    <3> QED
      BY <1>2, <3>1, CpuReturn
  <2>3. ASSUME NEW fd \in UserFds, SysClose(c, fd) PROVE CpuInv'
    <3> DEFINE W == WokenByCloses(pipes, fds[c], {fd})
    <3>1. CASE Return(c)
      BY <1>2, <3>1, CpuReturn DEF Return, OthersKeep
    <3>2. CASE \/ Hang(W)
               \/ Wake(W, c) /\ OthersKeep(fds', c) /\ next_pid' = next_pid
      BY <1>2, <3>2, CpuClose
    <3> QED
      BY <2>0, <2>3, <3>1, <3>2, Zenon DEF SysClose, OthersKeep, FdTables
  <2>4. ASSUME NEW old \in UserFds, NEW new \in UserFds, SysDup2(c, old, new)
        PROVE  CpuInv'
    <3> DEFINE one == [n \in Fd |-> IF n = old THEN fds[c][old] ELSE NoFd]
               W == WokenByCloses(CloneRefs(pipes, one), fds[c], {new})
    <3>1. CASE Return(c)
      BY <1>2, <3>1, CpuReturn, Zenon DEF Return, OthersKeep
    <3>2. CASE \/ Hang(W)
               \/ Wake(W, c) /\ OthersKeep(fds', c) /\ next_pid' = next_pid
      BY <1>2, <3>2, CpuClose, Zenon
    <3>3. \/ Return(c) \/ Hang(W)
          \/ /\ fds' = [fds EXCEPT ![c][new] = fds[c][old]]
             /\ Wake(W, c) /\ next_pid' = next_pid
      BY <2>4, Zenon DEF SysDup2
    <3> HIDE DEF W
    <3> QED
      BY <2>0, <3>1, <3>2, <3>3, Zenon DEF OthersKeep, FdTables
  <2>5. CASE SysPipe(c)
    <3>1. MaybeSwitch(proc, c) /\ OthersKeep(fds', c) /\ next_pid' = next_pid
      BY <2>0, <2>5, Zenon DEF SysPipe, Return, OthersKeep, FdTables
    <3> QED
      BY <1>2, <3>1, CpuReturn
  <2>6. CASE SysSpawn(c)
    <3>1. CASE MaybeSwitch(proc, c) /\ UNCHANGED <<next_pid, fds>>
      BY <1>2, <3>1, CpuReturn DEF OthersKeep
    <3>2. ASSUME NEW s \in Slot, proc[s] = NoProc, next_pid' = next_pid + 1,
                 fds' = [fds EXCEPT ![s] = fds[c]],
                 MaybeSwitch([proc EXCEPT ![s] = NewProcess(next_pid, current)], c)
          PROVE  CpuInv'
      <4>1. \A r \in Slot \ {s} : fds'[r] = fds[r]
        BY <2>0, <3>2 DEF FdTables
      <4>2. BeforeSwitch([proc EXCEPT ![s] = NewProcess(next_pid, current)],
                         fds', current, c, next_pid')
        BY <1>2, <3>2, <4>1, BeforeSpawn, Zenon
      <4> QED
        BY <3>2, <4>2, CpuStep, Zenon
    <3> QED
      BY <2>6, <3>1, <3>2, Zenon DEF SysSpawn, First, FreeSlots
  <2>7. CASE SysWait(c)
    <3>1. CASE Return(c)
      BY <1>2, <3>1, CpuReturn DEF Return, OthersKeep
    <3>2. CASE Block(c) /\ UNCHANGED <<next_pid, fds, pipes, hung, leaks>>
      BY <1>2, <3>2, CpuBlock
    <3>3. ASSUME NEW z \in Slot, First(z, ExitedChildren(proc, current)),
                 fds' = [fds EXCEPT ![z] = EmptyTable], next_pid' = next_pid,
                 MaybeSwitch([proc EXCEPT ![z] = NoProc], c)
          PROVE  CpuInv'
      <4>1. z # c
        BY <1>2, <3>3, ReapsOnlyEmpty DEF First, ReapsEmpty
      <4>2. \A r \in Slot \ {z} : fds'[r] = fds[r]
        BY <2>0, <3>3 DEF FdTables
      <4>3. BeforeSwitch([proc EXCEPT ![z] = NoProc], fds', current, c, next_pid')
        BY <1>2, <3>3, <4>1, <4>2, BeforeReap, Zenon
      <4> QED
        BY <3>3, <4>3, CpuStep, Zenon
    <3> QED
      BY <2>7, <3>1, <3>2, <3>3, Zenon DEF SysWait
  <2>8. CASE SysExit(c)
    <3> DEFINE parent == {proc[c].parent_pid} \ {INVALID_PID}
               W == WokenByCloses(pipes, fds[c], Fd)
               t == Unblock(SetState(Unblock(proc, W), c, "Exited"), parent)
    <3>1. CASE Hang(W \cup parent)
      BY <3>1, CpuIdle DEF Hang
    <3>2. CASE /\ fds' = [fds EXCEPT ![c] = EmptyTable]
               /\ MaybeSwitch(t, c)
               /\ next_pid' = next_pid
      <4>1. OthersKeep(fds', c) /\ fds'[c] = EmptyTable
        BY <2>0, <3>2 DEF OthersKeep, FdTables
      <4>2. BeforeSwitch(t, fds', current, c, next_pid')
        BY <1>2, <3>2, <4>1, BeforeExit, Zenon
      <4> HIDE DEF t
      <4> QED
        BY <3>2, <4>2, CpuStep, Zenon
    <3> QED
      BY <2>8, <3>1, <3>2, Zenon DEF SysExit
  <2>9. CASE SysOther(c)
    BY <1>2, <2>9, CpuReturn DEF SysOther, Return, OthersKeep
  <2> QED
    BY <1>2, <2>1, <2>2, <2>3, <2>4, <2>5, <2>6, <2>7, <2>8, <2>9 DEF Syscall
<1> QED
  BY <1>1, <1>2 DEF Next

(* Both invariants hold initially.                                         *)
LEMMA InitCpuInv == Init => CpuInv
<1> SUFFICES ASSUME Init PROVE CpuInv
  OBVIOUS
<1> DEFINE sh == NewProcess(1, INVALID_PID)
<1>1. /\ sh \in Process /\ sh.pid = 1 /\ sh.parent_pid = 0 /\ sh.state = "Ready"
  BY DEF NewProcess, Process, INVALID_PID, States
<1>2. 0 \in Slot
  BY DEF Slot
<1> HIDE DEF sh
<1>3. /\ proc[0] = sh /\ \A s \in Slot : s # 0 => proc[s] = NoProc
      /\ current = 1 /\ next_pid = 2
  BY <1>2 DEF Init, Launch, sh
<1>4. Used(proc) = {0}
  BY <1>1, <1>2, <1>3 DEF Used
<1>5. UniquePids(proc) /\ Family(proc, next_pid)
  BY <1>1, <1>3, <1>4 DEF UniquePids, Family
<1>6. Owns(proc, fds, current, 0)
  BY <1>1, <1>3, <1>4 DEF Owns, OnlyRuns, Unreapable
<1> QED
  BY <1>2, <1>5, <1>6 DEF CpuInv

(* The conjunction is an invariant of the kernel.                          *)
THEOREM KernelInvariant == Spec => [](IInv /\ CpuInv)
<1>1. Init => IInv /\ CpuInv
  BY InitIInv, InitCpuInv
<1>2. IInv /\ CpuInv /\ [Next]_vars => IInv' /\ CpuInv'
  <2> SUFFICES ASSUME IInv, CpuInv, [Next]_vars PROVE IInv' /\ CpuInv'
    OBVIOUS
  <2>1. TypeOK
    BY DEF IInv
  <2>2. \A c \in Slot : OnCpu(c) => ReapsEmpty(c)
    BY <2>1, ReapsOnlyEmpty
  <2> QED
    BY <2>1, <2>2, NextIInv, NextCpuInv, Zenon
<1> QED
  BY <1>1, <1>2, PTL DEF Spec

(* Type correctness.                                                       *)
THEOREM TypeCorrect == Spec => []TypeOK
<1>1. IInv => TypeOK
  BY DEF IInv
<1> QED
  BY <1>1, KernelInvariant, PTL

(* No pipe descriptor of any process ever names a freed pipe or a closed   *)
(* end, even after calls that failed half-way.                             *)
THEOREM NoDanglingPipeFd == Spec => []FdsNeverDangle
  BY KernelInvariant, IInvImplies, PTL

(* The counts are exact until a call fails half-way.                       *)
THEOREM ExactRefcounts == Spec => []RefcountExact
  BY KernelInvariant, IInvImplies, PTL

(* The CPU always belongs to one process of the table, and to one that may *)
(* not run only when none may.                                             *)
THEOREM CpuOwned == Spec => []CpuOwner
<1>1. CpuInv => CpuOwner
  <2> SUFFICES ASSUME CpuInv PROVE CpuOwner
    OBVIOUS
  <2>1. PICK c \in Slot : Owns(proc, fds, current, c)
    BY DEF CpuInv
  <2>2. c \in Used(proc) /\ proc[c].pid = current
    BY <2>1 DEF Owns
  <2>3. proc[c].state \in {"Blocked", "Exited"} => Runnable(proc) = {}
    BY <2>1 DEF Owns
  <2>4. \A s \in Used(proc) : proc[s].state = "Running" => proc[s].pid = current
    BY <2>1, <2>2 DEF Owns, OnlyRuns
  <2>5. \A s, t \in Used(proc) : proc[s].pid = proc[t].pid => s = t
    BY DEF CpuInv, UniquePids
  <2> QED
    BY <2>2, <2>3, <2>4, <2>5, Zenon DEF CpuOwner
<1> QED
  BY <1>1, KernelInvariant, PTL

(* A slot is emptied only by the parent's wait, after the process exited   *)
(* and gave its descriptors back.                                          *)
THEOREM OnlyExitedReaped == Spec => ReapedAfterExit
<1> DEFINE Reaped == \A s \in Slot : proc[s] # NoProc /\ proc'[s] = NoProc =>
                       /\ proc[s].state = "Exited"
                       /\ proc[s].parent_pid = current
                       /\ fds[s] = EmptyTable
<1>1. IInv /\ CpuInv /\ [Next]_vars => [Reaped]_vars
  <2> SUFFICES ASSUME IInv, CpuInv, NEW c \in Slot, OnCpu(c), Syscall(c)
               PROVE  Reaped
    BY DEF Next
  <2>1. proc \in ProcTables /\ TypeOK /\ proc[c] # NoProc
    BY SMTT(30) DEF IInv, TypeOK, ProcTables, OnCpu, Owner
  <2>2. CASE SameSlots(proc, proc')
    BY <2>2 DEF SameSlots
  <2>3. ASSUME NEW t \in ProcTables, MaybeSwitch(t, c),
               SameSlots(proc, t)
        PROVE  Reaped
    BY <2>2, <2>3, SwitchStep, Zenon
  <2>4. CASE MaybeSwitch(proc, c)
    BY <2>1, <2>3, <2>4, Zenon DEF SameSlots
  <2>5. CASE Block(c)
    BY <2>1, <2>3, <2>5, SetStateType, Zenon DEF Block, States
  <2>6. ASSUME NEW W, Wake(W, c) \/ Hang(W) PROVE Reaped
    BY <2>2, <2>6, WakeStep, Zenon DEF Hang
  <2>7. CASE \E fd \in UserFds, n \in 0 .. MaxIO : SysRead(c, fd, n) \/ SysWrite(c, fd, n)
    <3>1. ASSUME NEW i, NEW len, NEW e, Transfer(c, i, len, e) PROVE Reaped
      BY <2>6, <3>1, Zenon DEF Transfer
    <3>2. ASSUME NEW i, NEW e, WaitOn(c, i, e) PROVE Reaped
      BY <2>5, <3>2, Zenon DEF WaitOn
    <3>3. CASE Return(c)
      BY <2>4, <3>3, Zenon DEF Return
    <3> HIDE DEF Reaped
    <3> QED
      BY <2>7, <3>1, <3>2, <3>3, Zenon DEF SysRead, SysWrite, PipeRead, PipeWrite
  <2>8. CASE SysOpen(c) \/ SysPipe(c) \/ SysOther(c)
    BY <2>4, <2>8, Zenon DEF SysOpen, SysPipe, SysOther, Return
  <2>9. CASE \E fd \in UserFds : SysClose(c, fd)
    BY <2>4, <2>6, <2>9, Zenon DEF SysClose, Return
  <2>10. CASE \E old, new \in UserFds : SysDup2(c, old, new)
    <3>1. PICK old, new \in UserFds : SysDup2(c, old, new)
      BY <2>10, Zenon
    <3> DEFINE one == [n \in Fd |-> IF n = old THEN fds[c][old] ELSE NoFd]
               W == WokenByCloses(CloneRefs(pipes, one), fds[c], {new})
    <3>2. Return(c) \/ Wake(W, c) \/ Hang(W)
      BY <3>1, SMTT(30) DEF SysDup2
    <3> HIDE DEF W
    <3> QED
      BY <2>4, <2>6, <3>2, Zenon DEF Return
  <2>11. CASE SysSpawn(c)
    <3>1. ASSUME NEW s \in Slot, proc[s] = NoProc,
                 MaybeSwitch([proc EXCEPT ![s] = NewProcess(next_pid, current)], c)
          PROVE  Reaped
      <4> DEFINE t == [proc EXCEPT ![s] = NewProcess(next_pid, current)]
      <4>1. NewProcess(next_pid, current) \in Process
        BY <2>1 DEF NewProcess, Process, States, TypeOK, Pid
      <4>2. t \in ProcTables /\ \A r \in Slot : t[r] = NoProc => proc[r] = NoProc
        BY <2>1, <4>1 DEF ProcTables
      <4>3. t[c] # NoProc
        BY <2>1, <4>2
      <4> HIDE DEF t
      <4>4. SameSlots(t, proc')
        BY <2>1, <3>1, <4>2, <4>3, MaybeSwitchType, Zenon DEF t, TypeOK
      <4> QED
        BY <4>2, <4>4, Zenon DEF SameSlots
    <3> QED
      BY <2>4, <2>11, <3>1, Zenon DEF SysSpawn, First, FreeSlots
  <2>12. CASE SysWait(c)
    <3>1. ASSUME NEW z \in Slot, First(z, ExitedChildren(proc, current)),
                 MaybeSwitch([proc EXCEPT ![z] = NoProc], c)
          PROVE  Reaped
      <4> DEFINE t == [proc EXCEPT ![z] = NoProc]
      <4>1. /\ z # c /\ fds[z] = EmptyTable /\ proc[z].state = "Exited"
            /\ proc[z].parent_pid = current
        BY <2>1, <3>1, ReapsOnlyEmpty, Zenon
           DEF First, ReapsEmpty, ExitedChildren, Children
      <4>2. /\ t \in ProcTables
            /\ \A r \in Slot : r # z => t[r] = proc[r]
        BY <2>1 DEF ProcTables
      <4> HIDE DEF t
      <4>3. SameSlots(t, proc')
        BY <2>1, <3>1, <4>1, <4>2, MaybeSwitchType, Zenon DEF t, TypeOK
      <4> QED
        BY <4>1, <4>2, <4>3, Zenon DEF SameSlots
    <3> QED
      BY <2>4, <2>5, <2>12, <3>1, Zenon DEF SysWait, Return
  <2>13. CASE SysExit(c)
    <3> DEFINE W == WokenByCloses(pipes, fds[c], Fd)
               parent == {proc[c].parent_pid} \ {INVALID_PID}
               u == Unblock(proc, W)
               v == SetState(u, c, "Exited")
               t == Unblock(v, parent)
    <3>1. u \in ProcTables /\ SameSlots(proc, u)
      BY <2>1, UnblockType, Zenon
    <3>2. v \in ProcTables /\ SameSlots(proc, v)
      BY <2>1, <3>1, SetStateType, Zenon DEF SameSlots, States
    <3>3. t \in ProcTables /\ SameSlots(proc, t)
      BY <3>2, UnblockType DEF SameSlots
    <3>4. MaybeSwitch(t, c) \/ Hang(W \cup parent)
      BY <2>13, Zenon DEF SysExit
    <3> HIDE DEF t, W, parent, Reaped
    <3>5. CASE MaybeSwitch(t, c)
      BY <2>3, <3>3, <3>5, Zenon
    <3>6. CASE Hang(W \cup parent)
      BY <2>6, <3>6, Zenon
    <3> QED
      BY <3>4, <3>5, <3>6, Zenon
  <2> HIDE DEF Reaped
  <2>14. CASE \/ \E fd \in UserFds, n \in 0 .. MaxIO : SysRead(c, fd, n)
              \/ \E fd \in UserFds, n \in 1 .. MaxIO : SysWrite(c, fd, n)
    <3>1. \A n \in 1 .. MaxIO : n \in 0 .. MaxIO
      OBVIOUS
    <3> QED
      BY <2>7, <2>14, <3>1, Zenon
  <2> QED
    BY <2>8, <2>9, <2>10, <2>11, <2>12, <2>13, <2>14, Zenon DEF Syscall
<1> QED
  BY <1>1, KernelInvariant, PTL DEF Spec, ReapedAfterExit


-----------------------------------------------------------------------------
(* The pids in table t.                                                    *)
Pids(t) == {t[s].pid : s \in Used(t)}

(* A pid that no entry has is not unblocked.                               *)
LEMMA UnblockPresent ==
  ASSUME NEW t, NEW W
  PROVE  Unblock(t, W) = Unblock(t, W \cap Pids(t))
  BY DEF Unblock, Pids, Used

(* A call that unblocks the pids W is the step Returns.                    *)
LEMMA WakeIsStep ==
  ASSUME NEW c \in Slot, Owner(c), NEW W, MaybeSwitch(Unblock(proc, W), c),
         next_pid' = next_pid
  PROVE  StepNext
<1> DEFINE V == W \cap Pids(proc)
<1>1. Returns(c, V)
  BY UnblockPresent, Zenon DEF Returns
<1>2. V \in SUBSET {proc[s].pid : s \in Used(proc)}
  BY DEF Pids
<1> HIDE DEF V
<1> QED BY <1>1, <1>2, Zenon DEF StepNext, Step

(* A call that leaves the table alone is the step Returns.                 *)
LEMMA ReturnIsStep ==
  ASSUME TypeOK, NEW c \in Slot, Owner(c), MaybeSwitch(proc, c),
         next_pid' = next_pid
  PROVE  StepNext
<1>1. Unblock(proc, {}) = proc
  BY SMTT(30) DEF Unblock, TypeOK
<1> QED BY <1>1, WakeIsStep

(* A call that blocks is the step Blocks.                                  *)
LEMMA BlockIsStep ==
  ASSUME NEW c \in Slot, Owner(c), Block(c), next_pid' = next_pid
  PROVE  StepNext
  BY DEF Block, Blocks, StepNext, Step

(* The two rounds of unblocking of sys_exit are one, and it does not       *)
(* matter that the first comes before the exit.                            *)
LEMMA ExitUnblocks ==
  ASSUME NEW t \in ProcTables, NEW c \in Slot, t[c] # NoProc, NEW W, NEW V
  PROVE  LET u == SetState(t, c, "Exited")
         IN  Unblock(SetState(Unblock(t, W), c, "Exited"), V)
               = Unblock(u, (W \cup V) \cap Pids(t))
<1> DEFINE u == SetState(t, c, "Exited")
           x == SetState(Unblock(t, W), c, "Exited")
           l == Unblock(x, V)
           r == Unblock(u, (W \cup V) \cap Pids(t))
<1>1. \A s \in Slot : t[s] # NoProc => t[s] \in Process /\ t[s].pid \in Pids(t)
  BY DEF ProcTables, Pids, Used
<1>2. ASSUME NEW s \in Slot
      PROVE  l[s] = r[s]
  <2>1. CASE t[s] = NoProc
    <3>1. s # c /\ Unblock(t, W)[s] = NoProc /\ u[s] = NoProc
      BY <2>1 DEF Unblock, SetState, ProcTables
    <3>2. x[s] = NoProc
      BY <3>1, Zenon DEF SetState, Unblock
    <3> QED BY <3>1, <3>2 DEF Unblock
  <2>2. CASE s = c
    <3>1. /\ u[c] = [t[c] EXCEPT !.state = "Exited"]
          /\ x[c] = [Unblock(t, W)[c] EXCEPT !.state = "Exited"]
      BY DEF SetState, Unblock, ProcTables
    <3>2. u[c].state = "Exited" /\ x[c].state = "Exited"
      BY <1>1, <3>1 DEF Process, Unblock
    <3>3. x[c] = u[c]
      BY <1>1, <3>1, Zenon DEF Unblock, Process
    <3> QED BY <2>2, <3>2, <3>3, Zenon DEF Unblock
  <2>3. CASE t[s] # NoProc /\ s # c
    <3>1. u[s] = t[s] /\ x[s] = Unblock(t, W)[s]
      BY <2>3 DEF SetState, Unblock, ProcTables
    <3>2. t[s] \in Process /\ t[s].pid \in Pids(t)
      BY <1>1, <2>3
    <3>3. [t[s] EXCEPT !.state = "Ready"] \in Process
          /\ [t[s] EXCEPT !.state = "Ready"].state = "Ready"
      BY <3>2, Zenon DEF Process, States
    <3>4. CASE t[s].state # "Blocked"
      <4>1. x[s] = t[s]
        BY <3>1, <3>4 DEF Unblock
      <4> QED BY <3>1, <3>4, <4>1, Zenon DEF Unblock
    <3>5. CASE t[s].state = "Blocked" /\ t[s].pid \in W
      <4>1. x[s] = [t[s] EXCEPT !.state = "Ready"]
        BY <2>3, <3>1, <3>5, Zenon DEF Unblock
      <4>2. l[s] = [t[s] EXCEPT !.state = "Ready"]
        BY <3>3, <4>1, Zenon DEF Unblock
      <4>3. r[s] = [t[s] EXCEPT !.state = "Ready"]
        BY <2>3, <3>1, <3>2, <3>5, Zenon DEF Unblock
      <4> QED BY <4>2, <4>3, Zenon
    <3>6. CASE t[s].state = "Blocked" /\ t[s].pid \notin W
      <4>1. x[s] = t[s]
        BY <3>1, <3>6, Zenon DEF Unblock
      <4> QED BY <2>3, <3>1, <3>2, <3>6, <4>1, Zenon DEF Unblock
    <3> QED BY <3>4, <3>5, <3>6, Zenon
  <2> QED BY <2>1, <2>2, <2>3, Zenon
<1>3. l = [s \in Slot |-> l[s]] /\ r = [s \in Slot |-> r[s]]
  BY DEF Unblock
<1> HIDE DEF l, r
<1>4. l = r
  BY <1>2, <1>3, Zenon
<1> QED BY <1>4 DEF l, r


(* Every system call is a step of the process table, or hangs and leaves   *)
(* the table as it is.                                                     *)
LEMMA CallIsStep ==
  ASSUME TypeOK, NEW c \in Slot, OnCpu(c), Syscall(c)
  PROVE  StepNext \/ UNCHANGED procVars
<1>1. Owner(c) /\ proc \in ProcTables /\ proc[c] # NoProc
  BY DEF OnCpu, Owner, TypeOK, ProcTables
<1>2. ASSUME NEW W, Hang(W)
      PROVE  UNCHANGED procVars
  BY <1>2 DEF Hang, procVars
<1>3. ASSUME NEW W, Wake(W, c), next_pid' = next_pid
      PROVE  StepNext
  BY <1>1, <1>3, WakeIsStep, Zenon DEF Wake
<1>4. CASE Return(c)
  BY <1>1, <1>4, ReturnIsStep, Zenon DEF Return
<1>5. ASSUME NEW i, NEW e, WaitOn(c, i, e)
      PROVE  StepNext
  BY <1>1, <1>5, BlockIsStep, Zenon DEF WaitOn
<1>6. ASSUME NEW i, NEW len, NEW e, Transfer(c, i, len, e)
      PROVE  StepNext \/ UNCHANGED procVars
  <2> DEFINE W == IF len # pipes[i].len THEN pipes[i].waiting[e] ELSE {}
  <2>1. Hang(W) \/ (Wake(W, c) /\ next_pid' = next_pid)
    BY <1>6 DEF Transfer
  <2> HIDE DEF W
  <2> QED BY <1>2, <1>3, <2>1, Zenon
<1>7. ASSUME NEW fd, NEW n, SysRead(c, fd, n)
      PROVE  StepNext \/ UNCHANGED procVars
  BY <1>4, <1>5, <1>6, <1>7, Zenon DEF SysRead, PipeRead
<1>8. ASSUME NEW fd, NEW n, SysWrite(c, fd, n)
      PROVE  StepNext \/ UNCHANGED procVars
  BY <1>4, <1>5, <1>6, <1>8, ZenonT(30) DEF SysWrite, PipeWrite
<1>9. CASE SysOpen(c) \/ SysPipe(c)
  BY <1>1, <1>4, <1>9, ReturnIsStep, Zenon DEF SysOpen, SysPipe
<1>10. ASSUME NEW fd, SysClose(c, fd)
       PROVE  StepNext \/ UNCHANGED procVars
  BY <1>2, <1>3, <1>4, <1>10, Zenon DEF SysClose
<1>11. ASSUME NEW old, NEW new, SysDup2(c, old, new)
       PROVE  StepNext \/ UNCHANGED procVars
  <2> DEFINE one == [n \in Fd |-> IF n = old THEN fds[c][old] ELSE NoFd]
             W == WokenByCloses(CloneRefs(pipes, one), fds[c], {new})
  <2>1. Return(c) \/ Hang(W) \/ (Wake(W, c) /\ next_pid' = next_pid)
    BY <1>11 DEF SysDup2
  <2> HIDE DEF W
  <2> QED BY <1>2, <1>3, <1>4, <2>1, Zenon
<1>12. CASE SysSpawn(c)
  <2>1. CASE MaybeSwitch(proc, c) /\ next_pid' = next_pid
    BY <1>1, <2>1, ReturnIsStep, Zenon
  <2>2. ASSUME NEW s \in Slot, First(s, FreeSlots(proc)), next_pid' = next_pid + 1,
               MaybeSwitch([proc EXCEPT ![s] = NewProcess(next_pid, current)], c)
        PROVE  StepNext
    BY <1>1, <2>2, Zenon DEF First, Spawns, StepNext, Step
  <2>3. \/ MaybeSwitch(proc, c) /\ next_pid' = next_pid
        \/ \E s \in Slot :
             /\ First(s, FreeSlots(proc)) /\ next_pid' = next_pid + 1
             /\ MaybeSwitch([proc EXCEPT ![s] = NewProcess(next_pid, current)], c)
    BY <1>12, Zenon DEF SysSpawn
  <2> QED BY <2>1, <2>2, <2>3, Zenon
<1>13. CASE SysWait(c)
  <2>1. ASSUME NEW z \in Slot, First(z, ExitedChildren(proc, current)),
               next_pid' = next_pid, MaybeSwitch([proc EXCEPT ![z] = NoProc], c)
        PROVE  StepNext
    BY <1>1, <2>1, Zenon DEF First, Reaps, StepNext, Step
  <2>2. CASE Block(c) /\ next_pid' = next_pid
    BY <1>1, <2>2, BlockIsStep, Zenon
  <2>3. \/ Return(c)
        \/ \E z \in Slot :
             /\ First(z, ExitedChildren(proc, current)) /\ next_pid' = next_pid
             /\ MaybeSwitch([proc EXCEPT ![z] = NoProc], c)
        \/ Block(c) /\ next_pid' = next_pid
    BY <1>13, Zenon DEF SysWait
  <2> QED BY <1>4, <2>1, <2>2, <2>3, Zenon
<1>14. CASE SysExit(c)
  <2> DEFINE W == WokenByCloses(pipes, fds[c], Fd)
             parent == {proc[c].parent_pid} \ {INVALID_PID}
             V == (W \cup parent) \cap Pids(proc)
  <2>1. \/ Hang(W \cup parent)
        \/ /\ MaybeSwitch(Unblock(SetState(Unblock(proc, W), c, "Exited"), parent), c)
           /\ next_pid' = next_pid
    BY <1>14, Zenon DEF SysExit
  <2>2. Unblock(SetState(Unblock(proc, W), c, "Exited"), parent)
          = Unblock(SetState(proc, c, "Exited"), V)
    <3> HIDE DEF W, parent
    <3> QED BY <1>1, ExitUnblocks
  <2>3. V \in SUBSET {proc[s].pid : s \in Used(proc)}
    BY Zenon DEF Pids
  <2> HIDE DEF V, W, parent
  <2>4. CASE /\ MaybeSwitch(Unblock(SetState(proc, c, "Exited"), V), c)
             /\ next_pid' = next_pid
    <3>1. Exits(c, V)
      BY <2>4 DEF Exits
    <3> QED BY <1>1, <2>3, <3>1, Zenon DEF StepNext, Step
  <2> QED BY <1>2, <2>1, <2>2, <2>4, Zenon
<1> QED
  BY <1>4, <1>7, <1>8, <1>9, <1>10, <1>11, <1>12, <1>13, <1>14, Zenon
     DEF Syscall, SysOther

(* The kernel implements the process steps of module Processes, whatever   *)
(* the sizes of its tables and whatever the lock does.                     *)
THEOREM KernelIsProcesses == Spec => IsProcesses
<1>1. Init => Launch
  BY DEF Init
<1>2. TypeOK /\ [Next]_vars => [StepNext]_procVars
  <2> SUFFICES ASSUME TypeOK, [Next]_vars PROVE [StepNext]_procVars
    OBVIOUS
  <2>1. CASE UNCHANGED vars
    BY <2>1 DEF vars, procVars
  <2>2. CASE Next
    BY <2>2, CallIsStep, Zenon DEF Next
  <2> QED BY <2>1, <2>2
<1> QED
  BY <1>1, <1>2, TypeCorrect, PTL DEF Spec, IsProcesses, ProcSpec

-----------------------------------------------------------------------------
(* The inductive invariant, stated on the values of the two tables.        *)
WakeInv == AllMustWait(pipes) /\ NoSleeperLost(proc, pipes)

(* It says what the two properties of Kernel say.                          *)
LEMMA WakeInvMeans == WakeInv <=> WaitersMustWait /\ BlockedWillBeWoken
  BY Zenon DEF WakeInv, AllMustWait, MustWait, WaitersMustWait, NoSleeperLost,
         BlockedWillBeWoken, Registered, LiveChild

(* A call that leaves the process table alone and takes no registration    *)
(* away keeps it.                                                          *)
LEMMA ReturnWakes ==
  ASSUME TypeOK, WakeInv, NEW c \in Slot, OnCpu(c), MaybeSwitch(proc, c),
         AllMustWait(pipes'), LosesOnly(pipes, pipes', {})
  PROVE  WakeInv'
<1>1. proc \in ProcTables /\ proc[c] # NoProc
  BY Zenon DEF TypeOK, ProcTables, OnCpu, Owner
<1>2. SleepersStay(proc, proc, pipes', {}) /\ LiveStay(proc, proc, {})
  BY DEF SleepersStay, LiveStay
<1>3. NoSleeperLost(proc, pipes')
  BY <1>2, NoneLost, Zenon DEF WakeInv
<1>4. NoSleeperLost(proc', pipes')
  BY <1>1, <1>3, SwitchLosesNone, Zenon
<1> QED
  BY <1>4, Zenon DEF WakeInv, AllMustWait, MustWait, NoSleeperLost, Registered, LiveChild

(* No change of the pipe table takes a registration away.                  *)
LEMMA SamePipes ==
  ASSUME WakeInv, pipes' = pipes
  PROVE  AllMustWait(pipes') /\ \A W : LosesOnly(pipes, pipes', W)
  BY Zenon DEF WakeInv, LosesOnly

(* A call that wakes whoever loses a registration keeps it.                *)
LEMMA WakeWakes ==
  ASSUME TypeOK, WakeInv, NEW c \in Slot, OnCpu(c), NEW W, Wake(W, c),
         AllMustWait(pipes'), LosesOnly(pipes, pipes', W)
  PROVE  WakeInv'
<1>1. proc \in ProcTables /\ proc[c] # NoProc
  BY DEF TypeOK, ProcTables, OnCpu, Owner
<1>2. /\ Unblock(proc, W) \in ProcTables
      /\ Unblock(proc, W)[c] # NoProc
      /\ NoSleeperLost(Unblock(proc, W), pipes')
  BY <1>1, UnblockType, UnblockLosesNone, Zenon DEF WakeInv, SameSlots
<1>3. NoSleeperLost(proc', pipes')
  BY <1>2, SwitchLosesNone, Zenon DEF Wake
<1> QED
  BY <1>3, Zenon DEF WakeInv, AllMustWait, MustWait, NoSleeperLost, Registered, LiveChild

(* A call that blocks its caller keeps it, when the caller is registered   *)
(* or has a child that has not exited.                                     *)
LEMMA BlockWakes ==
  ASSUME TypeOK, WakeInv, NEW c \in Slot, OnCpu(c), Block(c),
         AllMustWait(pipes'), LosesOnly(pipes, pipes', {}),
         Registered(pipes', current) \/ LiveChild(proc, current)
  PROVE  WakeInv'
<1> DEFINE u == SetState(proc, c, "Blocked")
<1>1. proc \in ProcTables /\ proc[c] # NoProc /\ proc[c].pid = current
  BY DEF TypeOK, ProcTables, OnCpu, Owner
<1>2. u \in ProcTables /\ SameSlots(proc, u)
  BY <1>1, SetStateType, Zenon DEF States
<1>3. \A z \in Slot : proc[z] # NoProc =>
        /\ u[z].pid = proc[z].pid
        /\ u[z].parent_pid = proc[z].parent_pid
        /\ u[z].state = IF z = c THEN "Blocked" ELSE proc[z].state
  BY <1>1, Zenon DEF SetState, ProcTables, Process
<1> HIDE DEF u
<1>4. LiveStay(proc, u, {})
  BY <1>2, <1>3, Zenon DEF LiveStay, SameSlots, Used
<1>5. LiveChild(proc, current) => LiveChild(u, current)
  <2>1. SUFFICES ASSUME NEW z \in Children(proc, current), proc[z].state # "Exited"
                 PROVE  z \in Children(u, current) /\ u[z].state # "Exited"
    BY Zenon DEF LiveChild
  <2> QED
    BY <2>1, <1>2, <1>3, Zenon DEF Children, SameSlots, Used
<1>6. SleepersStay(proc, u, pipes', {})
  <2>1. SUFFICES ASSUME NEW s \in Used(u), u[s].state = "Blocked"
                 PROVE  \/ Registered(pipes', u[s].pid)
                        \/ LiveChild(u, u[s].pid)
                        \/ /\ s \in Used(proc) /\ proc[s].state = "Blocked"
                           /\ proc[s].pid = u[s].pid
    BY Zenon DEF SleepersStay
  <2>2. s \in Slot /\ proc[s] # NoProc
    BY <1>2, Zenon DEF Used, SameSlots
  <2>3. CASE s = c
    BY <1>1, <1>3, <1>5, <2>2, <2>3, Zenon
  <2>4. CASE s # c
    BY <1>3, <2>1, <2>2, <2>4, Zenon DEF Used
  <2> QED
    BY <2>3, <2>4, Zenon
<1>7. NoSleeperLost(u, pipes')
  BY <1>4, <1>6, NoneLost, Zenon DEF WakeInv
<1>8. NoSleeperLost(proc', pipes')
  BY <1>1, <1>2, <1>7, SwitchLosesNone, Zenon DEF u, Block, SameSlots
<1> QED
  BY <1>8, Zenon DEF WakeInv, AllMustWait, MustWait, NoSleeperLost, Registered, LiveChild

(* A call that hangs, and no call, keep it.                                *)
LEMMA IdleWakes ==
  ASSUME WakeInv, UNCHANGED <<proc, pipes>>
  PROVE  WakeInv'
  BY DEF WakeInv, AllMustWait, MustWait, NoSleeperLost, Registered, LiveChild,
         SpaceAvailable, Used, Children

-----------------------------------------------------------------------------
(* Registering on an end while the caller has to wait keeps it.            *)
LEMMA WaitOnWakes ==
  ASSUME TypeOK, WakeInv, NEW c \in Slot, OnCpu(c), NEW i \in PipeId,
         pipes[i] # NoPipe, NEW e \in End, WaitOn(c, i, e),
         e = "r" => pipes[i].len = 0 /\ pipes[i].open["w"],
         e = "w" => SpaceAvailable(pipes[i]) = 0 /\ pipes[i].open["r"]
  PROVE  WakeInv'
<1> DEFINE p == [pipes[i] EXCEPT !.waiting[e] = @ \cup {current}]
<1>1. pipes \in PipeTables /\ pipes[i] \in Pipe /\ current \in Pid
  BY DEF TypeOK, PipeTables
<1>2. /\ p \in Pipe /\ p.len = pipes[i].len /\ p.open = pipes[i].open
      /\ \A d \in End : \A x : x \in p.waiting[d] <=>
           x \in pipes[i].waiting[d] \/ (d = e /\ x = current)
  <2>1. p \in Pipe /\ p.len = pipes[i].len /\ p.open = pipes[i].open
    BY <1>1 DEF Pipe
  <2> DEFINE V == pipes[i].waiting[e] \cup {current}
  <2>2. p.waiting = [pipes[i].waiting EXCEPT ![e] = V]
    BY <1>1, Zenon DEF Pipe
  <2>4. \A x : x \in V <=> x \in pipes[i].waiting[e] \/ x = current
    BY Zenon
  <2> HIDE DEF p, V
  <2>3. \A d \in End : p.waiting[d] = IF d = e THEN V ELSE pipes[i].waiting[d]
    BY <1>1, <2>2, Zenon DEF Pipe
  <2> QED
    BY <2>1, <2>3, <2>4, Zenon
<1>3. pipes' = [pipes EXCEPT ![i] = p]
  BY <1>1, Zenon DEF WaitOn, PipeTables
<1> HIDE DEF p
<1>9. /\ \A j \in PipeId : j # i => pipes'[j] = pipes[j]
      /\ pipes'[i] = p /\ p # NoPipe
  BY <1>1, <1>2, <1>3, Zenon DEF PipeTables
<1>4. MustWait(pipes[i])
  BY Zenon DEF WakeInv, AllMustWait
<1>5. MustWait(p)
  <2>1. /\ p.waiting["r"] # {} => pipes[i].len = 0 /\ pipes[i].open["w"]
        /\ p.waiting["w"] # {} =>
             SpaceAvailable(pipes[i]) = 0 /\ pipes[i].open["r"]
    BY <1>2, <1>4, Zenon DEF MustWait, End
  <2> QED
    BY <1>2, <2>1, Zenon DEF MustWait, SpaceAvailable
<1>6. AllMustWait(pipes') /\ LosesOnly(pipes, pipes', {})
  BY <1>2, <1>5, <1>9, Zenon DEF WakeInv, AllMustWait, LosesOnly
<1>7. Registered(pipes', current)
  BY <1>2, <1>9, Zenon DEF Registered
<1> QED
  BY <1>6, <1>7, BlockWakes, Zenon DEF WaitOn

(* Moving bytes keeps it: the end that could not proceed is woken, and     *)
(* nobody waits on the end that could.                                     *)
LEMMA TransferWakes ==
  ASSUME TypeOK, WakeInv, NEW c \in Slot, OnCpu(c), NEW i \in PipeId,
         pipes[i] # NoPipe, NEW e \in End, NEW len \in 0 .. PIPE_BUF_SIZE - 1,
         e = "w" => pipes[i].len > 0,
         e = "r" => SpaceAvailable(pipes[i]) > 0,
         Transfer(c, i, len, e)
  PROVE  WakeInv'
<1> DEFINE W == IF len # pipes[i].len THEN pipes[i].waiting[e] ELSE {}
           p == [pipes[i] EXCEPT !.len = len, !.waiting[e] = @ \ W]
<1>1. CASE Hang(W)
  BY <1>1, IdleWakes DEF Hang
<1>2. CASE /\ pipes' = [pipes EXCEPT ![i].len = len, ![i].waiting[e] = @ \ W]
           /\ Wake(W, c)
  <2>1. pipes \in PipeTables /\ pipes[i] \in Pipe
    BY Zenon DEF TypeOK, PipeTables
  <2>2. /\ len # pipes[i].len => W = pipes[i].waiting[e]
        /\ len = pipes[i].len => W = {}
    OBVIOUS
  <2> HIDE DEF W
  <2>3. /\ p \in Pipe /\ p.len = len /\ p.open = pipes[i].open
        /\ p.waiting = [pipes[i].waiting EXCEPT ![e] = @ \ W]
    BY <2>1, Zenon DEF Pipe
  <2>7. pipes' = [pipes EXCEPT ![i] = p]
    BY <1>2, <2>1, Zenon DEF PipeTables, Pipe
  <2> HIDE DEF p
  <2>8. /\ \A j \in PipeId : j # i => pipes'[j] = pipes[j]
        /\ pipes'[i] = p /\ p # NoPipe
    BY <2>1, <2>3, <2>7, Zenon DEF PipeTables
  <2>9. \A d \in End : \A x : x \in p.waiting[d] <=>
          x \in pipes[i].waiting[d] /\ ~(d = e /\ x \in W)
    <3>1. \A d \in End : p.waiting[d] =
            IF d = e THEN pipes[i].waiting[d] \ W ELSE pipes[i].waiting[d]
      BY <2>1, <2>3, Zenon DEF Pipe
    <3> QED
      BY <3>1, Zenon
  <2>4. MustWait(pipes[i]) /\ pipes[i].len \in 0 .. PIPE_BUF_SIZE - 1
    BY <2>1, Zenon DEF WakeInv, AllMustWait, Pipe
  <2>5. MustWait(p)
    <3>1. CASE len = pipes[i].len
      <4>1. \A d \in End : p.waiting[d] # {} => pipes[i].waiting[d] # {}
        BY <2>9, Zenon
      <4> QED
        BY <2>3, <2>4, <3>1, <4>1, Zenon DEF MustWait, SpaceAvailable, End
    <3>2. CASE len # pipes[i].len
      <4>1. p.waiting[e] = {}
        BY <2>2, <2>9, <3>2, ZenonT(30)
      <4>2. \A d \in End : d # e => pipes[i].waiting[d] = {}
        BY <2>4 DEF MustWait, End
      <4>3. \A d \in End : p.waiting[d] = {}
        BY <2>9, <4>1, <4>2, Zenon
      <4> QED
        BY <4>3 DEF MustWait, End
    <3> QED
      BY <3>1, <3>2, Zenon
  <2>6. AllMustWait(pipes') /\ LosesOnly(pipes, pipes', W)
    BY <2>5, <2>8, <2>9, Zenon DEF WakeInv, AllMustWait, LosesOnly
  <2> QED
    BY <1>2, <2>6, WakeWakes, Zenon
<1> QED
  BY <1>1, <1>2, Zenon DEF Transfer

(* read keeps it.                                                          *)
LEMMA ReadWakes ==
  ASSUME IInv, WakeInv, NEW c \in Slot, OnCpu(c), NEW fd \in Fd, NEW n \in Nat,
         SysRead(c, fd, n)
  PROVE  WakeInv'
<1> DEFINE i == fds[c][fd].pipe
<1>0. TypeOK
  BY DEF IInv
<1>1. CASE Return(c)
  BY <1>0, <1>1, ReturnWakes, SamePipes, Zenon DEF Return
<1>2. CASE IsPipeEnd(c, fd, "r") /\ PipeRead(c, i, n)
  <2>1. i \in PipeId /\ pipes[i] # NoPipe
    BY <1>2, PipeEndNamed, Zenon
  <2>2. pipes[i].len \in 0 .. PIPE_BUF_SIZE - 1
    BY <2>1, PipeLen, Zenon
  <2> HIDE DEF i
  <2>3. CASE pipes[i].len = 0 /\ pipes[i].open["w"] /\ WaitOn(c, i, "r")
    BY <1>0, <2>1, <2>3, WaitOnWakes, Zenon DEF End
  <2>4. CASE Return(c)
    BY <1>1, <2>4, Zenon
  <2>5. CASE /\ pipes[i].len > 0
             /\ Transfer(c, i, IF n < pipes[i].len THEN pipes[i].len - n ELSE 0, "w")
    <3>1. (IF n < pipes[i].len THEN pipes[i].len - n ELSE 0) \in 0 .. PIPE_BUF_SIZE - 1
      BY <2>2, <2>5
    <3> QED
      BY <1>0, <2>1, <2>5, <3>1, TransferWakes, Zenon DEF End
  <2> QED
    BY <1>2, <2>3, <2>4, <2>5, Zenon DEF PipeRead
<1> QED
  BY <1>1, <1>2, Zenon DEF SysRead

(* write keeps it.                                                         *)
LEMMA WriteWakes ==
  ASSUME IInv, WakeInv, NEW c \in Slot, OnCpu(c), NEW fd \in Fd, NEW n \in Nat,
         SysWrite(c, fd, n)
  PROVE  WakeInv'
<1> DEFINE i == fds[c][fd].pipe
           room == SpaceAvailable(pipes[i])
           len == pipes[i].len + (IF n < room THEN n ELSE room)
<1>0. TypeOK
  BY DEF IInv
<1>1. CASE Return(c)
  BY <1>0, <1>1, ReturnWakes, SamePipes DEF Return
<1>2. CASE IsPipeEnd(c, fd, "w") /\ PipeWrite(c, i, n)
  <2>1. i \in PipeId /\ pipes[i] # NoPipe
    BY <1>2, PipeEndNamed
  <2>2. pipes[i].len \in 0 .. PIPE_BUF_SIZE - 1
    BY <2>1, PipeLen
  <2> HIDE DEF i
  <2>3. CASE pipes[i].open["r"] /\ room = 0 /\ WaitOn(c, i, "w")
    BY <1>0, <2>1, <2>3, WaitOnWakes, ZenonT(30) DEF End
  <2>4. CASE Return(c)
    BY <1>1, <2>4
  <2>5. CASE room > 0 /\ Transfer(c, i, len, "r")
    <3>1. len \in 0 .. PIPE_BUF_SIZE - 1
      BY <2>2, WriteFits DEF SpaceAvailable
    <3> HIDE DEF len
    <3> QED
      BY <1>0, <2>1, <2>5, <3>1, TransferWakes, Zenon DEF End
  <2> QED
    BY <1>2, <2>3, <2>4, <2>5, Zenon DEF PipeWrite
<1> QED
  BY <1>1, <1>2, Zenon DEF SysWrite

-----------------------------------------------------------------------------
(* close keeps it.                                                         *)
LEMMA CloseWakes ==
  ASSUME TypeOK, WakeInv, NEW c \in Slot, OnCpu(c), NEW fd \in Fd, SysClose(c, fd)
  PROVE  WakeInv'
<1> DEFINE W == WokenByCloses(pipes, fds[c], {fd})
<1>1. CASE Return(c)
  BY <1>1, ReturnWakes, SamePipes, Zenon DEF Return
<1>2. CASE pipes' = CloseRefs(pipes, fds[c], {fd}) /\ Wake(W, c)
  <2>1. pipes \in PipeTables /\ AllMustWait(pipes)
    BY DEF TypeOK, PipeTables, WakeInv
  <2>2. AllMustWait(pipes') /\ LosesOnly(pipes, pipes', W)
    BY <1>2, <2>1, CloseWaits, Zenon
  <2> QED
    BY <1>2, <2>2, WakeWakes, Zenon
<1>3. CASE Hang(W)
  BY <1>3, IdleWakes, Zenon DEF Hang
<1> QED
  BY <1>1, <1>2, <1>3, Zenon DEF SysClose

(* dup2 keeps it: the count of the clone comes before the close.           *)
LEMMA Dup2Wakes ==
  ASSUME TypeOK, WakeInv, NEW c \in Slot, OnCpu(c), NEW old \in Fd, NEW new \in Fd,
         SysDup2(c, old, new)
  PROVE  WakeInv'
<1> DEFINE one == [n \in Fd |-> IF n = old THEN fds[c][old] ELSE NoFd]
           q == CloneRefs(pipes, one)
           W == WokenByCloses(q, fds[c], {new})
<1>1. CASE Return(c)
  BY <1>1, ReturnWakes, SamePipes, Zenon DEF Return
<1>2. CASE pipes' = CloseRefs(q, fds[c], {new}) /\ Wake(W, c)
  <2>1. pipes \in PipeTables /\ AllMustWait(pipes)
    BY DEF TypeOK, PipeTables, WakeInv
  <2> HIDE DEF one
  <2>2. q \in PipeTables /\ AllMustWait(q) /\ LosesOnly(pipes, q, W)
    BY <2>1, CloneWaits, Zenon
  <2> HIDE DEF q
  <2>3. AllMustWait(pipes') /\ LosesOnly(q, pipes', W)
    BY <1>2, <2>2, CloseWaits, Zenon
  <2> HIDE DEF W
  <2>4. LosesOnly(pipes, pipes', W)
    BY <2>2, <2>3, Zenon DEF LosesOnly
  <2> QED
    BY <1>2, <2>3, <2>4, WakeWakes, Zenon
<1>3. CASE Hang(W)
  BY <1>3, IdleWakes, Zenon DEF Hang
<1> QED
  BY <1>1, <1>2, <1>3, Zenon DEF SysDup2

(* pipe keeps it: nobody waits on a new pipe.                              *)
LEMMA PipeWakes ==
  ASSUME TypeOK, WakeInv, NEW c \in Slot, OnCpu(c), SysPipe(c)
  PROVE  WakeInv'
<1>1. CASE Return(c)
  BY <1>1, ReturnWakes, SamePipes, Zenon DEF Return
<1>2. ASSUME NEW i \in PipeId, pipes[i] = NoPipe, NEW p,
             p \in {NewPipe, DropEnd(NewPipe, "r", 1)},
             pipes' = [pipes EXCEPT ![i] = p], MaybeSwitch(proc, c)
      PROVE  WakeInv'
  <2>1. MustWait(NewPipe)
    BY DEF MustWait, NewPipe, End
  <2>2. MustWait(p)
    <3>1. NewPipe \in Pipe /\ "r" \in End /\ 1 \in Nat
      BY NewPipeSound DEF End
    <3>2. MustWait(DropEnd(NewPipe, "r", 1))
      BY <2>1, <3>1, DropWaits, Zenon
    <3> QED
      BY <1>2, <2>1, <3>2, Zenon
  <2>3. /\ \A j \in PipeId : j # i => pipes'[j] = pipes[j]
        /\ pipes'[i] = p
    BY <1>2, Zenon DEF TypeOK
  <2>4. AllMustWait(pipes') /\ LosesOnly(pipes, pipes', {})
    BY <1>2, <2>2, <2>3, Zenon DEF WakeInv, AllMustWait, LosesOnly
  <2> QED
    BY <1>2, <2>4, ReturnWakes, Zenon
<1>3. CASE \E i \in PipeId :
             /\ First(i, FreePipes(pipes))
             /\ \/ pipes' = [pipes EXCEPT ![i] = NewPipe]
                \/ pipes' = [pipes EXCEPT ![i] = DropEnd(NewPipe, "r", 1)]
             /\ MaybeSwitch(proc, c)
  <2>1. PICK i \in PipeId :
             /\ First(i, FreePipes(pipes))
             /\ \/ pipes' = [pipes EXCEPT ![i] = NewPipe]
                \/ pipes' = [pipes EXCEPT ![i] = DropEnd(NewPipe, "r", 1)]
             /\ MaybeSwitch(proc, c)
    BY <1>3, Zenon
  <2>2. pipes[i] = NoPipe
    BY <2>1, Zenon DEF First, FreePipes
  <2> QED
    BY <1>2, <2>1, <2>2, Zenon
<1> QED
  BY <1>1, <1>3, Zenon DEF SysPipe

(* A table that differs by a new process, or by one that is gone after it  *)
(* exited, loses no sleeper.                                               *)
LEMMA OneSlotLosesNone ==
  ASSUME TypeOK, WakeInv, NEW c \in Slot, OnCpu(c), NEW s \in Slot, s # c,
         NEW v \in Process \cup {NoProc},
         v # NoProc => v.state = "Ready",
         proc[s] # NoProc => proc[s].state = "Exited",
         MaybeSwitch([proc EXCEPT ![s] = v], c),
         AllMustWait(pipes'), LosesOnly(pipes, pipes', {})
  PROVE  WakeInv'
<1> DEFINE u == [proc EXCEPT ![s] = v]
<1>1. proc \in ProcTables /\ proc[c] # NoProc
  BY DEF TypeOK, ProcTables, OnCpu, Owner
<1>2. u \in ProcTables /\ u[s] = v /\ \A z \in Slot : z # s => u[z] = proc[z]
  BY <1>1, Zenon DEF ProcTables
<1> HIDE DEF u
<1>3. SleepersStay(proc, u, pipes', {}) /\ LiveStay(proc, u, {})
  BY <1>2 DEF SleepersStay, LiveStay, Used
<1>4. NoSleeperLost(u, pipes')
  BY <1>3, NoneLost, Zenon DEF WakeInv
<1>5. u[c] # NoProc
  BY <1>1, <1>2
<1>6. NoSleeperLost(proc', pipes')
  BY <1>1, <1>2, <1>4, <1>5, SwitchLosesNone, Zenon DEF u
<1> QED
  BY <1>6, Zenon DEF WakeInv, AllMustWait, MustWait, NoSleeperLost, Registered, LiveChild

(* spawn keeps it, whether or not the child comes to be.                   *)
LEMMA SpawnWakes ==
  ASSUME TypeOK, WakeInv, NEW c \in Slot, OnCpu(c), SysSpawn(c)
  PROVE  WakeInv'
<1>1. pipes \in PipeTables /\ AllMustWait(pipes) /\ pipes' = CloneRefs(pipes, fds[c])
  BY DEF TypeOK, PipeTables, WakeInv, SysSpawn
<1>2. AllMustWait(pipes') /\ LosesOnly(pipes, pipes', {})
  BY <1>1, CloneWaits, Zenon
<1>3. CASE MaybeSwitch(proc, c)
  BY <1>2, <1>3, ReturnWakes, Zenon
<1>4. CASE \E s \in Slot :
             /\ First(s, FreeSlots(proc))
             /\ MaybeSwitch([proc EXCEPT ![s] = NewProcess(next_pid, current)], c)
  <2>1. PICK s \in Slot :
             /\ First(s, FreeSlots(proc))
             /\ MaybeSwitch([proc EXCEPT ![s] = NewProcess(next_pid, current)], c)
    BY <1>4, Zenon
  <2>2. s # c /\ proc[s] = NoProc
    BY <2>1, Zenon DEF First, FreeSlots, OnCpu, Owner
  <2>3. /\ NewProcess(next_pid, current) \in Process \cup {NoProc}
        /\ NewProcess(next_pid, current).state = "Ready"
    BY DEF NewProcess, Process, TypeOK, Pid, States
  <2> QED
    BY <1>2, <2>1, <2>2, <2>3, OneSlotLosesNone, Zenon
<1> QED
  BY <1>3, <1>4, Zenon DEF SysSpawn

(* wait keeps it: it reaps an exited child, or blocks its caller only when *)
(* a child has not exited.                                                 *)
LEMMA WaitWakes ==
  ASSUME TypeOK, CpuInv, WakeInv, NEW c \in Slot, OnCpu(c), SysWait(c)
  PROVE  WakeInv'
<1>1. CASE Return(c)
  BY <1>1, ReturnWakes, SamePipes, Zenon DEF Return
<1>2. CASE pipes' = pipes /\ \E z \in Slot :
             /\ First(z, ExitedChildren(proc, current))
             /\ MaybeSwitch([proc EXCEPT ![z] = NoProc], c)
  <2>1. PICK z \in Slot :
             /\ First(z, ExitedChildren(proc, current))
             /\ MaybeSwitch([proc EXCEPT ![z] = NoProc], c)
    BY <1>2, Zenon
  <2>2. z \in ExitedChildren(proc, current) /\ proc[z].state = "Exited"
    BY <2>1, Zenon DEF First, ExitedChildren
  <2>3. z # c
    BY <2>2, ReapsOnlyEmpty, Zenon DEF ReapsEmpty
  <2>4. AllMustWait(pipes') /\ LosesOnly(pipes, pipes', {})
    BY <1>2, SamePipes, Zenon
  <2> QED
    BY <2>1, <2>2, <2>3, <2>4, OneSlotLosesNone, Zenon
<1>3. CASE /\ Children(proc, current) # {}
           /\ ExitedChildren(proc, current) = {}
           /\ Block(c) /\ pipes' = pipes
  <2>1. LiveChild(proc, current)
    BY <1>3 DEF LiveChild, ExitedChildren
  <2> QED
    BY <1>3, <2>1, SamePipes, BlockWakes, Zenon
<1> QED
  BY <1>1, <1>2, <1>3, Zenon DEF SysWait

(* exit keeps it: the parent, which may have had no other live child, is   *)
(* unblocked with those whose pipe ends close.                             *)
LEMMA ExitWakes ==
  ASSUME TypeOK, WakeInv, NEW c \in Slot, OnCpu(c), SysExit(c)
  PROVE  WakeInv'
<1> DEFINE parent == {proc[c].parent_pid} \ {INVALID_PID}
           W == WokenByCloses(pipes, fds[c], Fd)
           t == SetState(Unblock(proc, W), c, "Exited")
           u == Unblock(t, parent)
           V == W \cup {proc[c].parent_pid, INVALID_PID}
<1>1. CASE Hang(W \cup parent)
  BY <1>1, IdleWakes, Zenon DEF Hang
<1>2. CASE pipes' = CloseRefs(pipes, fds[c], Fd) /\ MaybeSwitch(u, c)
  <2>1. /\ pipes \in PipeTables /\ AllMustWait(pipes)
        /\ proc \in ProcTables /\ proc[c] # NoProc
    BY DEF TypeOK, PipeTables, ProcTables, WakeInv, OnCpu, Owner
  <2>2. AllMustWait(pipes') /\ LosesOnly(pipes, pipes', W)
    BY <1>2, <2>1, CloseWaits, Zenon
  <2> HIDE DEF W
  <2>3. LosesOnly(pipes, pipes', V)
    BY <2>2, Zenon DEF LosesOnly
  <2>4. /\ Unblock(proc, W) \in ProcTables
        /\ t \in ProcTables /\ SameSlots(proc, t)
        /\ u \in ProcTables /\ SameSlots(proc, u)
    BY <2>1, UnblockType, SetStateType DEF SameSlots, States
  <2>5. \A z \in Slot : proc[z] # NoProc =>
          /\ Unblock(proc, W)[z].pid = proc[z].pid
          /\ Unblock(proc, W)[z].parent_pid = proc[z].parent_pid
          /\ Unblock(proc, W)[z].state = "Blocked" =>
               proc[z].state = "Blocked" /\ proc[z].pid \notin W
          /\ Unblock(proc, W)[z].state = "Exited" => proc[z].state = "Exited"
    BY <2>1, Zenon DEF Unblock, ProcTables, Process, States
  <2>6. \A z \in Slot : proc[z] # NoProc =>
          /\ t[z].pid = proc[z].pid /\ t[z].parent_pid = proc[z].parent_pid
          /\ t[z].state = "Blocked" =>
               z # c /\ proc[z].state = "Blocked" /\ proc[z].pid \notin W
          /\ t[z].state = "Exited" => z = c \/ proc[z].state = "Exited"
    BY <2>1, <2>4, <2>5 DEF SetState, ProcTables, Process
  <2> HIDE DEF t
  <2>7. \A z \in Slot : proc[z] # NoProc =>
          /\ u[z].pid = t[z].pid /\ u[z].parent_pid = t[z].parent_pid
          /\ u[z].state = "Blocked" => t[z].state = "Blocked" /\ t[z].pid \notin parent
          /\ u[z].state = "Exited" => t[z].state = "Exited"
    BY <2>4 DEF Unblock, ProcTables, Process, States, SameSlots
  <2> HIDE DEF u
  <2>8. \A z \in Slot : proc[z] # NoProc => proc[z].pid # INVALID_PID
    BY <2>1, Zenon DEF ProcTables, Process, INVALID_PID
  <2>9. SleepersStay(proc, u, pipes', V)
    <3> SUFFICES ASSUME NEW s \in Used(u), u[s].state = "Blocked"
                 PROVE  /\ s \in Used(proc) /\ proc[s].state = "Blocked"
                        /\ proc[s].pid = u[s].pid /\ u[s].pid \notin V
      BY Zenon DEF SleepersStay
    <3>1. s \in Slot /\ proc[s] # NoProc
      BY <2>4, Zenon DEF Used, SameSlots
    <3>2. /\ proc[s].state = "Blocked" /\ proc[s].pid = u[s].pid
          /\ proc[s].pid \notin W /\ proc[s].pid \notin parent
      BY <2>6, <2>7, <3>1, Zenon
    <3> QED
      BY <2>8, <3>1, <3>2, Zenon DEF Used
  <2>10. LiveStay(proc, u, V)
    BY <2>4, <2>6, <2>7, Zenon DEF LiveStay, Used, SameSlots
  <2>11. NoSleeperLost(u, pipes')
    BY <2>3, <2>9, <2>10, NoneLost, Zenon DEF WakeInv
  <2>12. NoSleeperLost(proc', pipes')
    BY <1>2, <2>1, <2>4, <2>11, SwitchLosesNone, Zenon DEF SameSlots
  <2> QED
    BY <2>2, <2>12, Zenon DEF WakeInv, AllMustWait, MustWait, NoSleeperLost, Registered,
                       LiveChild
<1> QED
  BY <1>1, <1>2, Zenon DEF SysExit

-----------------------------------------------------------------------------
(* Every call keeps the invariant.                                         *)
LEMMA NextWakeInv ==
  ASSUME IInv, CpuInv, WakeInv, [Next]_vars
  PROVE  WakeInv'
<1>0. TypeOK /\ UserFds \subseteq Fd /\ \A n \in 0 .. MaxIO : n \in Nat
  BY DEF IInv
<1>1. CASE UNCHANGED vars
  BY <1>1, IdleWakes DEF vars
<1>2. ASSUME NEW c \in Slot, OnCpu(c), Syscall(c) PROVE WakeInv'
  <2>1. ASSUME NEW fd \in UserFds, NEW n \in 0 .. MaxIO,
               SysRead(c, fd, n) \/ SysWrite(c, fd, n)
        PROVE  WakeInv'
    BY <1>0, <1>2, <2>1, ReadWakes, WriteWakes, Zenon
  <2>2. CASE SysOpen(c) \/ SysOther(c)
    <3>1. MaybeSwitch(proc, c) /\ pipes' = pipes
      BY <2>2 DEF SysOpen, SysOther, Return
    <3> QED
      BY <1>0, <1>2, <3>1, SamePipes, ReturnWakes, Zenon
  <2>3. ASSUME NEW fd \in UserFds, SysClose(c, fd) PROVE WakeInv'
    BY <1>0, <1>2, <2>3, CloseWakes, Zenon
  <2>4. ASSUME NEW old \in UserFds, NEW new \in UserFds, SysDup2(c, old, new)
        PROVE  WakeInv'
    BY <1>0, <1>2, <2>4, Dup2Wakes, Zenon
  <2>5. CASE SysPipe(c)
    BY <1>0, <1>2, <2>5, PipeWakes, Zenon
  <2>6. CASE SysSpawn(c)
    BY <1>0, <1>2, <2>6, SpawnWakes, Zenon
  <2>7. CASE SysWait(c)
    BY <1>0, <1>2, <2>7, WaitWakes, Zenon
  <2>8. CASE SysExit(c)
    BY <1>0, <1>2, <2>8, ExitWakes
  <2>9. \A n \in 1 .. MaxIO : n \in 0 .. MaxIO
    OBVIOUS
  <2> QED
    BY <1>2, <2>1, <2>2, <2>3, <2>4, <2>5, <2>6, <2>7, <2>8, <2>9, Zenon DEF Syscall
<1> QED
  BY <1>1, <1>2, Zenon DEF Next

(* What the calls keep holds from the first state on.                      *)
LEMMA WakeInvHolds == Spec => []WakeInv
<1>1. Init => WakeInv
  BY DEF Init, Launch, NewProcess, WakeInv, AllMustWait, NoSleeperLost, Used
<1>2. IInv /\ CpuInv /\ WakeInv /\ [Next]_vars => WakeInv'
  BY NextWakeInv
<1> QED
  BY <1>1, <1>2, KernelInvariant, PTL DEF Spec

(* Nobody waits for what is there: who is registered with a pipe by        *)
(* sys_read or sys_write (src/syscall.rs) finds no byte, or no space, and  *)
(* has the opposite end open, in every reachable state.                    *)
THEOREM WaitsAreNeeded == Spec => []WaitersMustWait
  BY WakeInvHolds, WakeInvMeans, PTL

(* No lost wake-up in sys_read, sys_write, sys_wait and the calls that     *)
(* wake (src/syscall.rs, src/fd.rs): in every reachable state a process    *)
(* that is Blocked is registered with a pipe or has a child that has not   *)
(* exited.                                                                 *)
THEOREM NoLostWakeup == Spec => []BlockedWillBeWoken
  BY WakeInvHolds, WakeInvMeans, PTL
=============================================================================
