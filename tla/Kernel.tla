------------------------------- MODULE Kernel -------------------------------
(***************************************************************************)
(* The system calls of src/syscall.rs over the process table, the          *)
(* scheduler, the descriptor tables and the pipe table.                    *)
(*                                                                         *)
(* One hart runs everything.  A trap disables interrupts and nothing       *)
(* preempts the kernel, so a system call with the maybe_switch that ends   *)
(* it (handle_ecall) is one step, taken by the process that owns the CPU.  *)
(* Programs are arbitrary: the process on the CPU issues any call with any *)
(* arguments, whatever its recorded state, since a return from a trap does *)
(* not look at that state.                                                 *)
(* Processes gives the steps of the process table; a call here is one of   *)
(* them with what it does to descriptors and pipes.                        *)
(*                                                                         *)
(* PROCESS_TABLE is a spin::Mutex.  Scheduler::unblock takes it, and every *)
(* caller of unblock in the system calls already holds it.  Relock says    *)
(* what the second acquisition does: FALSE is the library's lock, which    *)
(* spins forever (`hung'); TRUE is a lock its holder may take again, under *)
(* which the wake-ups have the effect they are written for.  What is       *)
(* proved holds for both.                                                  *)
(***************************************************************************)
EXTENDS FdTable, Processes

CONSTANTS Relock,   \* may the holder of PROCESS_TABLE acquire it again?
          MaxPid,   \* bound: the last pid that is given out
          MaxIO,    \* bound: the longest buffer passed to read or write
          UserFds,  \* bound: the descriptor numbers that calls name
          MaxLeaks  \* bound: spawns that fail with a cloned pipe end

ASSUME KernelAssumption ==
  /\ Relock \in BOOLEAN
  /\ MaxPid \in Nat \ {0}
  /\ MaxIO \in Nat \ {0}
  /\ UserFds \subseteq Fd
  /\ MaxLeaks \in Nat

VARIABLES
  fds,       \* the descriptor table of the process in each slot
  pipes,     \* PIPE_TABLE
  hung,      \* the hart spins on PROCESS_TABLE, which it holds itself
  leaks      \* history: how often references were dropped without a close

vars == <<proc, current, next_pid, fds, pipes, hung, leaks>>

(* launch_user_shell gives the shell the three standard descriptors.       *)
Init ==
  /\ Launch
  /\ fds = [s \in Slot |-> IF s = 0 THEN WithStandard ELSE EmptyTable]
  /\ pipes = [i \in PipeId |-> NoPipe]
  /\ hung = FALSE
  /\ leaks = 0

(* Slot c holds the process whose call is being served.                    *)
OnCpu(c) == ~hung /\ Owner(c)

(* A call that changes nothing but who runs next.                          *)
Return(c) ==
  /\ MaybeSwitch(proc, c)
  /\ UNCHANGED <<next_pid, fds, pipes, hung, leaks>>

(* block_current, then the return with EAGAIN.                             *)
Block(c) == MaybeSwitch(SetState(proc, c, "Blocked"), c)

(* The call unblocks the pids W with PROCESS_TABLE held.                   *)
Completes(W) == W = {} \/ Relock

(* The second acquisition never returns.  Nothing reads memory again, so   *)
(* it is left as it was before the call.                                   *)
Hang(W) ==
  /\ ~Completes(W)
  /\ hung' = TRUE
  /\ UNCHANGED <<proc, current, next_pid, fds, pipes, leaks>>

Wake(W, c) == Completes(W) /\ MaybeSwitch(Unblock(proc, W), c)

-----------------------------------------------------------------------------
(* Descriptor fd of slot c is end e of an allocated pipe.                  *)
IsPipeEnd(c, fd, e) ==
  /\ fds[c][fd] \in PipeFd
  /\ fds[c][fd].end = e
  /\ pipes[fds[c][fd].pipe] # NoPipe

(* Register the caller on end e of pipe i and block it.                    *)
WaitOn(c, i, e) ==
  /\ pipes' = [pipes EXCEPT ![i].waiting[e] = @ \cup {current}]
  /\ Block(c)
  /\ UNCHANGED <<next_pid, fds, hung, leaks>>

(* A faulty variant: a transfer wakes nobody.                              *)
Transfer_Silent(c, i, len, e) ==
  /\ pipes' = [pipes EXCEPT ![i].len = len]
  /\ Wake({}, c)
  /\ UNCHANGED <<next_pid, fds, hung, leaks>>

(* Move pipe i to length len and, when bytes moved, unblock those who wait *)
(* on end e.                                                               *)
Transfer(c, i, len, e) ==
  LET W == IF len # pipes[i].len THEN pipes[i].waiting[e] ELSE {}
  IN \/ /\ pipes' = [pipes EXCEPT ![i].len = len, ![i].waiting[e] = @ \ W]
        /\ Wake(W, c)
        /\ UNCHANGED <<next_pid, fds, hung, leaks>>
     \/ Hang(W)

(* Read at most n bytes from pipe i: block while it is empty and can still *)
(* be written, report end of file when it cannot.                          *)
PipeRead(c, i, n) ==
  LET q == pipes[i] IN
  \/ q.len = 0 /\ q.open["w"] /\ WaitOn(c, i, "r")
  \/ q.len = 0 /\ ~q.open["w"] /\ Return(c)
  \/ q.len > 0 /\ Transfer(c, i, IF n < q.len THEN q.len - n ELSE 0, "w")

(* Write n bytes to pipe i, or as many as fit: EPIPE without a read end,   *)
(* block while the pipe is full.                                           *)
PipeWrite(c, i, n) ==
  LET q == pipes[i]
      room == SpaceAvailable(q)
  IN \/ ~q.open["r"] /\ Return(c)
     \/ q.open["r"] /\ room = 0 /\ WaitOn(c, i, "w")
     \/ /\ q.open["r"] /\ room > 0
        /\ Transfer(c, i, q.len + (IF n < room THEN n ELSE room), "r")

(* sys_read with a buffer of n bytes.  A UART or file read, and EBADF,     *)
(* leave the modelled state alone.                                         *)
SysRead(c, fd, n) ==
  \/ ~IsPipeEnd(c, fd, "r") /\ Return(c)
  \/ IsPipeEnd(c, fd, "r") /\ PipeRead(c, fds[c][fd].pipe, n)

(* sys_write of n > 0 bytes (n = 0 returns at once, see SysOther).         *)
SysWrite(c, fd, n) ==
  \/ ~IsPipeEnd(c, fd, "w") /\ Return(c)
  \/ IsPipeEnd(c, fd, "w") /\ PipeWrite(c, fds[c][fd].pipe, n)

-----------------------------------------------------------------------------
(* sys_open of a file that exists or is created: the lowest free number,   *)
(* or EMFILE.                                                              *)
SysOpen(c) ==
  \/ FreeFds(fds[c]) = {} /\ Return(c)
  \/ \E n \in Fd :
       /\ First(n, FreeFds(fds[c]))
       /\ fds' = [fds EXCEPT ![c][n] = PlainFd]
       /\ MaybeSwitch(proc, c)
       /\ UNCHANGED <<next_pid, pipes, hung, leaks>>

(* sys_close.                                                              *)
SysClose(c, fd) ==
  LET W == WokenByCloses(pipes, fds[c], {fd}) IN
  \/ fds[c][fd] = NoFd /\ Return(c)
  \/ /\ fds[c][fd] # NoFd
     /\ fds' = [fds EXCEPT ![c][fd] = NoFd]
     /\ pipes' = CloseRefs(pipes, fds[c], {fd})
     /\ Wake(W, c)
     /\ UNCHANGED <<next_pid, hung, leaks>>
  \/ fds[c][fd] # NoFd /\ Hang(W)

(* sys_dup2: the clone of `old' is counted before what `new' held is       *)
(* closed.                                                                 *)
SysDup2(c, old, new) ==
  LET one == [n \in Fd |-> IF n = old THEN fds[c][old] ELSE NoFd]
      q == CloneRefs(pipes, one)
      W == WokenByCloses(q, fds[c], {new})
  IN \/ fds[c][old] = NoFd /\ Return(c)
     \/ /\ fds[c][old] # NoFd
        /\ fds' = [fds EXCEPT ![c][new] = fds[c][old]]
        /\ pipes' = CloseRefs(q, fds[c], {new})
        /\ Wake(W, c)
        /\ UNCHANGED <<next_pid, hung, leaks>>
     \/ fds[c][old] # NoFd /\ Hang(W)

(* sys_pipe.  The pipe is made first, then the two numbers are allocated.  *)
(* With no free number the pipe keeps both counts at one; with a single    *)
(* one its read end is closed again and the write end keeps its count.     *)
SysPipe(c) ==
  LET free == FreeFds(fds[c]) IN
  \/ FreePipes(pipes) = {} /\ Return(c)
  \/ \E i \in PipeId :
       /\ First(i, FreePipes(pipes))
       /\ \/ /\ free = {}
             /\ pipes' = [pipes EXCEPT ![i] = NewPipe]
             /\ fds' = fds
             /\ leaks' = leaks + 1
          \/ \E n \in Fd :
               /\ free = {n}
               /\ pipes' = [pipes EXCEPT ![i] = DropEnd(NewPipe, "r", 1)]
               /\ fds' = fds
               /\ leaks' = leaks + 1
          \/ \E r, w \in Fd :
               /\ First(r, free)
               /\ First(w, free \ {r})
               /\ pipes' = [pipes EXCEPT ![i] = NewPipe]
               /\ fds' = [fds EXCEPT ![c][r] = [pipe |-> i, end |-> "r"],
                                     ![c][w] = [pipe |-> i, end |-> "w"]]
               /\ leaks' = leaks
       /\ MaybeSwitch(proc, c)
       /\ UNCHANGED <<next_pid, hung>>

-----------------------------------------------------------------------------
(* A faulty variant: the pid is not used up.                               *)
SysSpawn_SamePid(c) ==
  /\ pipes' = CloneRefs(pipes, fds[c])
  /\ UNCHANGED <<hung, leaks, next_pid>>
  /\ \E s \in Slot :
       /\ First(s, FreeSlots(proc))
       /\ fds' = [fds EXCEPT ![s] = fds[c]]
       /\ MaybeSwitch([proc EXCEPT ![s] = NewProcess(next_pid, current)], c)

(* sys_spawn.  The descriptor table is cloned, and its pipe ends counted,  *)
(* before the image is built and the slot is looked for; when one of those *)
(* fails the clone is dropped without closing it.  What fails before the   *)
(* clone is SysOther.                                                      *)
SysSpawn(c) ==
  /\ pipes' = CloneRefs(pipes, fds[c])
  /\ UNCHANGED hung
  /\ \/ /\ HasPipeFd(fds[c]) => leaks < MaxLeaks
        /\ leaks' = IF HasPipeFd(fds[c]) THEN leaks + 1 ELSE leaks
        /\ MaybeSwitch(proc, c)
        /\ UNCHANGED <<next_pid, fds>>
     \/ \E s \in Slot :
          /\ First(s, FreeSlots(proc))
          /\ next_pid <= MaxPid
          /\ next_pid' = next_pid + 1
          /\ fds' = [fds EXCEPT ![s] = fds[c]]
          /\ MaybeSwitch([proc EXCEPT ![s] = NewProcess(next_pid, current)], c)
          /\ UNCHANGED leaks

(* sys_wait: reap the first exited child, or block until one exits.        *)
SysWait(c) ==
  \/ Children(proc, current) = {} /\ Return(c)
  \/ \E z \in Slot :
       /\ First(z, ExitedChildren(proc, current))
       /\ fds' = [fds EXCEPT ![z] = EmptyTable]
       /\ MaybeSwitch([proc EXCEPT ![z] = NoProc], c)
       /\ UNCHANGED <<next_pid, pipes, hung, leaks>>
  \/ /\ Children(proc, current) # {}
     /\ ExitedChildren(proc, current) = {}
     /\ Block(c)
     /\ UNCHANGED <<next_pid, fds, pipes, hung, leaks>>

(* Two faulty variants: the pipe ends of the process are not closed, and   *)
(* its parent is left asleep.                                              *)
SysExit_EndsKept(c) ==
  /\ fds' = [fds EXCEPT ![c] = EmptyTable]
  /\ MaybeSwitch(SetState(proc, c, "Exited"), c)
  /\ UNCHANGED <<next_pid, pipes, hung, leaks>>

SysExit_ParentAsleep(c) ==
  LET parent == {}
      W == WokenByCloses(pipes, fds[c], Fd)
      t == SetState(Unblock(proc, W), c, "Exited")
  IN \/ /\ Completes(W \cup parent)
        /\ fds' = [fds EXCEPT ![c] = EmptyTable]
        /\ pipes' = CloseRefs(pipes, fds[c], Fd)
        /\ MaybeSwitch(Unblock(t, parent), c)
        /\ UNCHANGED <<next_pid, hung, leaks>>
     \/ Hang(W \cup parent)

(* sys_exit: close every descriptor, become Exited, unblock the parent.    *)
SysExit(c) ==
  LET parent == {proc[c].parent_pid} \ {INVALID_PID}
      W == WokenByCloses(pipes, fds[c], Fd)
      t == SetState(Unblock(proc, W), c, "Exited")
  IN \/ /\ Completes(W \cup parent)
        /\ fds' = [fds EXCEPT ![c] = EmptyTable]
        /\ pipes' = CloseRefs(pipes, fds[c], Fd)
        /\ MaybeSwitch(Unblock(t, parent), c)
        /\ UNCHANGED <<next_pid, hung, leaks>>
     \/ Hang(W \cup parent)

(* Every other call or early return: the path-based file calls, a number   *)
(* no call has, a bad pointer or descriptor, a failed open or load.        *)
SysOther(c) == Return(c)

Syscall(c) ==
  \/ \E fd \in UserFds, n \in 0 .. MaxIO : SysRead(c, fd, n)
  \/ \E fd \in UserFds, n \in 1 .. MaxIO : SysWrite(c, fd, n)
  \/ SysOpen(c)
  \/ \E fd \in UserFds : SysClose(c, fd)
  \/ \E old, new \in UserFds : SysDup2(c, old, new)
  \/ SysPipe(c)
  \/ SysSpawn(c)
  \/ SysWait(c)
  \/ SysExit(c)
  \/ SysOther(c)

Next == \E c \in Slot : OnCpu(c) /\ Syscall(c)

Spec == Init /\ [][Next]_vars

-----------------------------------------------------------------------------
(* Every variable has the type of the code's field.                        *)
TypeOK ==
  /\ proc \in [Slot -> Process \cup {NoProc}]
  /\ current \in Pid
  /\ next_pid \in Pid
  /\ fds \in [Slot -> [Fd -> Desc]]
  /\ pipes \in [PipeId -> Pipe \cup {NoPipe}]
  /\ hung \in BOOLEAN
  /\ leaks \in Nat

(* The descriptors, over all processes, that name end e of pipe i.         *)
Refs(i, e) == {x \in Slot \X Fd : fds[x[1]][x[2]] = [pipe |-> i, end |-> e]}

(* A pipe descriptor held by any process names an allocated pipe whose end *)
(* is open: close_pipe_end never reports end of file, EPIPE, or frees and  *)
(* reuses a slot, while somebody still holds the end.                      *)
FdsNeverDangle ==
  \A s \in Slot, n \in Fd :
    fds[s][n] \in PipeFd =>
      LET d == fds[s][n]
      IN pipes[d.pipe] # NoPipe /\ pipes[d.pipe].open[d.end]

(* As long as no call has failed half-way, the two counts of a pipe are    *)
(* the numbers of descriptors that name its ends, and a slot of PIPE_TABLE *)
(* is in use exactly while a descriptor names it.                          *)
RefcountExact ==
  leaks = 0 =>
    \A i \in PipeId :
      IF pipes[i] = NoPipe
      THEN \A e \in End : Refs(i, e) = {}
      ELSE /\ \A e \in End : pipes[i].refcount[e] = Cardinality(Refs(i, e))
           /\ \E e \in End : Refs(i, e) # {}

(* Whoever waits to read finds the pipe empty and writable, whoever waits  *)
(* to write finds it full and readable: no transfer or close leaves a      *)
(* waiter behind that could proceed.                                       *)
WaitersMustWait ==
  \A i \in PipeId :
    pipes[i] # NoPipe =>
      /\ pipes[i].waiting["r"] # {} => pipes[i].len = 0 /\ pipes[i].open["w"]
      /\ pipes[i].waiting["w"] # {} =>
           SpaceAvailable(pipes[i]) = 0 /\ pipes[i].open["r"]

(* No lost wake-up: a Blocked process is registered with a pipe that will  *)
(* unblock it, or it has a child whose exit will.                          *)
BlockedWillBeWoken ==
  \A s \in Used(proc) :
    proc[s].state = "Blocked" =>
      \/ \E i \in PipeId, e \in End :
           pipes[i] # NoPipe /\ proc[s].pid \in pipes[i].waiting[e]
      \/ \E z \in Children(proc, proc[s].pid) : proc[z].state # "Exited"

(* An entry leaves the process table only by its parent's wait, and only   *)
(* after it exited and gave its descriptors back.                          *)
ReapedAfterExit ==
  [][\A s \in Slot :
       proc[s] # NoProc /\ proc'[s] = NoProc =>
         /\ proc[s].state = "Exited"
         /\ proc[s].parent_pid = current
         /\ fds[s] = EmptyTable]_vars

(* Forgetting descriptors and pipes, every system call is one of the steps *)
(* of module Processes, so what holds of those holds of the kernel.        *)
IsProcesses == ProcSpec
=============================================================================
