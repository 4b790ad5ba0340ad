--------------------------- MODULE ContextSwitch ---------------------------
(***************************************************************************)
(* What a context switch saves and restores (src/proc.rs, src/scheduler.rs *)
(* and the window handling of sys_spawn in src/syscall.rs), on top of the  *)
(* process steps of module Processes.                                      *)
(*                                                                         *)
(* All processes run in one window of memory and in one set of registers.  *)
(* What a register holds is abstracted to a stamp: whose value it is, and  *)
(* as of which of that process's system calls.  Between two calls a        *)
(* program may change all of them, so at its next call they carry the next *)
(* stamp.  The window has such a stamp for the memory the program works    *)
(* in, and the bytes (module Exec) of what it was started from.            *)
(***************************************************************************)
EXTENDS Processes, Exec

CONSTANTS CallMod,   \* bound: the calls of a process are counted modulo CallMod
          MaxPid,    \* bound: the last pid that is given out
          Shell,     \* /bin/sh, as an ELF file and its arguments
          Programs   \* what sys_spawn may be asked for: ELF files and arguments

(* The image of program x, built over what window w holds.                 *)
Built(w, x) == BuildUserStack(LoadIntoUserWindow(w, x.file), x.args)

NoImage == [argv |-> USER_IMAGE_BASE, window |-> [a \in Window |-> 0]]

(* What is not modelled: load panics on a segment with more bytes than     *)
(* memory, build_user_stack on more than 16 arguments and launch_user_shell*)
(* when the shell does not load.  build_user_stack compares strings, but   *)
(* not the words it pushes after them, with the start of the window:       *)
(* programs leave room for these.                                          *)
ASSUME ContextAssumption ==
  /\ CallMod \in Nat \ {0, 1} /\ MaxPid \in Nat \ {0}
  /\ \A x \in Programs \cup {Shell} :
       /\ x.file.headers \in Headers /\ x.args \in Arguments
       /\ \A header \in Range(x.file.headers) : Len(header.bytes) <= header.memsz
       /\ Len(x.args) <= 16
  /\ Loads(Shell.file) /\ ~Built(NoImage.window, Shell).failed
  /\ \A x \in Programs \cup {Shell} :
       LET image == BuildUserStack(NoImage.window, x.args)
       IN  image.failed \/ image.sp >= USER_IMAGE_BASE

VARIABLES
  calls,   \* per slot: the system calls its process has made
  hw,      \* sepc, user sp, a0 of the trap frame and the user window
  saved,   \* per slot: Process::pc, sp, memory, argc, argv_ptr and started
  started, \* per slot: the program and the arguments it was started with
  spoiled  \* per slot: a spawn of it failed after it overwrote the window

ctxVars == <<calls, hw, saved, started, spoiled>>
vars == <<procVars, ctxVars>>

Stamp == [pid : Nat \ {0}, n : 0 .. CallMod - 1]

At(pid, n) == [pid |-> pid, n |-> n]

(* What a process starts from: Process::new leaves `started' FALSE.        *)
FreshContext(pid, image) ==
  [pc |-> At(pid, 0), sp |-> At(pid, 0), argc |-> At(pid, 0), argv |-> image.argv,
   memory |-> [own |-> At(pid, 0), bytes |-> image.window], started |-> FALSE]

(* The machine when every part of it belongs to stamp x.                   *)
Machine(x, bytes) ==
  [pc |-> x, sp |-> x, a0 |-> x, window |-> [own |-> x, bytes |-> bytes]]

(* launch_user_shell builds the shell's stack twice, in the same place,    *)
(* and enters the shell through the trampoline.                            *)
Init ==
  LET first == Built(NoImage.window, Shell)
      image == BuildUserStack(first.window, Shell.args) IN
  /\ Launch
  /\ calls = [s \in Slot |-> 0]
  /\ hw = Machine(At(1, 0), image.window)
  /\ saved = [s \in Slot |-> FreshContext(1, IF s = 0 THEN image ELSE NoImage)]
  /\ started = [s \in Slot |-> Shell]
  /\ spoiled = [s \in Slot |-> FALSE]

(* A faulty variant: the stack pointer is not saved.                       *)
Save_NoStack(ctx, m) == [ctx EXCEPT !.pc = m.pc, !.memory = m.window]

(* save_current_registers keeps sepc and sscratch, save_current_memory the *)
(* window; the trap frame is not looked at.                                *)
Save(ctx, m) == [ctx EXCEPT !.pc = m.pc, !.sp = m.sp, !.memory = m.window]

(* restore_process_memory and restore_process_registers.  The trap frame   *)
(* is written only the first time.                                         *)
Restore(ctx, m) ==
  [m EXCEPT !.pc = ctx.pc, !.sp = ctx.sp, !.window = ctx.memory,
            !.a0 = IF ctx.started THEN @ ELSE ctx.argc]

(* maybe_switch saves the caller unless it can run and is alone.           *)
Saves(c) == current' # current \/ proc'[c].state \in {"Blocked", "Exited"}

(* The machine part of maybe_switch, m being the machine the call leaves   *)
(* and ctx the contexts in the table.                                      *)
Switch(c, m, ctx) ==
  LET kept == IF Saves(c) THEN [ctx EXCEPT ![c] = Save(@, m)] ELSE ctx IN
  \/ current' = current /\ hw' = m /\ saved' = kept
  \/ /\ current' # current
     /\ \E s \in Slot :
          /\ proc'[s] # NoProc /\ proc'[s].pid = current'
          /\ hw' = Restore(kept[s], m)
          /\ saved' = [kept EXCEPT ![s].started = TRUE]

(* The machine when the call of slot c returns: its result is in a0.       *)
Trapped(c) ==
  Machine(At(current, (calls[c] + 1) % CallMod), hw.window.bytes)

Counted(c) == [calls EXCEPT ![c] = (@ + 1) % CallMod]

BlockedPids == {proc[s].pid : s \in {r \in Used(proc) : proc[r].state = "Blocked"}}

(* A call that leaves registers, window and the saved contexts alone.      *)
Plain(c) ==
  /\ \/ \E W \in SUBSET BlockedPids : Returns(c, W) \/ Exits(c, W)
     \/ Blocks(c)
  /\ Switch(c, Trapped(c), saved)
  /\ calls' = Counted(c)
  /\ UNCHANGED <<started, spoiled>>

(* sys_wait takes the entry of an exited child out of the table.           *)
Reap(c, z) ==
  /\ Reaps(c, z)
  /\ Switch(c, Trapped(c), [saved EXCEPT ![z] = FreshContext(1, NoImage)])
  /\ calls' = [Counted(c) EXCEPT ![z] = 0]
  /\ started' = [started EXCEPT ![z] = Shell]
  /\ spoiled' = [spoiled EXCEPT ![z] = FALSE]

(* sys_spawn: the child's image is built in the window, copied into the    *)
(* child's entry, the first free one, and the caller's window is put back. *)
Spawn(c, s, x) ==
  /\ next_pid <= MaxPid
  /\ \A r \in FreeSlots(proc) : s <= r
  /\ Loads(x.file)
  /\ \E image \in {Built(hw.window.bytes, x)} :
       /\ ~image.failed
       /\ Spawns(c, s)
       /\ Switch(c, Trapped(c), [saved EXCEPT ![s] = FreshContext(next_pid, image)])
  /\ calls' = [Counted(c) EXCEPT ![s] = 0]
  /\ started' = [started EXCEPT ![s] = x]
  /\ spoiled' = [spoiled EXCEPT ![s] = FALSE]

(* sys_spawn when it fails: a program that cannot be loaded, or a full     *)
(* process table, leaves the caller's window as it was, but a stack that   *)
(* does not fit is noticed when the window holds the child's image, and    *)
(* sys_spawn returns without putting the caller's back.                    *)
SpawnFails(c) ==
  /\ Returns(c, {})
  /\ calls' = Counted(c)
  /\ UNCHANGED started
  /\ \/ /\ \/ \E x \in Programs : ~Loads(x.file)
           \/ FreeSlots(proc) = {}
        /\ Switch(c, Trapped(c), saved)
        /\ UNCHANGED spoiled
     \/ \E x \in Programs :
          /\ Loads(x.file)
          /\ \E image \in {Built(hw.window.bytes, x)} :
               /\ image.failed
               /\ Switch(c, [Trapped(c) EXCEPT !.window.bytes = image.window], saved)
          /\ spoiled' = [spoiled EXCEPT ![c] = TRUE]

Next ==
  \E c \in Slot :
    /\ Owner(c)
    /\ \/ Plain(c)
       \/ SpawnFails(c)
       \/ \E s \in Slot : Reap(c, s) \/ (\E x \in Programs : Spawn(c, s, x))

Spec == Init /\ [][Next]_vars

(* Whoever owns the CPU makes another system call some day.  Nothing in    *)
(* the kernel takes the CPU away from a program that does not, so this is  *)
(* what the kernel asks of programs; which call it is stays open.          *)
FairSpec == Spec /\ WF_vars(Next)

-----------------------------------------------------------------------------
(* Every variable has the type of the code's field.                        *)
TypeOK ==
  /\ proc \in [Slot -> Process \cup {NoProc}]
  /\ current \in Nat \ {0} /\ next_pid \in Nat
  /\ calls \in [Slot -> 0 .. CallMod - 1]
  /\ {hw.pc, hw.sp, hw.a0, hw.window.own} \subseteq Stamp
  /\ hw.window.bytes \in Image
  /\ \A s \in Slot :
       /\ {saved[s].pc, saved[s].sp, saved[s].argc, saved[s].memory.own} \subseteq Stamp
       /\ saved[s].memory.bytes \in Image
       /\ saved[s].argv \in Window /\ saved[s].argv % WORD = 0
  /\ started \in [Slot -> Programs \cup {Shell}]

(* The stamp of slot s: the state in which its process left user mode.     *)
Latest(s) == At(proc[s].pid, calls[s])

(* The memory of slot s: the window, or what its entry keeps of it.        *)
Memory(s) == IF proc[s].pid = current THEN hw.window ELSE saved[s].memory

(* Whoever maybe_switch leaves on the CPU continues at its own program     *)
(* counter, on its own stack and in its own memory, as of its latest call; *)
(* and whoever is not on the CPU has exactly these saved in its entry.     *)
ContinuesWhereItLeft ==
  \A s \in Used(proc) :
    /\ Memory(s).own = Latest(s)
    /\ IF proc[s].pid = current
       THEN hw.pc = Latest(s) /\ hw.sp = Latest(s)
       ELSE saved[s].pc = Latest(s) /\ saved[s].sp = Latest(s)

(* However often a process was switched out and in, and whatever was       *)
(* loaded into the window for others meanwhile, get_arg finds in its       *)
(* memory the arguments it was spawned with, in order; only a process      *)
(* whose own spawn failed half way is excused.                             *)
ArgumentsArrive ==
  \A s \in Used(proc) : ~spoiled[s] =>
    \A i \in DOMAIN started[s].args :
      GetArg(Memory(s).bytes, saved[s].argv, i - 1) = Shortened(started[s].args[i])

(* What a program that loads must find below its stack.                    *)
Expected ==
  [x \in {y \in Programs \cup {Shell} : Loads(y.file)} |->
     LET image == Built(NoImage.window, x)
         Bytes(k) == {<<Place(x.file, k, i), Content(x.file.headers[k], i)>> :
                        i \in {j \in 0 .. x.file.headers[k].memsz - 1 :
                                 ~Covered(x.file, k, Place(x.file, k, j))}}
     IN IF image.failed THEN {}
        ELSE {b \in UNION {Bytes(k) : k \in Loaded(x.file)} : b[1] < image.sp}]

(* Likewise for the program itself, although other programs used the       *)
(* memory before and load_into_user_window clears none of it.  Where the   *)
(* stack reaches down into the image the stack wins: load checks the image *)
(* against the end of the window, build_user_stack the strings against its *)
(* start, and neither looks at the other.                                  *)
ProgramArrives ==
  \A s \in Used(proc) : ~spoiled[s] =>
    \A b \in Expected[started[s]] : Memory(s).bytes[b[1]] = b[2]

(* The return value that a process finds in a0 is that of its own latest   *)
(* call, and a new process finds its argc there.                           *)
ReturnValuePreserved == \A s \in Slot : Owner(s) => hw.a0 = Latest(s)

(* Slot s stops being able to run.                                         *)
Stops(s) == s \in Runnable(proc) /\ ~(s \in Runnable(proc)')

(* Nobody who can run is kept from the CPU for ever by processes in higher *)
(* slots, nor by lower ones that go on calling: schedule goes round.  Only *)
(* when processes in lower slots block or exit again and again does a slot *)
(* wait without end, for schedule then starts over at the first slot.      *)
StarvedOnlyByLowerSlots ==
  \A s \in Slot :
    /\ <>[](s \in Runnable(proc))
    /\ <>[][\A r \in Slot : r < s => ~Stops(r)]_vars
    => []<>Owner(s)
=============================================================================
