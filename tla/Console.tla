------------------------------ MODULE Console ------------------------------
(***************************************************************************)
(* Console input and the traps that carry it: the UART and its interrupt   *)
(* (src/uart.rs, src/interrupts.rs), the trap entry and the trampoline     *)
(* into user mode (src/kernel_entry.S), and the read of descriptor 0 by a  *)
(* program (UartFd::read of src/fd.rs).                                    *)
(*                                                                         *)
(* interrupts::init sets sstatus.SIE, so the boot code and the trampoline  *)
(* run with interrupts enabled, as user mode does.  A trap clears SIE: the *)
(* interrupt handler and every system call run to their end undisturbed,   *)
(* and each is one step.                                                   *)
(***************************************************************************)
EXTENDS Integers, Sequences

CONSTANTS FifoSize,  \* size of the UART's receive FIFO (hardware)
          MinCap,    \* capacity of a VecDeque after its first growth
          MaxTyped   \* bound: bytes that arrive

ASSUME ConsoleAssumption ==
  FifoSize \in Nat \ {0} /\ MinCap \in Nat \ {0} /\ MaxTyped \in Nat

VARIABLES
  at,        \* the instruction the hart executes next, see Points
  sp,        \* whose stack sp points to, "none" for address zero
  sscratch,  \* what the sscratch register holds, likewise
  sepc,      \* where sret returns to
  fifo,      \* bytes in the UART's FIFO
  pending,   \* the PLIC holds an interrupt of the UART
  rx,        \* RX_QUEUE
  cap,       \* the capacity of RX_QUEUE
  got,       \* bytes that programs have read
  typed,     \* history: bytes the UART has accepted
  hit,       \* history: an interrupt came after the trampoline wrote sscratch
  stuck      \* the handler spins on the heap lock of the code it interrupted

trap == <<at, sp, sscratch, sepc>>
uart == <<fifo, pending, rx, cap, got, typed>>
consoleVars == <<trap, uart, hit, stuck>>

(* boot, and boot inside the allocator; then, of enter_user_trampoline,    *)
(* before `csrw sscratch, sp', before `mv sp, a1', before `csrw sepc, t1'  *)
(* and before `sret'; then the program, or user mode at a kernel address.  *)
Points == {"boot", "alloc", "enter", "swapped", "stacked", "armed", "user", "astray"}

UserMode == at \in {"user", "astray"}

ConsoleInit ==
  /\ at = "boot" /\ sp = "kernel" /\ sscratch = "none" /\ sepc = "none"
  /\ fifo = <<>> /\ pending = FALSE /\ rx = <<>> /\ cap = 0
  /\ got = <<>> /\ typed = <<>>
  /\ hit = FALSE /\ stuck = FALSE

(* A byte arrives.  With the FIFO full the hardware drops it.              *)
Type ==
  /\ Len(typed) < MaxTyped
  /\ Len(fifo) < FifoSize
  /\ fifo' = Append(fifo, Len(typed) + 1)
  /\ typed' = Append(typed, Len(typed) + 1)
  /\ pending' = TRUE
  /\ UNCHANGED <<trap, rx, cap, got, hit, stuck>>

-----------------------------------------------------------------------------
(* The boot code enters and leaves the allocator, and in the end           *)
(* launch_user_shell calls the trampoline.                                 *)
Allocate ==
  /\ \/ at = "boot" /\ at' = "alloc"
     \/ at = "alloc" /\ at' = "boot"
  /\ UNCHANGED <<sp, sscratch, sepc>>

Launch == at = "boot" /\ at' = "enter" /\ UNCHANGED <<sp, sscratch, sepc>>

(* A faulty variant: sp is loaded from the register of the entry point.    *)
Trampoline_WrongRegister ==
  \/ /\ at = "enter" /\ at' = "swapped"
     /\ sscratch' = sp
     /\ UNCHANGED <<sp, sepc>>
  \/ /\ at = "swapped" /\ at' = "stacked"
     /\ sp' = "entry"
     /\ UNCHANGED <<sscratch, sepc>>

(* enter_user_trampoline, one instruction that matters at a time.          *)
Trampoline ==
  \/ /\ at = "enter" /\ at' = "swapped"
     /\ sscratch' = sp
     /\ UNCHANGED <<sp, sepc>>
  \/ /\ at = "swapped" /\ at' = "stacked"
     /\ sp' = "user"
     /\ UNCHANGED <<sscratch, sepc>>
  \/ /\ at = "stacked" /\ at' = "armed"
     /\ sepc' = "user"
     /\ UNCHANGED <<sp, sscratch>>
  \/ /\ at = "armed"
     /\ at' = IF sepc = "user" THEN "user" ELSE "astray"
     /\ UNCHANGED <<sp, sscratch, sepc>>

(* _start_trap from its entry to its sret.  It takes a trap to come from   *)
(* supervisor mode if sscratch is zero, and it leaves by what SPP says.    *)
TrapFromSupervisor ==
  /\ sp' = IF sscratch = "none" THEN sp ELSE sscratch
  /\ sscratch' = "none"
  /\ sepc' = at
  /\ at' = at

(* A faulty variant: the two stack pointers are not swapped back.          *)
TrapFromUser_NotSwappedBack ==
  /\ sp' = sscratch /\ sscratch' = sp
  /\ sepc' = at
  /\ at' = at

TrapFromUser ==
  /\ IF sscratch = "none" THEN sp' = "none" /\ sscratch' = sp
                          ELSE UNCHANGED <<sp, sscratch>>
  /\ sepc' = at
  /\ at' = at

-----------------------------------------------------------------------------
(* The capacity of RX_QUEUE once the bytes of the FIFO are pushed, one at  *)
(* a time: a push on a full queue doubles it.                              *)
GrownCap ==
  LET room[k \in 0 .. Len(fifo)] ==
        IF k = 0 THEN cap
        ELSE IF Len(rx) + k <= room[k - 1] THEN room[k - 1]
        ELSE IF room[k - 1] = 0 THEN MinCap ELSE 2 * room[k - 1]
  IN  room[Len(fifo)]

(* A faulty variant: the bytes are put at the front of RX_QUEUE.           *)
Drain_AtFront ==
  /\ rx' = fifo \o rx
  /\ fifo' = <<>>
  /\ pending' = FALSE
  /\ UNCHANGED <<cap, got, typed, stuck>>

(* supervisor_external and uart::handle_interrupt: drain the FIFO into     *)
(* RX_QUEUE.  A queue that has to grow takes the heap lock.                *)
Drain ==
  LET n == Len(rx) + Len(fifo) IN
  \/ /\ n <= cap \/ at # "alloc"
     /\ rx' = rx \o fifo
     /\ fifo' = <<>>
     /\ pending' = FALSE
     /\ cap' = GrownCap
     /\ UNCHANGED <<got, typed, stuck>>
  \/ /\ n > cap /\ at = "alloc"
     /\ stuck' = TRUE
     /\ UNCHANGED uart

Interrupt ==
  /\ pending
  /\ IF UserMode THEN TrapFromUser ELSE TrapFromSupervisor
  /\ hit' = (hit \/ at \in {"swapped", "stacked", "armed"})
  /\ Drain

(* A faulty variant: only the queue is looked at.                          *)
ReadByte_NoPoll ==
  /\ rx # <<>>
  /\ got' = Append(got, Head(rx))
  /\ rx' = Tail(rx)
  /\ UNCHANGED fifo

(* read_byte_blocking: RX_QUEUE first, then the FIFO; with neither it      *)
(* spins until a byte arrives.                                             *)
ReadByte ==
  \/ /\ rx # <<>>
     /\ got' = Append(got, Head(rx))
     /\ rx' = Tail(rx)
     /\ UNCHANGED fifo
  \/ /\ rx = <<>> /\ fifo # <<>>
     /\ got' = Append(got, Head(fifo))
     /\ fifo' = Tail(fifo)
     /\ UNCHANGED rx

(* A program reads a byte from the console.                                *)
ReadCall ==
  /\ at = "user"
  /\ TrapFromUser
  /\ ReadByte
  /\ UNCHANGED <<pending, cap, typed, hit, stuck>>

Hart(A) == ~stuck /\ A /\ UNCHANGED <<uart, hit, stuck>>

ConsoleNext ==
  \/ Type
  \/ Hart(Allocate) \/ Hart(Launch) \/ Hart(Trampoline)
  \/ ~stuck /\ Interrupt
  \/ ~stuck /\ ReadCall

ConsoleSpec == ConsoleInit /\ [][ConsoleNext]_consoleVars

(* The boot code gets to the trampoline, the hart executes it, and the     *)
(* program reads the console again and again.  Nothing is asked of the     *)
(* interrupt: the PLIC may never deliver one.                              *)
FairConsoleSpec ==
  /\ ConsoleSpec
  /\ SF_consoleVars(Hart(Launch)) /\ WF_consoleVars(Hart(Allocate)) /\ WF_consoleVars(Hart(Trampoline))
  /\ WF_consoleVars(~stuck /\ ReadCall)

-----------------------------------------------------------------------------
(* Every variable has the type of the register or field it stands for.     *)
ConsoleTypeOK ==
  /\ at \in Points
  /\ {sp, sscratch} \subseteq {"none", "kernel", "user"}
  /\ sepc \in Points \cup {"none"}
  /\ fifo \in Seq(Nat) /\ rx \in Seq(Nat) /\ got \in Seq(Nat) /\ typed \in Seq(Nat)
  /\ pending \in BOOLEAN /\ hit \in BOOLEAN /\ stuck \in BOOLEAN
  /\ cap \in Nat

(* Programs get every byte the UART accepted once and in order, whether    *)
(* the interrupt handler or a polling read takes it from the FIFO.         *)
InputInOrder == got \o rx \o fifo = typed

(* Every byte the UART accepted reaches the program, with interrupts or    *)
(* without: read_byte_blocking polls the FIFO when the queue is empty.     *)
InputDelivered ==
  \/ <>(stuck \/ hit)
  \/ \A n \in 1 .. MaxTyped : (Len(typed) >= n) ~> (Len(got) >= n)

(* A program runs on its own stack with the kernel's in sscratch, whatever *)
(* traps it and the boot code took, unless one came in the trampoline.     *)
StacksKeptApart ==
  UserMode /\ ~hit => at = "user" /\ sp = "user" /\ sscratch = "kernel"

(* _start_trap tells a trap from supervisor mode by a zero sscratch and so *)
(* gives every trapped context its own stack back: a program always runs   *)
(* on its own, with the kernel's in sscratch.                              *)
EveryTrapTellsMode ==
  UserMode => at = "user" /\ sp = "user" /\ sscratch = "kernel"
=============================================================================
