-------------------------------- MODULE Exec --------------------------------
(***************************************************************************)
(* How a program gets into the user window: the ELF parser of src/elf.rs,  *)
(* the loader and the stack builder of src/process.rs, and get_arg of the  *)
(* user library (user_bin/src/lib.rs), which reads the arguments back.     *)
(*                                                                         *)
(* The window is a function from addresses to bytes.  Words are stored     *)
(* with their low byte first; addresses are below 256, so that byte is the *)
(* word and the others are 0.                                              *)
(***************************************************************************)
EXTENDS Integers, Sequences, FiniteSetsExt, Functions

CONSTANTS USER_IMAGE_BASE,   \* first address of the window
          USER_IMAGE_LIMIT,  \* first address after the window
          WORD,              \* bytes in a usize
          HEADER,            \* bytes in an ELF header
          PHENT,             \* bytes in a program header
          GET_ARG_MAX        \* get_arg gives up after this many bytes

ASSUME ExecAssumption ==
  /\ {USER_IMAGE_BASE, USER_IMAGE_LIMIT, WORD, HEADER, PHENT, GET_ARG_MAX} \subseteq Nat \ {0}
  /\ USER_IMAGE_BASE < USER_IMAGE_LIMIT /\ USER_IMAGE_LIMIT <= 256
  /\ USER_IMAGE_BASE % WORD = 0 /\ USER_IMAGE_LIMIT % (2 * WORD) = 0

Window == USER_IMAGE_BASE .. USER_IMAGE_LIMIT - 1

Byte == 0 .. 255

(* What the window, or a copy of it, holds.                                *)
Image == [Window -> Byte]

ProgramHeader == [type : STRING, vaddr : Nat, memsz : Nat, bytes : Seq(Byte)]

Headers == Seq(ProgramHeader)

(* What a program is started with.  A NUL in an argument would end it.     *)
Text == Seq(1 .. 255)

Arguments == Seq(Text)

(* ElfFile::parse: the checks of the header and of the place of the        *)
(* program headers.  sys_spawn does not tell the errors apart.             *)
Parses(file) ==
  /\ file.len >= HEADER
  /\ file.ident = "elf64 lsb v1"
  /\ file.phentsize = PHENT
  /\ file.phoff + Len(file.headers) * PHENT <= file.len

IsLoad(header) == header.type = "PT_LOAD"

Segments(file) == {header \in Range(file.headers) : IsLoad(header)}

(* The lowest address of the program, its entry if it has no segment.      *)
BaseVaddr(file) ==
  LET vaddrs == {seg.vaddr : seg \in Segments(file)} IN
  IF vaddrs = {} THEN file.entry ELSE Min(vaddrs)

(* Where an address of the file goes; saturating_sub keeps it from falling *)
(* below the window.                                                       *)
Dest(file, vaddr) == USER_IMAGE_BASE + Max({vaddr - BaseVaddr(file), 0})

Fits(file) ==
  \A seg \in Segments(file) : Dest(file, seg.vaddr) + seg.memsz <= USER_IMAGE_LIMIT

(* process::load succeeds.                                                 *)
Loads(file) == Parses(file) /\ Fits(file)

(* Bytes written at an address of window w.                                *)
CopyToUser(w, at, bytes) ==
  [a \in Window |-> IF a \in at .. at + Len(bytes) - 1 THEN bytes[a - at + 1] ELSE w[a]]

(* A faulty variant: only the bytes of the file are copied, and memory of  *)
(* the segment past them keeps what it had.                                *)
Data_NoZeroes(seg) == seg.bytes

(* The contents of a segment: the bytes of the file, then zeroes.          *)
Data(seg) == [i \in 1 .. seg.memsz |-> IF i <= Len(seg.bytes) THEN seg.bytes[i] ELSE 0]

(* load_into_user_window: the segments are written in the order of their   *)
(* headers, and nothing else is.                                           *)
LoadIntoUserWindow(w, file) ==
  LET v[k \in 0 .. Len(file.headers)] ==
        IF k = 0 THEN w
        ELSE IF IsLoad(file.headers[k])
        THEN CopyToUser(v[k - 1], Dest(file, file.headers[k].vaddr), Data(file.headers[k]))
        ELSE v[k - 1]
  IN v[Len(file.headers)]

(* One round of the first loop of build_user_stack.                        *)
PushString(index, arg, st) ==
  LET at == st.sp - (Len(arg) + 1) IN
  IF st.failed \/ at < USER_IMAGE_BASE
  THEN [st EXCEPT !.failed = TRUE]
  ELSE [sp |-> at, arg_ptrs |-> [st.arg_ptrs EXCEPT ![index] = at],
        window |-> CopyToUser(st.window, at, Append(arg, 0)), failed |-> FALSE]

(* That loop, from the last argument to the first.                         *)
PushStrings(w, args) ==
  LET argc == Len(args)
      st[k \in 0 .. argc] ==
        IF k = 0
        THEN [sp |-> USER_IMAGE_LIMIT, arg_ptrs |-> [i \in 1 .. argc |-> 0],
              window |-> w, failed |-> FALSE]
        ELSE PushString(argc + 1 - k, args[argc + 1 - k], st[k - 1])
  IN st[argc]

PushWord(word, st) ==
  LET at == st.sp - WORD IN
  [sp |-> at,
   window |-> CopyToUser(st.window, at, [i \in 1 .. WORD |-> IF i = 1 THEN word ELSE 0])]

(* A faulty variant: the pointers are pushed from the first to the last.   *)
PushPointers_Reversed(ptrs, st) ==
  LET q[k \in 0 .. Len(ptrs)] == IF k = 0 THEN st ELSE PushWord(ptrs[k], q[k - 1])
  IN q[Len(ptrs)]

(* The argv array, from its last pointer to its first.                     *)
PushPointers(ptrs, st) ==
  LET argc == Len(ptrs)
      q[k \in 0 .. argc] == IF k = 0 THEN st ELSE PushWord(ptrs[argc + 1 - k], q[k - 1])
  IN q[argc]

(* A faulty variant: the words follow the strings as they are.             *)
Align_Not(sp) == sp

Align(sp) == sp - (sp % (2 * WORD))

(* build_user_stack: the strings, alignment to two words, a padding word   *)
(* when the number of words is odd, NULL, the pointers and argc.           *)
BuildUserStack(w, args) ==
  LET strings == PushStrings(w, args)
      aligned == [sp |-> Align(strings.sp), window |-> strings.window]
      padded == IF (Len(args) + 2) % 2 # 0 THEN PushWord(0, aligned) ELSE aligned
      pointers == PushPointers(strings.arg_ptrs, PushWord(0, padded))
      top == PushWord(Len(args), pointers)
  IN IF strings.failed
     THEN [failed |-> TRUE, window |-> strings.window]
     ELSE [failed |-> FALSE, window |-> top.window, sp |-> top.sp,
           argc |-> Len(args), argv |-> pointers.sp]

(* The loop of get_arg: up to a zero byte, or until len > GET_ARG_MAX.     *)
ArgLength(w, ptr) ==
  Min({n \in 0 .. GET_ARG_MAX + 1 : ptr + n \in Window /\ (n > GET_ARG_MAX \/ w[ptr + n] = 0)})

(* get_arg, for an index below argc, in a program that runs in window w.   *)
GetArg(w, argv, index) ==
  LET ptr == w[argv + index * WORD]
  IN [i \in 1 .. ArgLength(w, ptr) |-> w[ptr + i - 1]]

-----------------------------------------------------------------------------
(* An argument as get_arg hands it out: cut after GET_ARG_MAX + 1 bytes.   *)
Shortened(arg) == SubSeq(arg, 1, Min({Len(arg), GET_ARG_MAX + 1}))

(* The headers of the segments that load puts in place.                    *)
Loaded(file) == {k \in DOMAIN file.headers : file.headers[k].type = "PT_LOAD"}

LowAddress(file) ==
  CHOOSE v \in {file.headers[k].vaddr : k \in Loaded(file)} :
    \A k \in Loaded(file) : v <= file.headers[k].vaddr

(* Where byte i of segment k belongs: as far from the base of the window   *)
(* as its address is from the lowest one.                                  *)
Place(file, k, i) == USER_IMAGE_BASE + file.headers[k].vaddr - LowAddress(file) + i

(* What belongs there: the byte of the file, or zero in the rest.          *)
Content(header, i) == IF i < Len(header.bytes) THEN header.bytes[i + 1] ELSE 0

(* A later segment lies over address a.                                    *)
Covered(file, k, a) ==
  \E l \in Loaded(file) : l > k /\ \E i \in 0 .. file.headers[l].memsz - 1 : a = Place(file, l, i)
=============================================================================
