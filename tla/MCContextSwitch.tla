-------------------------- MODULE MCContextSwitch --------------------------
(***************************************************************************)
(* ContextSwitch for TLC: the ELF files and arguments that are spawned.    *)
(* The window of the configurations has 32 bytes, 64 .. 95.                *)
(***************************************************************************)
EXTENDS ContextSwitch

Elf(entry, headers) ==
  [len |-> 10, ident |-> "elf64 lsb v1", phentsize |-> 2, phoff |-> 4,
   entry |-> entry, headers |-> headers]

Header(type, vaddr, memsz, bytes) ==
  [type |-> type, vaddr |-> vaddr, memsz |-> memsz, bytes |-> bytes]

(* The shell: one segment, one argument.                                   *)
MCShell ==
  [file |-> Elf(0, <<Header("PT_LOAD", 0, 10, <<9, 9, 9, 9, 9, 9, 9, 9>>)>>), args |-> <<<<7>>>>]

(* Two segments, the lower one second, linked above 0, one of them so long *)
(* that the stack overwrites its end, and a header that is not loaded; an  *)
(* argument longer than get_arg reads, and a shorter one.                  *)
Good ==
  [file |-> Elf(40, <<Header("PT_LOAD", 44, 20, <<1>>), Header("PT_NOTE", 0, 90, <<>>),
                      Header("PT_LOAD", 40, 2, <<2, 3>>)>>),
   args |-> <<<<5, 6, 5, 6>>, <<8>>>>]

(* Arguments that do not fit into the window.                              *)
TooLong ==
  [file |-> Good.file, args |-> <<<<5>>, [i \in 1 .. 31 |-> 6]>>]

(* Files that do not load: too short, no ELF, wrong headers, headers past  *)
(* the end, too large.                                                     *)
Bad ==
  {[file |-> f, args |-> <<>>] :
     f \in {[Good.file EXCEPT !.len = 3], [Good.file EXCEPT !.ident = "text"],
            [Good.file EXCEPT !.phentsize = 3], [Good.file EXCEPT !.phoff = 5],
            Elf(0, <<Header("PT_LOAD", 3, 1, <<1>>), Header("PT_LOAD", 4, 32, <<>>)>>)}}

MCPrograms == {Good, TooLong} \cup Bad
=============================================================================
