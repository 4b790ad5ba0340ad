------------------------------- MODULE Shell --------------------------------
(***************************************************************************)
(* The user shell of user_bin/src/bin/sh.rs running pipelines on the       *)
(* kernel of module Kernel, and the programs it runs, cat and wc.  The     *)
(* shell is the process in slot 0.  Whoever owns the CPU makes its next    *)
(* system call; Kernel says what the call does and who runs after it, and  *)
(* here the caller moves on by what the call answered.  A call answered    *)
(* with EAGAIN is made again, as the loops of user_bin/src/lib.rs do.      *)
(*                                                                         *)
(* Programs also write messages to descriptor 2.  Those change nothing but *)
(* who owns the CPU, and are Log, a step that may come before any other.   *)
(***************************************************************************)
EXTENDS Kernel, SequencesExt

CONSTANTS
  Lines,       \* bound: the lines that are typed, as sequences of tokens
  MaxLines,    \* bound: how many lines are typed
  FileSizes,   \* bound: the sizes a file may have
  MAX_ARGS,    \* words a command takes
  MAX_STAGES   \* commands a pipeline takes

ASSUME ShellAssumption ==
  /\ MaxLines \in Nat
  /\ FileSizes \subseteq Nat
  /\ MAX_ARGS \in Nat \ {0}
  /\ MAX_STAGES \in Nat \ {0}

VARIABLES
  sh,       \* the shell: where run_pipeline is, and its locals
  prog,     \* the program in each slot: where it is, and its locals
  moved,    \* history: the bytes each stage of the line has read and written
  lines,    \* history: how many lines were typed
  typed,    \* history: the last of them
  strays,   \* history: children of pipelines that were given up
  untidy    \* history: a pipeline was given up or left a descriptor behind

shellVars == <<sh, prog, moved, lines, typed, strays, untidy>>
allVars == <<vars, shellVars>>

NONE == -1                     \* no descriptor
SAVED_IN == MAX_FDS - 2        \* 14 in the code, of 16
SAVED_OUT == MAX_FDS - 1       \* 15

-----------------------------------------------------------------------------
(* parse_commands, one token at a time.  `want' is set between an operator *)
(* of redirection and its path.                                            *)

EmptyCommand == [args |-> <<>>, stdin |-> FALSE, stdout |-> FALSE]

Operators == {"|", "<", ">", ">>"}

(* A faulty variant: what follows a redirection is its path, whatever it   *)
(* is.                                                                     *)
IsPath_Any(token) == TRUE

IsPath(token) == token \notin Operators

ParseToken(st, token) ==
  CASE st.err -> st
    [] ~st.err /\ st.want # "word" ->
         IF ~IsPath(token) THEN [st EXCEPT !.err = TRUE]
         ELSE [st EXCEPT !.want = "word",
                         !.cur = IF st.want = "<" THEN [@ EXCEPT !.stdin = TRUE]
                                 ELSE [@ EXCEPT !.stdout = TRUE]]
    [] ~st.err /\ st.want = "word" /\ token = "|" ->
         IF st.cur.args = <<>> \/ Len(st.cmds) >= MAX_STAGES
         THEN [st EXCEPT !.err = TRUE]
         ELSE [st EXCEPT !.cmds = Append(@, st.cur), !.cur = EmptyCommand]
    [] ~st.err /\ st.want = "word" /\ token \in Operators \ {"|"} ->
         [st EXCEPT !.want = token]
    [] OTHER ->
         IF Len(st.cur.args) >= MAX_ARGS THEN [st EXCEPT !.err = TRUE]
         ELSE [st EXCEPT !.cur.args = Append(@, token)]

(* The pipeline a line stands for, or <<>> for an error.                   *)
ParseCommands(line) ==
  LET start == [cmds |-> <<>>, cur |-> EmptyCommand, want |-> "word", err |-> FALSE]
      end == FoldLeft(ParseToken, start, line)
  IN  IF end.err \/ end.want # "word" \/ end.cur.args = <<>> \/ Len(end.cmds) >= MAX_STAGES
      THEN <<>>
      ELSE Append(end.cmds, end.cur)

-----------------------------------------------------------------------------
(* run_pipeline.  Between two stages and inside spawn_command the shell    *)
(* makes a fixed list of calls; sh.todo holds what is left of it.          *)

Call(op, a, b) == [op |-> op, a |-> a, b |-> b]
If(cond, calls) == IF cond THEN calls ELSE <<>>

(* A faulty variant: the saved descriptors are closed before they are put  *)
(* back.                                                                   *)
RestoreStdio_CloseFirst ==
  <<Call("close", SAVED_IN, NONE), Call("dup2", SAVED_IN, 0),
    Call("close", SAVED_OUT, NONE), Call("dup2", SAVED_OUT, 1)>>

RestoreStdio ==
  <<Call("dup2", SAVED_IN, 0), Call("close", SAVED_IN, NONE),
    Call("dup2", SAVED_OUT, 1), Call("close", SAVED_OUT, NONE)>>

(* spawn_command up to the spawn.                                          *)
SpawnCommand(in, out) ==
  <<Call("dup2", 0, SAVED_IN), Call("dup2", 1, SAVED_OUT)>>
  \o If(in # NONE, <<Call("dup2", in, 0)>>)
  \o If(out # NONE, <<Call("dup2", out, 1)>>)
  \o <<Call("spawn", NONE, NONE)>>

(* A faulty variant: the shell keeps what the stage reads from.            *)
CloseUsed_KeepsInput(in, out) == If(out # NONE, <<Call("close", out, NONE)>>)

CloseUsed(in, out) ==
  If(in # NONE, <<Call("close", in, NONE)>>) \o If(out # NONE, <<Call("close", out, NONE)>>)

Nothing == [i \in 1 .. MAX_STAGES |-> [in |-> 0, out |-> 0]]

AtPrompt == [pc |-> "prompt", cmds |-> <<>>, idx |-> 0, stdin_fd |-> NONE,
             in |-> NONE, out |-> NONE, pipe_read_fd |-> NONE, todo |-> <<>>, waits |-> 0]

Cmd == sh.cmds[sh.idx]
IsLast == sh.idx = Len(sh.cmds)

(* The loop gives up at stage sh.idx, after the calls in todo: nobody      *)
(* waits for the stages before it.                                         *)
GiveUp(todo) ==
  /\ sh' = [sh EXCEPT !.pc = "calls", !.todo = Append(todo, Call("give up", NONE, NONE))]
  /\ strays' = strays + sh.idx - 1
  /\ untidy' = TRUE

(* read_line and parse_commands.                                           *)
Prompt ==
  /\ sh.pc = "prompt" /\ lines < MaxLines
  /\ lines' = lines + 1
  /\ \E line \in Lines :
       /\ typed' = line
       /\ sh' = IF ParseCommands(line) = <<>> THEN AtPrompt
                ELSE [AtPrompt EXCEPT !.pc = "stdin", !.cmds = ParseCommands(line), !.idx = 1]
       /\ moved' = Nothing
  /\ SysRead(0, 0, 1)
  /\ UNCHANGED <<prog, strays, untidy>>

(* The descriptor the next open of slot c gets, or NONE.                   *)
Opened(c, fd) == IF FreeFds(fds[c]) = {} THEN fd = NONE ELSE First(fd, FreeFds(fds[c]))

(* Where the stage reads: the file it names, else the pipe before it,      *)
(* which a file leaves open in the shell.                                  *)
Stdin ==
  /\ sh.pc = "stdin"
  /\ \/ /\ ~Cmd.stdin
        /\ sh' = [sh EXCEPT !.pc = "stdout", !.in = sh.stdin_fd]
        /\ UNCHANGED <<vars, strays, untidy>>
     \/ /\ Cmd.stdin
        /\ SysOpen(0)
        /\ \E fd \in Fd \cup {NONE} :
             /\ Opened(0, fd)
             /\ IF fd = NONE THEN GiveUp(<<>>)
                ELSE /\ sh' = [sh EXCEPT !.pc = "stdout", !.in = fd]
                     /\ untidy' = (untidy \/ sh.stdin_fd # NONE)
                     /\ UNCHANGED strays
     \/ Cmd.stdin /\ SysOther(0) /\ GiveUp(<<>>)
  /\ UNCHANGED <<prog, moved, lines, typed>>

(* Where the stage writes: the pipe to the next one, a file or nowhere     *)
(* else.                                                                   *)
Stdout ==
  /\ sh.pc = "stdout"
  /\ LET goOn(out, r) == /\ sh' = [sh EXCEPT !.pc = "calls", !.out = out, !.pipe_read_fd = r,
                                             !.todo = SpawnCommand(sh.in, out)]
                         /\ UNCHANGED <<strays, untidy>>
         closeIn == If(sh.in # NONE, <<Call("close", sh.in, NONE)>>)
     IN  \/ IsLast /\ ~Cmd.stdout /\ goOn(NONE, NONE) /\ UNCHANGED vars
         \/ /\ IsLast /\ Cmd.stdout
            /\ SysOpen(0)
            /\ \E fd \in Fd \cup {NONE} :
                 Opened(0, fd) /\ IF fd = NONE THEN GiveUp(closeIn) ELSE goOn(fd, NONE)
         \/ IsLast /\ Cmd.stdout /\ SysOther(0) /\ GiveUp(closeIn)
         \/ /\ ~IsLast
            /\ SysPipe(0)
            /\ LET free == FreeFds(fds[0])
               IN  IF FreePipes(pipes) = {} \/ Cardinality(free) < 2 THEN GiveUp(closeIn)
                   ELSE \E r, w \in Fd : First(r, free) /\ First(w, free \ {r}) /\ goOn(w, r)
  /\ UNCHANGED <<prog, moved, lines, typed>>

(* The program of stage i in a new process.                                *)
Program(cmd, i) ==
  [name |-> cmd.args[1], argc |-> Len(cmd.args), files |-> Len(cmd.args) - 1, stage |-> i,
   pc |-> IF Len(cmd.args) > 1 THEN "open" ELSE "read", fd |-> 0, left |-> NONE, held |-> 0]

NoProgram == [name |-> "none"]

(* The spawn of spawn_command: restore_stdio whatever it answers, then the *)
(* error, or the closes and the next stage.  A path that names no program  *)
(* fails before the kernel clones anything.                                *)
Spawn ==
  /\ \/ /\ SysSpawn(0) \/ SysOther(0)
        /\ next_pid' = next_pid
        /\ GiveUp(RestoreStdio)
        /\ UNCHANGED prog
     \/ /\ SysSpawn(0)
        /\ next_pid' # next_pid
        /\ prog' = [s \in Slot |-> IF proc[s] = NoProc /\ proc'[s] # NoProc
                                   THEN Program(Cmd, sh.idx) ELSE prog[s]]
        /\ sh' = [sh EXCEPT !.todo = RestoreStdio \o CloseUsed(sh.in, sh.out)
                                     \o <<Call("next", NONE, NONE)>>]
        /\ UNCHANGED <<strays, untidy>>
  /\ UNCHANGED <<moved, lines, typed>>

(* A faulty variant: the last child is not waited for.                     *)
NextStage_OneShort ==
  [sh EXCEPT !.pc = IF IsLast THEN "wait" ELSE "stdin", !.todo = <<>>, !.idx = @ + 1,
             !.stdin_fd = sh.pipe_read_fd, !.waits = Len(sh.cmds) - 1]

NextStage ==
  [sh EXCEPT !.pc = IF IsLast THEN "wait" ELSE "stdin", !.todo = <<>>, !.idx = @ + 1,
             !.stdin_fd = sh.pipe_read_fd, !.waits = Len(sh.cmds)]

(* run_pipeline returns.                                                   *)
Ends ==
  /\ sh' = AtPrompt
  /\ typed' = <<>>
  /\ moved' = Nothing
  /\ UNCHANGED <<prog, lines, strays, untidy>>

Calls ==
  /\ sh.pc = "calls"
  /\ LET call == Head(sh.todo)
         rest == [sh EXCEPT !.todo = Tail(@)]
     IN  \/ call.op = "spawn" /\ Spawn
         \/ /\ \/ call.op = "dup2" /\ SysDup2(0, call.a, call.b) /\ sh' = rest
               \/ call.op = "close" /\ SysClose(0, call.a) /\ sh' = rest
               \/ call.op = "next" /\ UNCHANGED vars /\ sh' = NextStage
            /\ UNCHANGED <<prog, moved, lines, typed, strays, untidy>>
         \/ call.op = "give up" /\ UNCHANGED vars /\ Ends

(* One wait for every stage.  EAGAIN means again.                          *)
Wait ==
  /\ sh.pc = "wait"
  /\ SysWait(0)
  /\ LET again == Children(proc, current) # {} /\ ExitedChildren(proc, current) = {}
     IN  \/ /\ again \/ sh.waits > 1
            /\ sh' = IF again THEN sh ELSE [sh EXCEPT !.waits = @ - 1]
            /\ UNCHANGED <<prog, moved, lines, typed, strays, untidy>>
         \/ ~again /\ sh.waits = 1 /\ Ends

ShellStep == Prompt \/ Stdin \/ Stdout \/ Calls \/ Wait

-----------------------------------------------------------------------------
(* cat and wc.  Both read each file they are given, or their standard      *)
(* input, until a read answers 0; cat writes what it read before it reads  *)
(* again, wc writes the counts of a file after it, and the totals of       *)
(* several.  A file is read to the size it has at the first read.          *)

Goes(c, p) == prog' = [prog EXCEPT ![c] = p]
Counts(c, what, n) ==
  moved' = IF untidy THEN Nothing ELSE [moved EXCEPT ![prog[c].stage][what] = @ + n]

Open(c) ==
  LET p == prog[c]
  IN  /\ p.pc = "open"
      /\ \/ /\ SysOpen(c)
            /\ \E fd \in Fd \cup {NONE} :
                 Opened(c, fd) /\ Goes(c, [p EXCEPT !.pc = IF fd = NONE THEN "exit" ELSE "read", !.fd = fd])
         \/ SysOther(c) /\ Goes(c, [p EXCEPT !.pc = "exit"])
      /\ UNCHANGED moved

(* A faulty variant: cat takes the end of its input for one more piece.    *)
AfterRead_PastEnd(p, n) ==
  IF p.name = "wc" THEN IF n = 0 THEN [p EXCEPT !.pc = "report", !.held = 1] ELSE p
  ELSE [p EXCEPT !.pc = "write", !.held = n]

(* What follows a read of n bytes.                                         *)
AfterRead(p, n) ==
  CASE n = 0 -> IF p.name = "wc" THEN [p EXCEPT !.pc = "report", !.held = 1]
                ELSE [p EXCEPT !.pc = IF p.files > 0 THEN "close" ELSE "exit"]
    [] n > 0 /\ p.name = "wc" -> p
    [] OTHER -> [p EXCEPT !.pc = "write", !.held = n]

Read(c) ==
  LET p == prog[c]
      d == fds[c][p.fd]
  IN  /\ p.pc = "read"
      /\ SysRead(c, p.fd, MaxIO)
      /\ \/ /\ d = PlainFd
            /\ \E left \in (IF p.left = NONE THEN FileSizes ELSE {p.left}) :
                 LET n == IF left < MaxIO THEN left ELSE MaxIO
                 IN  Goes(c, AfterRead([p EXCEPT !.left = left - n], n)) /\ Counts(c, "in", n)
         \/ /\ d \in PipeFd
            /\ LET q == pipes[d.pipe]
                   n == IF q.len < MaxIO THEN q.len ELSE MaxIO
               IN  IF n = 0 /\ q.open["w"] THEN UNCHANGED <<prog, moved>>
                   ELSE Goes(c, AfterRead(p, n)) /\ Counts(c, "in", n)

(* What follows a write.                                                   *)
Written(p) ==
  [p EXCEPT !.held = 0,
            !.pc = IF p.name # "wc" THEN "read" ELSE IF p.files > 0 THEN "close" ELSE "exit"]

(* A faulty variant: a short write is taken for a whole one.               *)
Wrote_Short(p, n) == Written(p)

(* The loop of lib.rs: a pipe may take n of the bytes only, and the rest   *)
(* is written again.                                                       *)
Wrote(p, n) == IF n = p.held THEN Written(p) ELSE [p EXCEPT !.held = @ - n]

(* cat and wc do not look at what write answers, so EPIPE ends it like     *)
(* success.                                                                *)
Write(c) ==
  LET p == prog[c]
      d == fds[c][1]
  IN  /\ p.pc \in {"write", "report"}
      /\ SysWrite(c, 1, p.held)
      /\ \/ d = PlainFd /\ Goes(c, Written(p)) /\ UNCHANGED moved
         \/ /\ d \in PipeFd
            /\ LET q == pipes[d.pipe]
                   room == SpaceAvailable(q)
                   n == IF room < p.held THEN room ELSE p.held
               IN  CASE ~q.open["r"] -> Goes(c, Written(p)) /\ UNCHANGED moved
                     [] q.open["r"] /\ room = 0 -> UNCHANGED <<prog, moved>>
                     [] OTHER -> Goes(c, Wrote(p, n)) /\ Counts(c, "out", n)

Close(c) ==
  LET p == prog[c]
      done == [p EXCEPT !.files = @ - 1, !.left = NONE]
  IN  /\ p.pc = "close"
      /\ SysClose(c, p.fd)
      /\ Goes(c, CASE done.files > 0 -> [done EXCEPT !.pc = "open"]
                   [] done.files = 0 /\ p.name = "wc" /\ p.argc > 2 ->
                        [done EXCEPT !.pc = "report", !.held = 1]
                   [] OTHER -> [done EXCEPT !.pc = "exit"])
      /\ UNCHANGED moved

Exit(c) ==
  /\ prog[c].pc = "exit"
  /\ SysExit(c)
  /\ Goes(c, NoProgram)
  /\ UNCHANGED moved

ProgramStep(c) ==
  /\ prog[c] # NoProgram
  /\ Open(c) \/ Read(c) \/ Write(c) \/ Close(c) \/ Exit(c)
  /\ UNCHANGED <<sh, lines, typed, strays, untidy>>

-----------------------------------------------------------------------------
ShellInit ==
  /\ Init
  /\ sh = AtPrompt
  /\ prog = [s \in Slot |-> NoProgram]
  /\ moved = Nothing
  /\ lines = 0
  /\ typed = <<>>
  /\ strays = 0
  /\ untidy = FALSE

Log(c) == Return(c) /\ UNCHANGED shellVars

(* What the process in slot c does on its own account.                     *)
Proceed(c) == OnCpu(c) /\ (IF c = 0 THEN ShellStep ELSE ProgramStep(c))

Talk(c) == OnCpu(c) /\ (c = 0 \/ prog[c] # NoProgram) /\ Log(c)

ShellNext == \E c \in Slot : Proceed(c) \/ Talk(c)

ShellSpec == ShellInit /\ [][ShellNext]_allVars

(* The owner of the CPU can run and has something to do other than to wait *)
(* for a line.  Its next step of its own then changes something.           *)
CanProceed ==
  \E c \in Slot :
    /\ OnCpu(c) /\ c \in Runnable(proc)
    /\ IF c = 0 THEN sh.pc = "prompt" => lines < MaxLines ELSE prog[c] # NoProgram

(* Messages are finitely many: while somebody can proceed, somebody does.  *)
(* This is the weak fairness of Proceed, with when it is enabled written   *)
(* out.                                                                    *)
ShellFairSpec ==
  /\ ShellSpec
  /\ <>[]CanProceed => []<><<\E c \in Slot : Proceed(c)>>_allVars

-----------------------------------------------------------------------------
(* The shell has its own standard descriptors whenever it is not inside    *)
(* spawn_command, also after a spawn that failed, and also when descriptor *)
(* numbers have leaked up to those restore_stdio keeps the saved ones in.  *)
StdioRestored ==
  sh.pc # "calls" => \A n \in 0 .. 2 : fds[0][n] = PlainFd

(* run_pipeline hands back what it used: at the prompt the shell has its   *)
(* three descriptors, every pipe is released and every child is reaped,    *)
(* unless a pipeline was given up, or had a file for the input of a stage  *)
(* that follows a pipe, whose read end then stays open.                    *)
PromptIsClean ==
  sh.pc = "prompt" /\ ~untidy =>
    /\ fds[0] = WithStandard
    /\ \A i \in PipeId : pipes[i] = NoPipe
    /\ Used(proc) = {0}

(* "Wait for all children": the shell waits once for each stage it spawned *)
(* and never for the ones it gave up, so that at the prompt exactly those  *)
(* are in the process table, running, blocked for ever or not reaped.      *)
ChildrenAccountedFor ==
  sh.pc = "prompt" => Cardinality(Children(proc, 1)) = strays

Piped(c) == prog[c] # NoProgram /\ prog[c].stage > 1 /\ prog[c].argc = 1 /\ fds[c][0] \in PipeFd

(* No byte is lost or made up on the way through a pipeline: what a stage  *)
(* wrote is what the next one has read and what the pipe holds; what cat   *)
(* read is what it has written on and what it still holds, however the     *)
(* pipe cuts its writes; and a stage past the end of its input has read    *)
(* all of it, the stage that wrote it being gone by then.                  *)
NoByteLost ==
  ~untidy =>
    \A c \in Slot :
      /\ Piped(c) =>
           LET p == prog[c]
               q == pipes[fds[c][0].pipe]
           IN  /\ moved[p.stage - 1].out = moved[p.stage].in + q.len
               /\ p.pc \in {"report", "exit"} =>
                    /\ q.len = 0
                    /\ \A d \in Slot : prog[d] = NoProgram \/ prog[d].stage # p.stage - 1
      /\ prog[c] # NoProgram /\ prog[c].name = "cat" /\ fds[c][1] \in PipeFd =>
           moved[prog[c].stage].in = moved[prog[c].stage].out + prog[c].held

(* The stages after the first read their input to its end.                 *)
Drains == \A i \in 2 .. Len(sh.cmds) : Len(sh.cmds[i].args) = 1

(* A pipeline whose stages read what they are sent comes to its end and    *)
(* the prompt returns, or the pipeline was given up.  A stage that does    *)
(* not read is excused: the one before it holds the read end of its own    *)
(* pipe, is never told that nobody reads, and blocks once the pipe fills.  *)
PromptReturns == (sh.pc # "prompt" /\ Drains /\ ~untidy) ~> (sh.pc = "prompt" \/ untidy)

(* What a line should be taken for: cut at the bars, each piece with its   *)
(* words, without the paths of redirections, for arguments.                *)
Reference(line) ==
  LET cuts == SetToSortSeq({i \in 0 .. Len(line) + 1 : i \in {0, Len(line) + 1} \/ line[i] = "|"}, <)
      pieces == [k \in 1 .. Len(cuts) - 1 |-> SubSeq(line, cuts[k] + 1, cuts[k + 1] - 1)]
      words(x) == SetToSortSeq({j \in DOMAIN x : x[j] \notin Operators
                                               /\ (j > 1 => x[j - 1] \notin Operators)}, <)
      command(x) == [args |-> [j \in DOMAIN words(x) |-> x[words(x)[j]]],
                     stdin |-> \E j \in DOMAIN x : x[j] = "<",
                     stdout |-> \E j \in DOMAIN x : x[j] \in {">", ">>"}]
      wrong(x) == \/ Len(words(x)) \notin 1 .. MAX_ARGS
                  \/ \E j \in DOMAIN x : x[j] \in Operators /\ (j = Len(x) \/ x[j + 1] \in Operators)
  IN  IF Len(pieces) > MAX_STAGES \/ \E k \in DOMAIN pieces : wrong(pieces[k]) THEN <<>>
      ELSE [k \in DOMAIN pieces |-> command(pieces[k])]

(* parse_commands, which goes through a line once from left to right,      *)
(* finds that pipeline, and an error exactly where there is none.          *)
ParsedAsMeant == [][lines' # lines => sh'.cmds = Reference(typed')]_allVars
=============================================================================
