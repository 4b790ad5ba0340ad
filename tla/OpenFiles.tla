----------------------------- MODULE OpenFiles -----------------------------
(***************************************************************************)
(* Open files (FileFd in src/fd.rs) and the system calls on them and on    *)
(* paths, over the tree of files that module FileTree specifies and TinyFs *)
(* implements.                                                             *)
(*                                                                         *)
(* A descriptor is a path, a cursor and a mode.  It keeps nothing of the   *)
(* file: each call looks the path up again, so what it meets is whatever   *)
(* other descriptors and calls on paths have left there.  A copy of a      *)
(* descriptor (dup2, or a spawned process's copy of the table) has a       *)
(* cursor of its own.  The descriptors of all processes form one set here; *)
(* which process a call comes from makes no difference to it.              *)
(***************************************************************************)
EXTENDS FileTree

CONSTANTS Handles,  \* the entries of the descriptor tables
          Modes,    \* the flags that open is called with
          NoFile,   \* a free entry
          Bytes,    \* what a byte may be
          Buffers,  \* what a call may write
          MaxRead,  \* bound: bytes asked for by a read
          MaxLen    \* bound: bytes in a file

ASSUME OpenFilesAssumption ==
  /\ MaxRead \in Nat \ {0} /\ MaxLen \in Nat
  /\ Buffers \subseteq Seq(Bytes) /\ \A b \in Buffers : Len(b) <= MaxLen
  /\ Modes \subseteq [read : BOOLEAN, write : BOOLEAN, append : BOOLEAN, create : BOOLEAN]

VARIABLES
  fds,   \* what each entry holds
  ans,   \* the result of the last call
  log,   \* per path: what was written there since it was last replaced
  seen   \* per entry: what it has read, while its file has only grown

openVars == <<fds, ans, log, seen>>
vars == <<treeVars, openVars>>

FileMode == [read : BOOLEAN, write : BOOLEAN, append : BOOLEAN, create : BOOLEAN]

FileFd == [path : Paths, pos : Nat, mode : FileMode]

(* seen of an entry that cannot tell.                                      *)
Unknown == <<"unknown">>

IsFile(p) == tree[p].kind = "file"

(* fs::read_file fails: an ancestor is missing or no directory, or the     *)
(* path names nothing or a directory.                                      *)
ReadAnswer(p) ==
  CASE WalkAnswer(p) # "Ok" -> WalkAnswer(p)
    [] WalkAnswer(p) = "Ok" /\ ~Exists(p) -> "NotFound"
    [] WalkAnswer(p) = "Ok" /\ tree[p] = Dir -> "NotADirectory"
    [] OTHER -> "Ok"

(* No change to the files: reads, and calls that fail before they reach    *)
(* them.                                                                   *)
NoOperation == UNCHANGED <<tree, res, log>>

(* The entries of path p lose track of it: it was not just added to.       *)
Forget(p) ==
  [h \in Handles |-> IF fds[h] # NoFile /\ fds[h].path = p THEN Unknown ELSE seen[h]]

(* A call on a file that replaces what p names.                            *)
Replaced(p, data) ==
  IF res' = "Ok"
  THEN log' = [log EXCEPT ![p] = data] /\ seen' = Forget(p)
  ELSE UNCHANGED <<log, seen>>

(* An operation of the file system that answers: no crash.                 *)
Operate(p, answer, node) == Operation(p, answer, node) /\ res' # "Crash"

-----------------------------------------------------------------------------
(* The descriptor that FileFd::open makes.                                 *)
Opened(p, mode) ==
  [path |-> p, mode |-> mode,
   pos |-> IF mode.append /\ ReadAnswer(p)' = "Ok" THEN Len(tree'[p].data) ELSE 0]

(* sys_open: the file is looked up and, if need be, created before an      *)
(* entry is sought, so it stays when there is none.                        *)
SysOpen(h, p, mode) ==
  /\ \/ /\ ReadAnswer(p) = "Ok"
        /\ NoOperation
     \/ /\ ReadAnswer(p) # "Ok" /\ mode.create
        /\ Operate(p, CreateAnswer(p), File(<<>>))
        /\ log' = IF res' = "Ok" THEN [log EXCEPT ![p] = <<>>] ELSE log
     \/ /\ ReadAnswer(p) # "Ok" /\ ~mode.create
        /\ NoOperation
  /\ LET there == ReadAnswer(p) = "Ok" \/ (mode.create /\ res' = "Ok")
         free == {g \in Handles : fds[g] = NoFile}
     IN CASE there /\ free # {} ->
               /\ h \in free
               /\ fds' = [fds EXCEPT ![h] = Opened(p, mode)]
               /\ seen' = [seen EXCEPT ![h] = IF mode.write \/ mode.append THEN Unknown ELSE <<>>]
               /\ ans' = "Ok"
          [] there /\ free = {} -> ans' = "TooManyOpen" /\ UNCHANGED <<fds, seen>>
          [] OTHER -> /\ ans' = (IF mode.create THEN res' ELSE "NotFound")
                      /\ UNCHANGED <<fds, seen>>

SysClose(h) ==
  /\ NoOperation
  /\ \/ /\ fds[h] = NoFile
        /\ ans' = "BadFd" /\ UNCHANGED <<fds, seen>>
     \/ /\ fds[h] # NoFile
        /\ fds' = [fds EXCEPT ![h] = NoFile]
        /\ seen' = [seen EXCEPT ![h] = Unknown]
        /\ ans' = "Ok"

(* dup2, and the copy of an entry that a spawned process gets.             *)
Copy(h, g) ==
  /\ fds[h] # NoFile
  /\ NoOperation
  /\ fds' = [fds EXCEPT ![g] = fds[h]]
  /\ seen' = [seen EXCEPT ![g] = seen[h]]
  /\ ans' = "Ok"

(* A faulty variant: the cursor moves by what was asked for.               *)
Advanced_Asked(fd, n, count) == [fd EXCEPT !.pos = @ + n]

Advanced(fd, n, count) == [fd EXCEPT !.pos = @ + count]

(* FileFd::read of up to n bytes.                                          *)
Read(h, n) ==
  LET fd == fds[h]
      data == tree[fd.path].data
      count == IF fd.pos >= Len(data) THEN 0 ELSE Min({n, Len(data) - fd.pos})
  IN
  /\ fd # NoFile
  /\ NoOperation
  /\ CASE ~fd.mode.read -> ans' = "BadFd" /\ UNCHANGED <<fds, seen>>
       [] fd.mode.read /\ ReadAnswer(fd.path) # "Ok" ->
            ans' = ReadAnswer(fd.path) /\ UNCHANGED <<fds, seen>>
       [] OTHER ->
            /\ fds' = [fds EXCEPT ![h] = Advanced(fd, n, count)]
            /\ seen' = [seen EXCEPT ![h] =
                 IF @ = Unknown THEN @ ELSE @ \o SubSeq(data, fd.pos + 1, fd.pos + count)]
            /\ ans' = "Ok"

(* A faulty variant: an append goes where the cursor is.                   *)
Appended_AtCursor(fd, buf) ==
  (IF ReadAnswer(fd.path) = "Ok"
   THEN SubSeq(tree[fd.path].data, 1, Min({fd.pos, Len(tree[fd.path].data)})) ELSE <<>>) \o buf

(* What an append writes back: all that is there now, then the buffer.     *)
Appended(fd, buf) ==
  (IF ReadAnswer(fd.path) = "Ok" THEN tree[fd.path].data ELSE <<>>) \o buf

(* Two faulty variants: the cursor moves on from where it was, and it      *)
(* moves before write_file is tried.                                       *)
Moved_On(h, data) == IF res' = "Ok" THEN [fds EXCEPT ![h].pos = @ + Len(data)] ELSE fds

Moved_Early(h, data) == [fds EXCEPT ![h].pos = Len(data)]

(* The cursor after a write: at the end of the file, if it was written.    *)
Moved(h, data) == IF res' = "Ok" THEN [fds EXCEPT ![h].pos = Len(data)] ELSE fds

(* FileFd::write: the whole file is written, whatever the mode.            *)
Write(h, buf) ==
  LET fd == fds[h]
      data == IF fd.mode.append THEN Appended(fd, buf) ELSE buf
  IN
  /\ fd # NoFile
  /\ \/ /\ ~fd.mode.write
        /\ NoOperation /\ ans' = "BadFd" /\ UNCHANGED <<fds, seen>>
     \/ /\ fd.mode.write /\ Len(data) <= MaxLen
        /\ Operate(fd.path, WriteAnswer(fd.path), File(data))
        /\ ans' = res'
        /\ fds' = Moved(h, data)
        /\ IF res' # "Ok" THEN UNCHANGED <<log, seen>>
           ELSE /\ log' = [log EXCEPT ![fd.path] = IF fd.mode.append THEN @ \o buf ELSE buf]
                /\ seen' = IF fd.mode.append /\ IsFile(fd.path) THEN seen ELSE Forget(fd.path)

(* The calls on paths: sys_file_write, sys_file_create, sys_file_delete,   *)
(* sys_dir_create and sys_dir_delete.                                      *)
PathCall(p) ==
  /\ \/ \E buf \in Buffers : Operate(p, WriteAnswer(p), File(buf)) /\ Replaced(p, buf)
     \/ Operate(p, CreateAnswer(p), File(<<>>)) /\ Replaced(p, <<>>)
     \/ Operate(p, CreateAnswer(p), Dir) /\ Replaced(p, <<>>)
     \/ Operate(p, RemoveAnswer(p), Nothing) /\ Replaced(p, <<>>)
     \/ Operate(p, RemoveDirAnswer(p), Nothing) /\ Replaced(p, <<>>)
  /\ ans' = res'
  /\ UNCHANGED fds

OpenInit ==
  /\ tree = Empty /\ res = "Mounted"
  /\ fds = [h \in Handles |-> NoFile]
  /\ ans = "Ok"
  /\ log = [p \in Paths |-> <<>>]
  /\ seen = [h \in Handles |-> Unknown]

OpenNext ==
  \/ \E p \in Paths : PathCall(p) \/ (\E h \in Handles, mode \in Modes : SysOpen(h, p, mode))
  \/ \E h \in Handles :
       \/ SysClose(h)
       \/ \E g \in Handles : Copy(h, g)
       \/ \E n \in 1 .. MaxRead : Read(h, n)
       \/ \E buf \in Buffers : Write(h, buf)

OpenSpec == OpenInit /\ [][OpenNext]_vars

-----------------------------------------------------------------------------
(* The entries hold descriptors or nothing, and no cursor has been further *)
(* than a file can reach.                                                  *)
TypeOK ==
  /\ fds \in [Handles -> FileFd \cup {NoFile}]
  /\ \A h \in Handles : fds[h] # NoFile => fds[h].pos <= MaxLen
  /\ \A p \in Paths : tree[p].kind \in {"none", "dir", "file"} /\ Len(tree[p].data) <= MaxLen

(* Bytes that were appended are never lost to another descriptor's append, *)
(* however the calls interleave and however stale the cursors are: a file  *)
(* holds exactly what was written to it, in order, since a call last       *)
(* replaced it.                                                            *)
AppendsAddUp == \A p \in Paths : IsFile(p) => tree[p].data = log[p]

(* While a file only grows, a descriptor for reading has read all that is  *)
(* before its cursor, each byte once, however many others append to the    *)
(* file or share its origin.                                               *)
ReadsEverythingOnce ==
  \A h \in Handles :
    fds[h] # NoFile /\ seen[h] # Unknown =>
      /\ fds[h].pos <= Len(tree[fds[h].path].data)
      /\ seen[h] = SubSeq(tree[fds[h].path].data, 1, fds[h].pos)

(* A call that reports an error has changed no file and no descriptor.     *)
(* One call does not keep this: open creates the file before it finds that *)
(* the table is full.                                                      *)
FailureChangesNothing ==
  [][ans' # "Ok" => /\ UNCHANGED fds
                    /\ tree' # tree => ans' = "TooManyOpen"]_vars
=============================================================================
