------------------------------ MODULE FdTable ------------------------------
(***************************************************************************)
(* Descriptor tables and the pipe table of src/fd.rs, as operators on      *)
(* values.  A descriptor table is a function from descriptor numbers to    *)
(* descriptors.  The pipe table is a function from pipe ids to pipes.      *)
(*                                                                         *)
(* A pipe holds the number of buffered bytes (module PipeRing models the   *)
(* bytes themselves) and, for each of its two ends "r" and "w", the open   *)
(* flag, the reference count and the pids that wait on that end:           *)
(* waiting["r"] is waiting_readers, waiting["w"] is waiting_writers.       *)
(* UART and file descriptors share no kernel state, so both are PlainFd.   *)
(***************************************************************************)
EXTENDS Integers, FiniteSets

CONSTANTS MAX_FDS,        \* size of every descriptor table
          MAX_PIPES,      \* size of the pipe table
          PIPE_BUF_SIZE,  \* size of a pipe's ring buffer
          NoFd,           \* a free entry of a descriptor table
          PlainFd,        \* a UART or file descriptor
          NoPipe          \* a free entry of the pipe table

Fd == 0 .. MAX_FDS - 1
PipeId == 0 .. MAX_PIPES - 1
End == {"r", "w"}
PipeFd == [pipe : PipeId, end : End]
Desc == PipeFd \cup {NoFd, PlainFd}
Pid == Nat \ {0}

Pipe == [len      : 0 .. PIPE_BUF_SIZE - 1,
         open     : [End -> BOOLEAN],
         refcount : [End -> Nat],
         waiting  : [End -> SUBSET Pid]]

(* The sizes leave room for the three standard descriptors, and the        *)
(* sentinels are not values of the types they extend.                      *)
ASSUME FdTableAssumption ==
  /\ MAX_FDS \in Nat /\ MAX_FDS >= 3
  /\ MAX_PIPES \in Nat
  /\ PIPE_BUF_SIZE \in Nat /\ PIPE_BUF_SIZE >= 2
  /\ NoFd \notin PipeFd /\ PlainFd \notin PipeFd /\ NoFd # PlainFd
  /\ NoPipe \notin Pipe

Opposite(e) == IF e = "r" THEN "w" ELSE "r"

(* `i' is the entry a first-to-last search for a member of S stops at.     *)
First(i, S) == i \in S /\ \A j \in S : i <= j

WithStandard == [i \in Fd |-> IF i <= 2 THEN PlainFd ELSE NoFd]

EmptyTable == [i \in Fd |-> NoFd]

FreeFds(t) == {i \in Fd : t[i] = NoFd}

FreePipes(q) == {i \in PipeId : q[i] = NoPipe}

(* Descriptors of table t that name end e of pipe i.                       *)
FdsOf(t, i, e) == {n \in Fd : t[n] = [pipe |-> i, end |-> e]}

HasPipeFd(t) == \E n \in Fd : t[n] \in PipeFd

-----------------------------------------------------------------------------
(* A new pipe: empty, both ends open with one reference each.              *)
NewPipe == [len      |-> 0,
            open     |-> [e \in End |-> TRUE],
            refcount |-> [e \in End |-> 1],
            waiting  |-> [e \in End |-> {}]]

(* A faulty variant: the byte that keeps a full buffer apart from an empty *)
(* one is given away.                                                      *)
SpaceAvailable_Full(p) == PIPE_BUF_SIZE - p.len

SpaceAvailable(p) == PIPE_BUF_SIZE - p.len - 1

(* A faulty variant: the clone of a descriptor is not counted.             *)
Incref_Uncounted(p, e, k) == IF k = 0 THEN p ELSE [p EXCEPT !.open[e] = TRUE]

(* PipeTable::incref, k times for the same end.                            *)
Incref(p, e, k) ==
  IF k = 0 THEN p
  ELSE [p EXCEPT !.refcount[e] = @ + k, !.open[e] = TRUE]

(* The end's count reaches zero when k of its references are dropped.      *)
ClosesEnd(p, e, k) == k > 0 /\ p.refcount[e] <= k

(* The pids close_pipe_end unblocks: an end that closes wakes those who    *)
(* wait on the opposite end.                                               *)
WokenByClose(p, e, k) ==
  IF ClosesEnd(p, e, k) THEN p.waiting[Opposite(e)] ELSE {}

(* close_pipe_end, k times for end e, without releasing the slot.          *)
DropEnd(p, e, k) ==
  IF k = 0 THEN p
  ELSE [p EXCEPT !.refcount[e] = IF @ > k THEN @ - k ELSE 0,
                 !.open[e] = p.refcount[e] > k,
                 !.waiting[Opposite(e)] = IF p.refcount[e] > k THEN @ ELSE {}]

(* The slot is released once neither end is open.                          *)
Release(p) == IF p.open["r"] \/ p.open["w"] THEN p ELSE NoPipe

(* The next three operators give in one expression what clone, close and   *)
(* close_all do one descriptor at a time.  No other call runs in between,  *)
(* and the ends of a pipe do not look at each other's count, so the order  *)
(* of the descriptors does not matter.                                     *)

(* The pipe table after the descriptors of table t are cloned.             *)
CloneRefs(q, t) ==
  [i \in PipeId |->
     IF q[i] = NoPipe THEN NoPipe
     ELSE Incref(Incref(q[i], "r", Cardinality(FdsOf(t, i, "r"))),
                 "w", Cardinality(FdsOf(t, i, "w")))]

(* The pipe table after descriptors F of table t are closed.               *)
CloseRefs(q, t, F) ==
  [i \in PipeId |->
     LET r == Cardinality(FdsOf(t, i, "r") \cap F)
         w == Cardinality(FdsOf(t, i, "w") \cap F)
     IN  IF q[i] = NoPipe \/ r + w = 0 THEN q[i]
         ELSE Release(DropEnd(DropEnd(q[i], "r", r), "w", w))]

(* The pids unblocked while descriptors F of table t are closed.           *)
WokenByCloses(q, t, F) ==
  UNION {UNION {WokenByClose(q[i], e, Cardinality(FdsOf(t, i, e) \cap F)) : e \in End}
           : i \in PipeId \ FreePipes(q)}
=============================================================================
