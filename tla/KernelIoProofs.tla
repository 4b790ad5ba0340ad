--------------------------- MODULE KernelIoProofs ---------------------------
(***************************************************************************)
(* The inductive invariant IInv about descriptors and pipes, kept by every *)
(* call.  So it is an invariant, and implies that no descriptor dangles    *)
(* and that the counts are exact.                                          *)
(*                                                                         *)
(* The reference counts of a pipe are compared with the number of          *)
(* descriptors that name it, which is the cardinality of a finite set: the *)
(* first lemmas say how a clone and a close change that set, and so that   *)
(* counts and descriptors stay together.                                   *)
(***************************************************************************)
EXTENDS KernelCpuProofs

(* n descriptors out of a count of r, exactly r unless l says otherwise:   *)
(* with o new ones of which m replace old ones, the count is r + o.        *)
LEMMA CountMoved ==
  ASSUME NEW n \in Nat, NEW n2 \in Nat, NEW m \in Nat, NEW o \in Nat,
         NEW r \in Nat, NEW l, n2 + m = n + o, n <= r, l = 0 => n = r
  PROVE  n2 + m <= r + o /\ (l = 0 => n2 + m = r + o)
OBVIOUS

(* The same when the count grows by k and the descriptors stay.            *)
LEMMA CountGrown ==
  ASSUME NEW n \in Nat, NEW r \in Nat, NEW k \in Nat, n <= r
  PROVE  n <= r + k /\ (k = 0 /\ n = r => n = r + k)
OBVIOUS

(* A write of at most n bytes, and of no more than the space left, keeps   *)
(* one cell of the ring free.                                              *)
LEMMA WriteFits ==
  ASSUME NEW size \in Nat, NEW l \in 0 .. size - 1, NEW n \in Nat
  PROVE  l + (IF n < size - l - 1 THEN n ELSE size - l - 1) \in 0 .. size - 1
OBVIOUS

USE FdTableAssumption, ProcTableAssumption, KernelAssumption, SMTT(30)

-----------------------------------------------------------------------------
(* Counting descriptors.  N(f, i, e) is the number of descriptors that     *)
(* name end e of pipe i when f gives the table of every slot.              *)
FdTables == [Slot -> [Fd -> Desc]]

RefsIn(f, i, e) == {x \in Slot \X Fd : f[x[1]][x[2]] = [pipe |-> i, end |-> e]}

N(f, i, e) == Cardinality(RefsIn(f, i, e))

(* There are finitely many, so they have a number.                         *)
LEMMA RefsFinite ==
  ASSUME NEW f, NEW i, NEW e
  PROVE  IsFiniteSet(RefsIn(f, i, e)) /\ N(f, i, e) \in Nat
<1>1. IsFiniteSet(Slot) /\ IsFiniteSet(Fd)
  BY FS_Interval DEF Slot, Fd
<1>2. IsFiniteSet(Slot \X Fd)
  BY <1>1, FS_Product
<1>3. RefsIn(f, i, e) \subseteq Slot \X Fd
  BY DEF RefsIn
<1>4. IsFiniteSet(RefsIn(f, i, e))
  BY <1>2, <1>3, FS_Subset
<1> QED
  BY <1>4, FS_CardinalityType DEF N

(* One slot's descriptors are as many as their numbers.                    *)
LEMMA SlotCount ==
  ASSUME NEW c, NEW K, IsFiniteSet(K)
  PROVE  IsFiniteSet({c} \X K) /\ Cardinality({c} \X K) = Cardinality(K)
<1>1. IsFiniteSet({c}) /\ Cardinality({c}) = 1
  BY FS_Singleton, Zenon
<1>2. /\ IsFiniteSet({c} \X K)
      /\ Cardinality({c} \X K) = Cardinality({c}) * Cardinality(K)
  BY <1>1, FS_Product
<1>3. Cardinality(K) \in Nat
  BY FS_CardinalityType
<1> QED
  BY <1>1, <1>2, <1>3

(* g is f with the entries F of slot c emptied.                            *)
Cleared(f, g, c, F) ==
  \A s \in Slot, n \in Fd :
    g[s][n] = IF s = c /\ n \in F THEN NoFd ELSE f[s][n]

(* Emptying the entries F of slot c takes their number from the count.     *)
LEMMA CountCleared ==
  ASSUME NEW f \in FdTables, NEW g \in FdTables, NEW c \in Slot,
         NEW F \in SUBSET Fd, NEW i \in PipeId, NEW e \in End,
         Cleared(f, g, c, F)
  PROVE  N(f, i, e) = N(g, i, e) + Cardinality(FdsOf(f[c], i, e) \cap F)
<1> DEFINE K == FdsOf(f[c], i, e) \cap F
           C == {c} \X K
           A == RefsIn(f, i, e)
<1>1. IsFiniteSet(K) /\ Cardinality(K) \in Nat
  BY FdsOfFinite, Zenon
<1>2. IsFiniteSet(C) /\ Cardinality(C) = Cardinality(K)
  BY <1>1, SlotCount, Zenon
<1>3. [pipe |-> i, end |-> e] # NoFd
  BY DEF PipeFd
<1>4. \A x \in Slot \X Fd : x \in C <=> x[1] = c /\ x[2] \in F /\ x \in A
  BY DEF FdsOf, RefsIn
<1>5. C \subseteq Slot \X Fd
  BY DEF FdsOf
<1>6. \A x \in Slot \X Fd : x \in RefsIn(g, i, e) <=> x \in A /\ x \notin C
  BY <1>3, <1>4 DEF RefsIn, Cleared
<1>7. A \subseteq Slot \X Fd /\ RefsIn(g, i, e) \subseteq Slot \X Fd
  BY DEF RefsIn
<1> HIDE DEF C, A, K
<1>8. RefsIn(g, i, e) = A \ C /\ A \cap C = C
  BY <1>4, <1>5, <1>6, <1>7
<1>9. IsFiniteSet(A) /\ Cardinality(A) \in Nat
  BY RefsFinite DEF A, N
<1>10. Cardinality(A \ C) = Cardinality(A) - Cardinality(A \cap C)
  BY <1>9, <1>2, FS_Difference, Zenon
<1>11. N(g, i, e) = N(f, i, e) - Cardinality(K)
  BY <1>2, <1>8, <1>10 DEF N, A
<1> QED
  BY <1>1, <1>9, <1>11 DEF N, A, K

(* g is f with empty entries of slot s filled from table t.                *)
Filled(f, g, s, t) ==
  /\ \A r \in Slot, n \in Fd :
       g[r][n] = IF r = s /\ t[n] # NoFd THEN t[n] ELSE f[r][n]
  /\ \A n \in Fd : t[n] # NoFd => f[s][n] = NoFd

(* Filling empty entries of slot s from table t adds their number.         *)
LEMMA CountFilled ==
  ASSUME NEW f \in FdTables, NEW g \in FdTables, NEW s \in Slot,
         NEW t \in [Fd -> Desc], NEW i \in PipeId, NEW e \in End,
         Filled(f, g, s, t)
  PROVE  N(g, i, e) = N(f, i, e) + Cardinality(FdsOf(t, i, e))
<1> DEFINE F == {n \in Fd : t[n] # NoFd}
<1>1. Cleared(g, f, s, F)
  BY DEF Cleared, Filled
<1>2. [pipe |-> i, end |-> e] # NoFd
  BY DEF PipeFd
<1>3. FdsOf(g[s], i, e) \cap F = FdsOf(t, i, e)
  BY <1>2 DEF FdsOf, Filled
<1>4. F \in SUBSET Fd
  OBVIOUS
<1> HIDE DEF F
<1>5. N(g, i, e) = N(f, i, e) + Cardinality(FdsOf(g[s], i, e) \cap F)
  BY <1>1, <1>4, CountCleared
<1> QED
  BY <1>3, <1>5, Zenon

-----------------------------------------------------------------------------
(* The counts of table q cover the descriptors of f; with no leak (l = 0)  *)
(* they are exact.  An entry of PIPE_TABLE that is free has no descriptor. *)
Counted(q, f, l) ==
  \A i \in PipeId, e \in End :
    IF q[i] = NoPipe THEN N(f, i, e) = 0
    ELSE /\ N(f, i, e) <= q[i].refcount[e]
         /\ l = 0 => N(f, i, e) = q[i].refcount[e]

(* The same, with the entries F of table t still to be taken from q.       *)
CountedBeforeClose(q, f, t, F, l) ==
  \A i \in PipeId, e \in End :
    LET k == N(f, i, e) + Cardinality(FdsOf(t, i, e) \cap F)
    IN IF q[i] = NoPipe THEN N(f, i, e) = 0
       ELSE k <= q[i].refcount[e] /\ (l = 0 => k = q[i].refcount[e])

(* No descriptor names a free entry of PIPE_TABLE.                         *)
LEMMA FreePipeUnnamed ==
  ASSUME NEW q, NEW f, NEW l, Counted(q, f, l),
         NEW i \in PipeId, NEW e \in End, q[i] = NoPipe
  PROVE  \A s \in Slot, n \in Fd : f[s][n] # [pipe |-> i, end |-> e]
<1>1. N(f, i, e) = 0
  BY DEF Counted
<1>2. RefsIn(f, i, e) = {}
  BY <1>1, RefsFinite, FS_EmptySet DEF N
<1> SUFFICES ASSUME NEW s \in Slot, NEW n \in Fd,
                    f[s][n] = [pipe |-> i, end |-> e]
             PROVE  FALSE
  OBVIOUS
<1>3. <<s, n>> \in RefsIn(f, i, e)
  BY DEF RefsIn
<1> QED
  BY <1>2, <1>3

(* Closing the entries still to be taken makes the counts right.           *)
LEMMA CloseKeepsCounted ==
  ASSUME NEW q \in PipeTables, Sound(q), NEW f, NEW t, NEW F, NEW l,
         CountedBeforeClose(q, f, t, F, l)
  PROVE  Counted(CloseRefs(q, t, F), f, l)
<1> DEFINE R == CloseRefs(q, t, F)
<1> SUFFICES ASSUME NEW i \in PipeId, NEW e \in End
             PROVE  IF R[i] = NoPipe THEN N(f, i, e) = 0
                    ELSE /\ N(f, i, e) <= R[i].refcount[e]
                         /\ l = 0 => N(f, i, e) = R[i].refcount[e]
  BY DEF Counted
<1> DEFINE k == Cardinality(FdsOf(t, i, e) \cap F)
           n == N(f, i, e)
<1>1. k \in Nat /\ n \in Nat
  BY FdsOfFinite, RefsFinite, Zenon
<1>2. CASE q[i] = NoPipe
  <2>1. R[i] = NoPipe
    BY <1>2, CloseRefsCounts
  <2> QED
    BY <1>2, <2>1, Zenon DEF CountedBeforeClose
<1>3. CASE q[i] # NoPipe
  <2> DEFINE m == q[i].refcount[e]
  <2>1. n + k <= m /\ (l = 0 => n + k = m)
    BY <1>3 DEF CountedBeforeClose
  <2>2. IF R[i] = NoPipe THEN m <= k
        ELSE R[i].refcount[e] = IF m > k THEN m - k ELSE 0
    BY <1>3, CloseRefsCounts
  <2>3. m \in Nat
    BY <1>3 DEF PipeTables, Pipe
  <2> HIDE DEF k, n, m, R
  <2>4. IF R[i] = NoPipe THEN n = 0
        ELSE n <= R[i].refcount[e] /\ (l = 0 => n = R[i].refcount[e])
    BY <1>1, <2>1, <2>2, <2>3
  <2> QED
    BY <2>4 DEF n
<1> QED
  BY <1>2, <1>3

(* Cloning table t into empty entries keeps the counts right.              *)
LEMMA CloneKeepsCounted ==
  ASSUME NEW q \in PipeTables, Sound(q), NEW f \in FdTables, NEW g \in FdTables,
         NEW s \in Slot, NEW c \in Slot, NEW t \in [Fd -> Desc], NEW l,
         Counted(q, f, l), Filled(f, g, s, t),
         \A n \in Fd : t[n] \in {NoFd, f[c][n]}
  PROVE  Counted(CloneRefs(q, t), g, l)
<1> DEFINE R == CloneRefs(q, t)
<1> SUFFICES ASSUME NEW i \in PipeId, NEW e \in End
             PROVE  IF R[i] = NoPipe THEN N(g, i, e) = 0
                    ELSE /\ N(g, i, e) <= R[i].refcount[e]
                         /\ l = 0 => N(g, i, e) = R[i].refcount[e]
  BY DEF Counted
<1> DEFINE k == Cardinality(FdsOf(t, i, e))
<1>1. N(g, i, e) = N(f, i, e) + k
  BY CountFilled
<1>2. k \in Nat /\ N(f, i, e) \in Nat
  BY FdsOfFinite, RefsFinite
<1>3. CASE q[i] = NoPipe
  <2>1. R[i] = NoPipe
    BY <1>3, CloneRefsCounts
  <2>2. [pipe |-> i, end |-> e] # NoFd
    BY DEF PipeFd
  <2>3. \A n \in Fd : f[c][n] # [pipe |-> i, end |-> e]
    BY <1>3, FreePipeUnnamed
  <2>4. FdsOf(t, i, e) = {}
    BY <2>2, <2>3 DEF FdsOf
  <2>5. k = 0
    BY <2>4, FS_EmptySet
  <2>6. N(f, i, e) = 0
    BY <1>3 DEF Counted
  <2> QED
    BY <1>1, <2>1, <2>5, <2>6
<1>4. CASE q[i] # NoPipe
  <2> DEFINE m == q[i].refcount[e]
  <2>1. R[i] # NoPipe /\ R[i].refcount[e] = m + k
    BY <1>4, CloneRefsCounts
  <2>2. N(f, i, e) <= m /\ (l = 0 => N(f, i, e) = m)
    BY <1>4 DEF Counted
  <2>3. m \in Nat
    BY <1>4, Zenon DEF PipeTables, Pipe
  <2> HIDE DEF k, m, R
  <2> QED
    BY <1>1, <1>2, <2>1, <2>2, <2>3
<1> QED
  BY <1>3, <1>4, Zenon

-----------------------------------------------------------------------------
(* The inductive invariant.  FdsNeverDangle alone is not inductive: that a *)
(* close leaves the end open depends on the counts, and that a spawn does  *)
(* not lose descriptors depends on the free slot's table being empty.      *)
FreeSlotsEmpty == \A s \in Slot : proc[s] = NoProc => fds[s] = EmptyTable

PipesInv ==
  /\ pipes \in PipeTables
  /\ Sound(pipes)
  /\ Counted(pipes, fds, leaks)

IInv == TypeOK /\ PipesInv /\ FreeSlotsEmpty

(* PipesInv speaks of descriptors, pipes and leaks only.                   *)
LEMMA PipesInvKept ==
  ASSUME PipesInv, fds' = fds, pipes' = pipes, leaks' = leaks
  PROVE  PipesInv'
<1>1. Counted(pipes', fds', leaks')
  BY DEF PipesInv
<1>2. pipes' \in PipeTables /\ Sound(pipes')
  BY DEF PipesInv
<1> QED
  BY <1>1, <1>2 DEF PipesInv, Sound, Counted, N, RefsIn, Consistent

(* The part of the step that maybe_switch ends: t is the table it is given. *)
LEMMA SwitchStep ==
  ASSUME IInv, NEW c \in Slot, OnCpu(c),
         NEW t \in ProcTables, SameSlots(proc, t), MaybeSwitch(t, c)
  PROVE  proc' \in ProcTables /\ SameSlots(proc, proc') /\ current' \in Pid
<1>1. t[c] # NoProc /\ current \in Pid
  BY DEF OnCpu, Owner, SameSlots, IInv, TypeOK
<1>2. proc' \in ProcTables /\ SameSlots(t, proc') /\ current' \in Pid
  BY <1>1, MaybeSwitchType
<1> QED
  BY <1>2 DEF SameSlots

(* A step with a well-typed process table that uses the same slots, and    *)
(* that leaves descriptors of free slots alone, needs only its effect on   *)
(* the pipes to be checked.                                                *)
LEMMA StepKeepsIInv ==
  ASSUME IInv, proc' \in ProcTables, SameSlots(proc, proc'), current' \in Pid,
         next_pid' = next_pid, hung' \in BOOLEAN, leaks' \in Nat,
         fds' \in FdTables,
         \A s \in Slot : proc[s] = NoProc => fds'[s] = fds[s],
         PipesInv'
  PROVE  IInv'
<1>1. TypeOK'
  BY DEF IInv, TypeOK, ProcTables, FdTables, PipesInv, PipeTables
<1>2. FreeSlotsEmpty'
  BY DEF IInv, FreeSlotsEmpty, SameSlots
<1> QED
  BY <1>1, <1>2 DEF IInv

(* The pipes are unaffected when neither they nor the descriptors change.  *)
LEMMA ReturnStep ==
  ASSUME IInv, NEW c \in Slot, OnCpu(c), Return(c)
  PROVE  IInv'
<1>1. proc \in ProcTables /\ SameSlots(proc, proc)
  BY DEF IInv, TypeOK, ProcTables, SameSlots
<1>2. proc' \in ProcTables /\ SameSlots(proc, proc') /\ current' \in Pid
  BY <1>1, SwitchStep DEF Return
<1>3. fds' = fds /\ pipes' = pipes /\ leaks' = leaks /\ hung' = hung /\ next_pid' = next_pid
  BY Zenon DEF Return
<1>4. PipesInv'
  BY <1>3 DEF IInv, PipesInv, Sound, Counted, N, RefsIn, Consistent
<1>5. fds' \in FdTables /\ leaks' \in Nat /\ hung' \in BOOLEAN
  BY <1>3 DEF IInv, TypeOK, FdTables
<1> QED
  BY <1>2, <1>3, <1>4, <1>5, StepKeepsIInv, Zenon

(* A hart that spins changes nothing else.                                 *)
LEMMA HangStep ==
  ASSUME IInv, NEW W, Hang(W)
  PROVE  IInv'
<1>1. /\ fds' = fds /\ pipes' = pipes /\ leaks' = leaks /\ hung' = TRUE
      /\ next_pid' = next_pid /\ proc' = proc /\ current' = current
  BY Zenon DEF Hang
<1>2. PipesInv'
  BY <1>1, SMTT(30) DEF IInv, PipesInv, Sound, Counted, N, RefsIn, Consistent
<1> QED
  BY <1>1, <1>2 DEF IInv, TypeOK, FreeSlotsEmpty

(* Changing the length or the wait lists of a pipe keeps the counts.       *)
LEMMA PipeUpdate ==
  ASSUME IInv, NEW i \in PipeId, pipes[i] # NoPipe, NEW p \in Pipe,
         p.open = pipes[i].open, p.refcount = pipes[i].refcount,
         pipes' = [pipes EXCEPT ![i] = p], fds' = fds, leaks' = leaks
  PROVE  PipesInv'
<1>1. pipes \in PipeTables /\ Sound(pipes) /\ Counted(pipes, fds, leaks)
  BY DEF IInv, PipesInv
<1>2. pipes' \in PipeTables
  BY <1>1 DEF PipeTables
<1>3. \A j \in PipeId : /\ pipes'[j] = NoPipe <=> pipes[j] = NoPipe
                        /\ pipes[j] # NoPipe =>
                             /\ pipes'[j].open = pipes[j].open
                             /\ pipes'[j].refcount = pipes[j].refcount
  BY <1>1, Zenon DEF PipeTables
<1>4. Sound(pipes')
  BY <1>1, <1>3, Zenon DEF Sound, Consistent
<1>5. Counted(pipes', fds', leaks')
  BY <1>1, <1>3, SMTT(30) DEF Counted, N, RefsIn
<1> QED
  BY <1>2, <1>4, <1>5 DEF PipesInv, Sound, Counted, N, RefsIn, Consistent

(* Registering on a pipe and blocking.                                     *)
LEMMA WaitOnStep ==
  ASSUME IInv, NEW c \in Slot, OnCpu(c), NEW i \in PipeId, pipes[i] # NoPipe,
         NEW e \in End, WaitOn(c, i, e)
  PROVE  IInv'
<1> DEFINE p == [pipes[i] EXCEPT !.waiting[e] = @ \cup {current}]
<1>1. pipes[i] \in Pipe /\ current \in Pid /\ pipes \in PipeTables
  BY DEF IInv, TypeOK, PipesInv, PipeTables
<1>2. p \in Pipe /\ p.open = pipes[i].open /\ p.refcount = pipes[i].refcount
  BY <1>1 DEF Pipe
<1>3. pipes' = [pipes EXCEPT ![i] = p] /\ fds' = fds /\ leaks' = leaks
  BY <1>1 DEF WaitOn, PipeTables
<1> HIDE DEF p
<1>4. PipesInv'
  BY <1>2, <1>3, PipeUpdate, Zenon
<1>5. /\ SetState(proc, c, "Blocked") \in ProcTables
      /\ SameSlots(proc, SetState(proc, c, "Blocked"))
  BY SetStateType DEF OnCpu, Owner, IInv, TypeOK, ProcTables, States
<1>6. proc' \in ProcTables /\ SameSlots(proc, proc') /\ current' \in Pid
  BY <1>5, SwitchStep DEF WaitOn, Block
<1>7. /\ hung' \in BOOLEAN /\ leaks' \in Nat /\ next_pid' = next_pid
      /\ fds' \in FdTables
  BY DEF WaitOn, IInv, TypeOK, FdTables
<1> QED
  BY <1>3, <1>4, <1>6, <1>7, StepKeepsIInv, Zenon

(* The process table after the wake-ups of a call that completes.          *)
LEMMA WakeStep ==
  ASSUME IInv, NEW c \in Slot, OnCpu(c), NEW W, Wake(W, c)
  PROVE  proc' \in ProcTables /\ SameSlots(proc, proc') /\ current' \in Pid
<1>1. proc \in ProcTables
  BY DEF IInv, TypeOK, ProcTables
<1>2. Unblock(proc, W) \in ProcTables /\ SameSlots(proc, Unblock(proc, W))
  BY <1>1, UnblockType, Zenon
<1> QED
  BY <1>2, SwitchStep DEF Wake

(* Moving bytes.                                                           *)
LEMMA TransferStep ==
  ASSUME IInv, NEW c \in Slot, OnCpu(c), NEW i \in PipeId, pipes[i] # NoPipe,
         NEW e \in End, NEW len \in 0 .. PIPE_BUF_SIZE - 1,
         Transfer(c, i, len, e)
  PROVE  IInv'
<1> DEFINE W == IF len # pipes[i].len THEN pipes[i].waiting[e] ELSE {}
           p == [pipes[i] EXCEPT !.len = len, !.waiting[e] = @ \ W]
<1>1. CASE Hang(W)
  BY <1>1, HangStep, Zenon
<1>2. CASE /\ pipes' = [pipes EXCEPT ![i].len = len, ![i].waiting[e] = @ \ W]
           /\ Wake(W, c)
           /\ UNCHANGED <<next_pid, fds, hung, leaks>>
  <2>1. pipes[i] \in Pipe /\ pipes \in PipeTables
    BY DEF IInv, PipesInv, PipeTables
  <2> HIDE DEF W
  <2>2. p \in Pipe /\ p.open = pipes[i].open /\ p.refcount = pipes[i].refcount
    BY <2>1, Zenon DEF Pipe
  <2>3. pipes' = [pipes EXCEPT ![i] = p] /\ fds' = fds /\ leaks' = leaks
    BY <1>2, <2>1, Zenon DEF PipeTables, Pipe
  <2> HIDE DEF p
  <2>4. PipesInv'
    BY <2>2, <2>3, PipeUpdate, Zenon
  <2>5. proc' \in ProcTables /\ SameSlots(proc, proc') /\ current' \in Pid
    BY <1>2, WakeStep
  <2>6. /\ hung' \in BOOLEAN /\ leaks' \in Nat /\ next_pid' = next_pid
        /\ fds' \in FdTables
    BY <1>2 DEF IInv, TypeOK, FdTables
  <2> QED
    BY <2>3, <2>4, <2>5, <2>6, StepKeepsIInv, Zenon
<1> QED
  BY <1>1, <1>2, Zenon DEF Transfer

(* A descriptor that is the end of an allocated pipe names a pipe.         *)
LEMMA PipeEndNamed ==
  ASSUME NEW c, NEW fd, NEW e, IsPipeEnd(c, fd, e)
  PROVE  fds[c][fd].pipe \in PipeId /\ pipes[fds[c][fd].pipe] # NoPipe
BY DEF IsPipeEnd, PipeFd

(* An allocated pipe holds less than the size of its buffer.               *)
LEMMA PipeLen ==
  ASSUME IInv, NEW i \in PipeId, pipes[i] # NoPipe
  PROVE  pipes[i].len \in 0 .. PIPE_BUF_SIZE - 1
BY DEF IInv, PipesInv, PipeTables, Pipe

(* sys_read keeps the invariant.                                           *)
LEMMA SysReadStep ==
  ASSUME IInv, NEW c \in Slot, OnCpu(c), NEW fd \in Fd, NEW n \in Nat,
         SysRead(c, fd, n)
  PROVE  IInv'
<1>1. CASE ~IsPipeEnd(c, fd, "r") /\ Return(c)
  BY <1>1, ReturnStep
<1>2. CASE IsPipeEnd(c, fd, "r") /\ PipeRead(c, fds[c][fd].pipe, n)
  <2> DEFINE i == fds[c][fd].pipe
             len == IF n < pipes[i].len THEN pipes[i].len - n ELSE 0
  <2>1. i \in PipeId /\ pipes[i] # NoPipe
    BY <1>2, PipeEndNamed, Zenon
  <2>2. pipes[i].len \in 0 .. PIPE_BUF_SIZE - 1
    BY <2>1, PipeLen, Zenon
  <2>3. len \in 0 .. PIPE_BUF_SIZE - 1
    BY <2>2
  <2>4. "r" \in End /\ "w" \in End
    BY DEF End
  <2>5. WaitOn(c, i, "r") \/ Return(c) \/ Transfer(c, i, len, "w")
    BY <1>2, Zenon DEF PipeRead
  <2> HIDE DEF i, len
  <2> QED
    BY <2>1, <2>3, <2>4, <2>5, WaitOnStep, ReturnStep, TransferStep, Zenon
<1> QED
  BY <1>1, <1>2 DEF SysRead

(* sys_write keeps the invariant.                                          *)
LEMMA SysWriteStep ==
  ASSUME IInv, NEW c \in Slot, OnCpu(c), NEW fd \in Fd, NEW n \in Nat,
         SysWrite(c, fd, n)
  PROVE  IInv'
<1>1. CASE ~IsPipeEnd(c, fd, "w") /\ Return(c)
  BY <1>1, ReturnStep
<1>2. CASE IsPipeEnd(c, fd, "w") /\ PipeWrite(c, fds[c][fd].pipe, n)
  <2> DEFINE i == fds[c][fd].pipe
             room == SpaceAvailable(pipes[i])
             len == pipes[i].len + (IF n < room THEN n ELSE room)
  <2>1. i \in PipeId /\ pipes[i] # NoPipe
    BY <1>2, PipeEndNamed, ZenonT(30)
  <2>2. pipes[i].len \in 0 .. PIPE_BUF_SIZE - 1
    BY <2>1, PipeLen, Zenon
  <2>3. len \in 0 .. PIPE_BUF_SIZE - 1
    BY <2>2, WriteFits DEF SpaceAvailable
  <2>4. "r" \in End /\ "w" \in End
    BY DEF End
  <2>5. Return(c) \/ WaitOn(c, i, "w") \/ Transfer(c, i, len, "r")
    BY <1>2, Zenon DEF PipeWrite
  <2> HIDE DEF i, len
  <2> QED
    BY <2>1, <2>3, <2>4, <2>5, WaitOnStep, ReturnStep, TransferStep, Zenon
<1> QED
  BY <1>1, <1>2 DEF SysWrite

-----------------------------------------------------------------------------
(* sys_open keeps the invariant: a plain descriptor names no pipe.         *)
LEMMA SysOpenStep ==
  ASSUME IInv, NEW c \in Slot, OnCpu(c), SysOpen(c)
  PROVE  IInv'
<1>1. CASE FreeFds(fds[c]) = {} /\ Return(c)
  BY <1>1, ReturnStep, Zenon
<1>2. CASE \E n \in Fd :
             /\ First(n, FreeFds(fds[c]))
             /\ fds' = [fds EXCEPT ![c][n] = PlainFd]
             /\ MaybeSwitch(proc, c)
             /\ UNCHANGED <<next_pid, pipes, hung, leaks>>
  <2>1. PICK n \in Fd :
             /\ First(n, FreeFds(fds[c]))
             /\ fds' = [fds EXCEPT ![c][n] = PlainFd]
             /\ MaybeSwitch(proc, c)
             /\ UNCHANGED <<next_pid, pipes, hung, leaks>>
    BY <1>2, Zenon
  <2>2. fds \in FdTables /\ fds[c][n] = NoFd
    BY <2>1 DEF IInv, TypeOK, FdTables, First, FreeFds
  <2>3. fds' \in FdTables
    BY <2>1, <2>2 DEF FdTables, Desc
  <2>4. ASSUME NEW i \in PipeId, NEW e \in End
        PROVE  RefsIn(fds', i, e) = RefsIn(fds, i, e)
    <3>1. [pipe |-> i, end |-> e] \in PipeFd
      BY DEF PipeFd
    <3>2. \A s \in Slot, m \in Fd :
             fds'[s][m] = [pipe |-> i, end |-> e] <=> fds[s][m] = [pipe |-> i, end |-> e]
      BY <2>1, <2>2, <3>1 DEF FdTables
    <3> QED
      BY <3>2 DEF RefsIn
  <2>5. Counted(pipes', fds', leaks')
    BY <2>1, <2>4, Zenon DEF IInv, PipesInv, Counted, N
  <2>6. PipesInv'
    BY <2>1, <2>5 DEF IInv, PipesInv, Sound, Counted, N, RefsIn, Consistent
  <2>7. proc \in ProcTables /\ SameSlots(proc, proc)
    BY DEF IInv, TypeOK, ProcTables, SameSlots
  <2>8. proc' \in ProcTables /\ SameSlots(proc, proc') /\ current' \in Pid
    BY <2>1, <2>7, SwitchStep, Zenon
  <2>9. /\ hung' \in BOOLEAN /\ leaks' \in Nat /\ next_pid' = next_pid
        /\ \A s \in Slot : proc[s] = NoProc => fds'[s] = fds[s]
    BY <2>1, <2>2 DEF IInv, TypeOK, FdTables, OnCpu, Owner
  <2> QED
    BY <2>3, <2>6, <2>8, <2>9, StepKeepsIInv, Zenon
<1> QED
  BY <1>1, <1>2 DEF SysOpen

(* Closing entries F of the caller's table and dropping their counts.      *)
LEMMA CloseStep ==
  ASSUME IInv, NEW c \in Slot, NEW F \in SUBSET Fd,
         fds' \in FdTables, Cleared(fds, fds', c, F),
         pipes' = CloseRefs(pipes, fds[c], F), leaks' = leaks
  PROVE  PipesInv'
<1>1. /\ pipes \in PipeTables /\ Sound(pipes) /\ Counted(pipes, fds, leaks)
      /\ fds \in FdTables
  BY Zenon DEF IInv, TypeOK, PipesInv, FdTables
<1>2. ASSUME NEW i \in PipeId, NEW e \in End
      PROVE  LET k == N(fds', i, e) + Cardinality(FdsOf(fds[c], i, e) \cap F)
             IN IF pipes[i] = NoPipe THEN N(fds', i, e) = 0
                ELSE k <= pipes[i].refcount[e] /\ (leaks = 0 => k = pipes[i].refcount[e])
  <2> DEFINE m == Cardinality(FdsOf(fds[c], i, e) \cap F)
  <2>1. N(fds, i, e) = N(fds', i, e) + m
    BY <1>1, CountCleared
  <2>2. m \in Nat /\ N(fds', i, e) \in Nat /\ N(fds, i, e) \in Nat
    BY FdsOfFinite, RefsFinite, ZenonT(30)
  <2>3. IF pipes[i] = NoPipe THEN N(fds, i, e) = 0
        ELSE /\ N(fds, i, e) <= pipes[i].refcount[e]
             /\ leaks = 0 => N(fds, i, e) = pipes[i].refcount[e]
    BY <1>1, Zenon DEF Counted
  <2> HIDE DEF m
  <2>4. IF pipes[i] = NoPipe THEN N(fds', i, e) = 0
        ELSE /\ N(fds', i, e) + m <= pipes[i].refcount[e]
             /\ leaks = 0 => N(fds', i, e) + m = pipes[i].refcount[e]
    BY <2>1, <2>2, <2>3
  <2> QED
    BY <2>4 DEF m
<1>3. CountedBeforeClose(pipes, fds', fds[c], F, leaks)
  BY <1>2 DEF CountedBeforeClose
<1>4. Counted(pipes', fds', leaks')
  BY <1>1, <1>3, CloseKeepsCounted, Zenon
<1>5. pipes' \in PipeTables /\ Sound(pipes')
  BY <1>1, CloseRefsCounts, Zenon
<1> QED
  BY <1>4, <1>5, Zenon DEF PipesInv, Sound, Counted, N, RefsIn, Consistent

(* sys_close keeps the invariant.                                          *)
LEMMA SysCloseStep ==
  ASSUME IInv, NEW c \in Slot, OnCpu(c), NEW fd \in Fd, SysClose(c, fd)
  PROVE  IInv'
<1> DEFINE W == WokenByCloses(pipes, fds[c], {fd})
<1>1. CASE Return(c)
  BY <1>1, ReturnStep
<1>2. CASE Hang(W)
  BY <1>2, HangStep, Zenon
<1>3. CASE /\ fds' = [fds EXCEPT ![c][fd] = NoFd]
           /\ pipes' = CloseRefs(pipes, fds[c], {fd})
           /\ Wake(W, c)
           /\ UNCHANGED <<next_pid, hung, leaks>>
  <2>1. fds \in FdTables
    BY DEF IInv, TypeOK, FdTables
  <2>2. fds' \in FdTables /\ Cleared(fds, fds', c, {fd})
    BY <1>3, <2>1 DEF FdTables, Desc, Cleared
  <2>3. PipesInv'
    BY <1>3, <2>2, CloseStep, ZenonT(30)
  <2>4. proc' \in ProcTables /\ SameSlots(proc, proc') /\ current' \in Pid
    BY <1>3, WakeStep
  <2>5. /\ hung' \in BOOLEAN /\ leaks' \in Nat /\ next_pid' = next_pid
        /\ \A s \in Slot : proc[s] = NoProc => fds'[s] = fds[s]
    BY <1>3, <2>1 DEF IInv, TypeOK, FdTables, OnCpu, Owner
  <2> QED
    BY <2>2, <2>3, <2>4, <2>5, StepKeepsIInv, Zenon
<1> QED
  BY <1>1, <1>2, <1>3 DEF SysClose

(* sys_exit keeps the invariant.                                           *)
LEMMA SysExitStep ==
  ASSUME IInv, NEW c \in Slot, OnCpu(c), SysExit(c)
  PROVE  IInv'
<1> DEFINE parent == {proc[c].parent_pid} \ {INVALID_PID}
           W == WokenByCloses(pipes, fds[c], Fd)
           t == SetState(Unblock(proc, W), c, "Exited")
<1>1. CASE Hang(W \cup parent)
  BY <1>1, HangStep, Zenon
<1>2. CASE /\ fds' = [fds EXCEPT ![c] = EmptyTable]
           /\ pipes' = CloseRefs(pipes, fds[c], Fd)
           /\ MaybeSwitch(Unblock(t, parent), c)
           /\ UNCHANGED <<next_pid, hung, leaks>>
  <2>1. fds \in FdTables /\ proc \in ProcTables /\ proc[c] # NoProc
    BY DEF IInv, TypeOK, FdTables, ProcTables, OnCpu, Owner
  <2>2. fds' \in FdTables /\ Cleared(fds, fds', c, Fd)
    BY <1>2, <2>1 DEF FdTables, Desc, Cleared, EmptyTable
  <2>3. PipesInv'
    BY <1>2, <2>2, CloseStep, ZenonT(30)
  <2>4. Unblock(proc, W) \in ProcTables /\ SameSlots(proc, Unblock(proc, W))
    BY <2>1, UnblockType, Zenon
  <2>5. t \in ProcTables /\ SameSlots(proc, t)
    BY <2>1, <2>4, SetStateType, Zenon DEF SameSlots, States
  <2>6. Unblock(t, parent) \in ProcTables /\ SameSlots(proc, Unblock(t, parent))
    BY <2>5, UnblockType, Zenon DEF SameSlots
  <2> HIDE DEF t, parent
  <2>7. proc' \in ProcTables /\ SameSlots(proc, proc') /\ current' \in Pid
    BY <1>2, <2>6, SwitchStep, Zenon
  <2>8. /\ hung' \in BOOLEAN /\ leaks' \in Nat /\ next_pid' = next_pid
        /\ \A s \in Slot : proc[s] = NoProc => fds'[s] = fds[s]
    BY <1>2, <2>1, Zenon DEF IInv, TypeOK, FdTables
  <2> QED
    BY <2>2, <2>3, <2>7, <2>8, StepKeepsIInv, Zenon
<1> QED
  BY <1>1, <1>2, Zenon DEF SysExit

-----------------------------------------------------------------------------
(* The table whose only entry is d, at number k.                           *)
Only(k, d) == [n \in Fd |-> IF n = k THEN d ELSE NoFd]

(* It holds one descriptor of an end if d is that end, otherwise none.     *)
LEMMA OnlyCount ==
  ASSUME NEW k \in Fd, NEW d, NEW i \in PipeId, NEW e \in End
  PROVE  Cardinality(FdsOf(Only(k, d), i, e)) =
           IF d = [pipe |-> i, end |-> e] THEN 1 ELSE 0
<1>1. [pipe |-> i, end |-> e] # NoFd
  BY DEF PipeFd
<1>2. CASE d = [pipe |-> i, end |-> e]
  <2>1. FdsOf(Only(k, d), i, e) = {k}
    BY <1>1, <1>2 DEF FdsOf, Only
  <2> QED
    BY <1>2, <2>1, FS_Singleton, Zenon
<1>3. CASE d # [pipe |-> i, end |-> e]
  <2>1. FdsOf(Only(k, d), i, e) = {}
    BY <1>1, <1>3, Zenon DEF FdsOf, Only
  <2> QED
    BY <1>3, <2>1, FS_EmptySet, Zenon
<1> QED
  BY <1>2, <1>3

(* g is f after slot c duplicated old to new.                              *)
Dup2(f, g, c, old, new) == g = [f EXCEPT ![c][new] = f[c][old]]

(* sys_dup2 moves a count: one more for what is duplicated, one less for   *)
(* what the new number held.                                               *)
LEMMA Dup2Count ==
  ASSUME NEW f \in FdTables, NEW g \in FdTables, NEW c \in Slot,
         NEW old \in Fd, NEW new \in Fd,
         Dup2(f, g, c, old, new),
         NEW i \in PipeId, NEW e \in End
  PROVE  N(g, i, e) + Cardinality(FdsOf(f[c], i, e) \cap {new}) =
           N(f, i, e) + Cardinality(FdsOf(Only(old, f[c][old]), i, e))
<1> DEFINE d == f[c][old]
           h == [f EXCEPT ![c][new] = NoFd]
<1>1. d \in Desc /\ NoFd \in Desc
  BY DEF FdTables, Desc
<1>2. h \in FdTables /\ Cleared(f, h, c, {new})
  BY <1>1 DEF FdTables, Cleared
<1>3. Only(new, d) \in [Fd -> Desc]
  BY <1>1 DEF Only
<1>4. Filled(h, g, c, Only(new, d))
  BY DEF Filled, Only, FdTables, Dup2
<1> HIDE DEF h, d
<1>5. N(f, i, e) = N(h, i, e) + Cardinality(FdsOf(f[c], i, e) \cap {new})
  BY <1>2, CountCleared
<1>6. N(g, i, e) = N(h, i, e) + Cardinality(FdsOf(Only(new, d), i, e))
  BY <1>2, <1>3, <1>4, CountFilled
<1>7. Cardinality(FdsOf(Only(new, d), i, e)) = Cardinality(FdsOf(Only(old, d), i, e))
  BY OnlyCount
<1>8. /\ N(h, i, e) \in Nat
      /\ Cardinality(FdsOf(f[c], i, e) \cap {new}) \in Nat
      /\ Cardinality(FdsOf(Only(old, d), i, e)) \in Nat
  BY RefsFinite, FdsOfFinite, Zenon
<1> QED
  BY <1>5, <1>6, <1>7, <1>8 DEF d

(* sys_dup2 keeps the invariant.                                           *)
LEMMA SysDup2Step ==
  ASSUME IInv, NEW c \in Slot, OnCpu(c), NEW old \in Fd, NEW new \in Fd,
         SysDup2(c, old, new)
  PROVE  IInv'
<1> DEFINE one == Only(old, fds[c][old])
           q == CloneRefs(pipes, one)
           W == WokenByCloses(q, fds[c], {new})
<1>0. one = [n \in Fd |-> IF n = old THEN fds[c][old] ELSE NoFd]
  BY DEF Only
<1>1. CASE Return(c)
  BY <1>1, ReturnStep, Zenon
<1>2. CASE Hang(W)
  BY <1>2, HangStep
<1>3. CASE /\ fds' = [fds EXCEPT ![c][new] = fds[c][old]]
           /\ pipes' = CloseRefs(q, fds[c], {new})
           /\ Wake(W, c)
           /\ UNCHANGED <<next_pid, hung, leaks>>
  <2>1. /\ fds \in FdTables /\ pipes \in PipeTables /\ Sound(pipes)
        /\ Counted(pipes, fds, leaks)
    BY Zenon DEF IInv, TypeOK, FdTables, PipesInv
  <2>2. fds' \in FdTables
    BY <1>3, <2>1, Zenon DEF FdTables
  <2>11. Dup2(fds, fds', c, old, new)
    BY <1>3 DEF Dup2
  <2>3. /\ q \in PipeTables /\ Sound(q)
        /\ \A i \in PipeId : q[i] = NoPipe <=> pipes[i] = NoPipe
        /\ \A i \in PipeId, e \in End :
             pipes[i] # NoPipe => q[i].refcount[e] = pipes[i].refcount[e]
                                                     + Cardinality(FdsOf(one, i, e))
    BY <2>1, CloneRefsCounts, Zenon
  <2> HIDE DEF q, one, W
  <2>4. ASSUME NEW i \in PipeId, NEW e \in End
        PROVE  LET k == N(fds', i, e) + Cardinality(FdsOf(fds[c], i, e) \cap {new})
               IN IF q[i] = NoPipe THEN N(fds', i, e) = 0
                  ELSE k <= q[i].refcount[e] /\ (leaks = 0 => k = q[i].refcount[e])
    <3> DEFINE m == Cardinality(FdsOf(fds[c], i, e) \cap {new})
               o == Cardinality(FdsOf(one, i, e))
    <3>1. N(fds', i, e) + m = N(fds, i, e) + o
      BY <2>11, <2>1, <2>2, Dup2Count, SMTT(30) DEF one
    <3>2. m \in Nat /\ o \in Nat /\ N(fds, i, e) \in Nat /\ N(fds', i, e) \in Nat
      BY FdsOfFinite, RefsFinite, Zenon
    <3>3. CASE q[i] = NoPipe
      <4>1. pipes[i] = NoPipe
        BY <2>3, <3>3, Zenon
      <4>2. N(fds, i, e) = 0
        BY <2>1, <4>1 DEF Counted
      <4>3. fds[c][old] # [pipe |-> i, end |-> e]
        BY <2>1, <4>1, FreePipeUnnamed, Zenon
      <4>4. o = 0
        BY <4>3, OnlyCount, ZenonT(30) DEF one
      <4> HIDE DEF m, o
      <4> QED
        BY <3>1, <3>2, <3>3, <4>2, <4>4
    <3>4. CASE q[i] # NoPipe
      <4>1. q[i].refcount[e] = pipes[i].refcount[e] + o
        BY <2>3, <3>4, ZenonT(30)
      <4>2. /\ N(fds, i, e) <= pipes[i].refcount[e]
            /\ leaks = 0 => N(fds, i, e) = pipes[i].refcount[e]
            /\ pipes[i].refcount[e] \in Nat
        BY <2>1, <2>3, <3>4, SMTT(30) DEF Counted, PipeTables, Pipe
      <4> HIDE DEF m, o
      <4>3. /\ N(fds', i, e) + m <= q[i].refcount[e]
            /\ leaks = 0 => N(fds', i, e) + m = q[i].refcount[e]
        BY <3>1, <3>2, <4>1, <4>2, CountMoved
      <4> QED
        BY <3>4, <4>3 DEF m
    <3> QED
      BY <3>3, <3>4, ZenonT(30)
  <2>5. CountedBeforeClose(q, fds', fds[c], {new}, leaks)
    BY <2>4, ZenonT(30) DEF CountedBeforeClose
  <2>6. Counted(pipes', fds', leaks')
    BY <1>3, <2>3, <2>5, CloseKeepsCounted, Zenon
  <2>7. pipes' \in PipeTables /\ Sound(pipes')
    BY <1>3, <2>3, CloseRefsCounts
  <2>8. PipesInv'
    BY <2>6, <2>7, Zenon DEF PipesInv, Sound, Counted, N, RefsIn, Consistent
  <2>9. proc' \in ProcTables /\ SameSlots(proc, proc') /\ current' \in Pid
    BY <1>3, WakeStep, Zenon
  <2>10. /\ hung' \in BOOLEAN /\ leaks' \in Nat /\ next_pid' = next_pid
         /\ \A s \in Slot : proc[s] = NoProc => fds'[s] = fds[s]
    BY <1>3, <2>1 DEF IInv, TypeOK, FdTables, OnCpu, Owner
  <2> QED
    BY <2>2, <2>8, <2>9, <2>10, StepKeepsIInv, Zenon
<1> QED
  BY <1>0, <1>1, <1>2, <1>3, Zenon DEF SysDup2

(* A free entry of PIPE_TABLE becomes pipe p: only the descriptors that    *)
(* name it need counting.                                                  *)
LEMMA PipeAdded ==
  ASSUME IInv, NEW i \in PipeId, pipes[i] = NoPipe,
         NEW p \in Pipe, Consistent(p), p.open["r"] \/ p.open["w"],
         pipes' = [pipes EXCEPT ![i] = p], leaks' = 0 => leaks = 0,
         \A j \in PipeId \ {i}, e \in End : N(fds', j, e) = N(fds, j, e),
         \A e \in End : /\ N(fds', i, e) <= p.refcount[e]
                        /\ leaks' = 0 => N(fds', i, e) = p.refcount[e]
  PROVE  PipesInv'
<1>1. pipes \in PipeTables /\ Sound(pipes) /\ Counted(pipes, fds, leaks)
  BY Zenon DEF IInv, PipesInv
<1>2. pipes' \in PipeTables
  BY <1>1, Zenon DEF PipeTables
<1>3. pipes'[i] = p /\ p # NoPipe /\ \A j \in PipeId \ {i} : pipes'[j] = pipes[j]
  BY <1>1, Zenon DEF PipeTables
<1>4. Sound(pipes')
  BY <1>1, <1>3, Zenon DEF Sound
<1>5. ASSUME NEW j \in PipeId, NEW e \in End
      PROVE  IF pipes'[j] = NoPipe THEN N(fds', j, e) = 0
             ELSE /\ N(fds', j, e) <= pipes'[j].refcount[e]
                  /\ leaks' = 0 => N(fds', j, e) = pipes'[j].refcount[e]
  <2>1. CASE j = i
    BY <1>3, <2>1, Zenon
  <2>2. CASE j # i
    BY <1>1, <1>3, <2>2, SMTT(30) DEF Counted
  <2> QED
    BY <2>1, <2>2, Zenon
<1>6. Counted(pipes', fds', leaks')
  BY <1>5, Zenon DEF Counted
<1> QED
  BY <1>2, <1>4, <1>6, Zenon DEF PipesInv, Sound, Counted, N, RefsIn, Consistent

(* The new pipe, whole or with its read end closed again.                  *)
LEMMA NewPipeSound ==
  /\ NewPipe \in Pipe /\ Consistent(NewPipe) /\ NewPipe.open["r"]
  /\ \A e \in End : NewPipe.refcount[e] = 1
  /\ DropEnd(NewPipe, "r", 1) \in Pipe /\ Consistent(DropEnd(NewPipe, "r", 1))
  /\ DropEnd(NewPipe, "r", 1).open["w"]
  /\ \A e \in End : DropEnd(NewPipe, "r", 1).refcount[e] \in Nat
<1>1. NewPipe \in Pipe
  BY DEF NewPipe, Pipe
<1>2. "r" \in End /\ "w" \in End /\ "r" # "w"
  BY DEF End
<1>3. \A e \in End : NewPipe.refcount[e] = 1 /\ NewPipe.open[e]
  BY DEF NewPipe
<1>4. Consistent(NewPipe)
  BY <1>3 DEF Consistent
<1> DEFINE p == DropEnd(NewPipe, "r", 1)
<1>5. p \in Pipe /\ Consistent(p) /\ p.refcount["w"] = 1
  BY <1>1, <1>2, <1>3, <1>4, DropEndPipe
<1> HIDE DEF p
<1>6. p.open["w"] /\ \A e \in End : p.refcount[e] \in Nat
  BY <1>2, <1>5, SMTT(30) DEF Consistent, Pipe
<1> QED
  BY <1>1, <1>2, <1>3, <1>4, <1>5, <1>6, ZenonT(30) DEF p

(* sys_pipe keeps the invariant.                                           *)
LEMMA SysPipeStep ==
  ASSUME IInv, NEW c \in Slot, OnCpu(c), SysPipe(c)
  PROVE  IInv'
<1> DEFINE free == FreeFds(fds[c])
<1>1. CASE Return(c)
  BY <1>1, ReturnStep
<1>2. ASSUME NEW i \in PipeId, First(i, FreePipes(pipes)),
             MaybeSwitch(proc, c), UNCHANGED <<next_pid, hung>>,
             \/ /\ free = {}
                /\ pipes' = [pipes EXCEPT ![i] = NewPipe]
                /\ fds' = fds
                /\ leaks' = leaks + 1
             \/ \E n \in Fd :
                  /\ free = {n}
                  /\ pipes' = [pipes EXCEPT ![i] = DropEnd(NewPipe, "r", 1)]
                  /\ fds' = fds
                  /\ leaks' = leaks + 1
             \/ \E r, w \in Fd :
                  /\ First(r, free)
                  /\ First(w, free \ {r})
                  /\ pipes' = [pipes EXCEPT ![i] = NewPipe]
                  /\ fds' = [fds EXCEPT ![c][r] = [pipe |-> i, end |-> "r"],
                                        ![c][w] = [pipe |-> i, end |-> "w"]]
                  /\ leaks' = leaks
      PROVE  IInv'
  <2>1. /\ pipes[i] = NoPipe /\ fds \in FdTables /\ leaks \in Nat
        /\ Counted(pipes, fds, leaks) /\ proc \in ProcTables
    BY <1>2 DEF First, FreePipes, IInv, TypeOK, FdTables, PipesInv, ProcTables
  <2>2. \A e \in End : N(fds, i, e) = 0
    BY <2>1, ZenonT(30) DEF Counted
  <2>3. /\ fds' \in FdTables /\ leaks' \in Nat /\ PipesInv'
        /\ \A s \in Slot : s # c => fds'[s] = fds[s]
    <3>1. CASE /\ fds' = fds /\ leaks' = leaks + 1
               /\ \/ pipes' = [pipes EXCEPT ![i] = NewPipe]
                  \/ pipes' = [pipes EXCEPT ![i] = DropEnd(NewPipe, "r", 1)]
      <4>1. /\ \A j \in PipeId \ {i}, e \in End : N(fds', j, e) = N(fds, j, e)
            /\ \A e \in End : N(fds', i, e) = 0
            /\ leaks' # 0 /\ leaks' \in Nat
        BY <2>1, <2>2, <3>1
      <4>2. PipesInv'
        BY <2>1, <3>1, <4>1, NewPipeSound, PipeAdded
      <4> QED
        BY <2>1, <3>1, <4>1, <4>2, Zenon
    <3>2. ASSUME NEW r \in Fd, NEW w \in Fd, r # w,
                 fds[c][r] = NoFd, fds[c][w] = NoFd,
                 pipes' = [pipes EXCEPT ![i] = NewPipe],
                 fds' = [fds EXCEPT ![c][r] = [pipe |-> i, end |-> "r"],
                                    ![c][w] = [pipe |-> i, end |-> "w"]],
                 leaks' = leaks
          PROVE  /\ fds' \in FdTables /\ leaks' \in Nat /\ PipesInv'
                 /\ \A s \in Slot : s # c => fds'[s] = fds[s]
      <4> DEFINE R == [pipe |-> i, end |-> "r"]
                 W == [pipe |-> i, end |-> "w"]
                 t == [n \in Fd |-> IF n = r THEN R ELSE IF n = w THEN W ELSE NoFd]
      <4>1. R \in PipeFd /\ W \in PipeFd /\ R # NoFd /\ W # NoFd /\ R # W
        BY DEF PipeFd, End
      <4>2. R \in Desc /\ W \in Desc /\ NoFd \in Desc
        BY <4>1, Zenon DEF Desc
      <4> HIDE DEF R, W
      <4>3. fds' = [fds EXCEPT ![c][r] = R, ![c][w] = W]
        BY <3>2, Zenon DEF R, W
      <4>4. fds' \in FdTables /\ \A s \in Slot : s # c => fds'[s] = fds[s]
        BY <2>1, <4>2, <4>3, Zenon DEF FdTables
      <4>5. t \in [Fd -> Desc]
        BY <4>2, Zenon
      <4>6. \A s \in Slot, n \in Fd :
               fds'[s][n] = IF s = c /\ n = w THEN W
                            ELSE IF s = c /\ n = r THEN R ELSE fds[s][n]
        BY <2>1, <3>2, <4>3 DEF FdTables
      <4>7. Filled(fds, fds', c, t)
        <5>1. \A n \in Fd : t[n] = IF n = r THEN R ELSE IF n = w THEN W ELSE NoFd
          BY Zenon
        <5> HIDE DEF t
        <5>2. \A n \in Fd : t[n] # NoFd => fds[c][n] = NoFd
          BY <3>2, <5>1
        <5>3. ASSUME NEW s \in Slot, NEW n \in Fd
              PROVE  fds'[s][n] = IF s = c /\ t[n] # NoFd THEN t[n] ELSE fds[s][n]
          <6>1. CASE s = c /\ n = r
            BY <3>2, <4>1, <4>6, <5>1, <6>1, Zenon
          <6>2. CASE s = c /\ n = w
            BY <3>2, <4>1, <4>6, <5>1, <6>2, Zenon
          <6>3. CASE s = c /\ n # r /\ n # w
            BY <4>6, <5>1, <6>3, Zenon
          <6>4. CASE s # c
            BY <4>6, <6>4, Zenon
          <6> QED
            BY <6>1, <6>2, <6>3, <6>4, ZenonT(30)
        <5> QED
          BY <5>2, <5>3, Zenon DEF Filled
      <4>8. ASSUME NEW j \in PipeId, NEW e \in End
            PROVE  Cardinality(FdsOf(t, j, e)) = IF j = i THEN 1 ELSE 0
        <5>1. [pipe |-> j, end |-> e] \in PipeFd /\ [pipe |-> j, end |-> e] # NoFd
          BY DEF PipeFd
        <5>2. CASE j # i
          <6>1. R # [pipe |-> j, end |-> e] /\ W # [pipe |-> j, end |-> e]
            BY <5>2, Zenon DEF R, W
          <6>2. FdsOf(t, j, e) = {}
            BY <5>1, <6>1, Zenon DEF FdsOf
          <6> QED
            BY <5>2, <6>2, FS_EmptySet, Zenon
        <5>3. CASE j = i /\ e = "r"
          <6>1. R = [pipe |-> j, end |-> e]
            BY <5>3, Zenon DEF R
          <6>2. FdsOf(t, j, e) = {r}
            BY <3>2, <4>1, <5>1, <6>1, Zenon DEF FdsOf
          <6> QED
            BY <5>3, <6>2, FS_Singleton, Zenon
        <5>4. CASE j = i /\ e = "w"
          <6>1. W = [pipe |-> j, end |-> e]
            BY <5>4 DEF W
          <6>2. FdsOf(t, j, e) = {w}
            BY <3>2, <4>1, <5>1, <6>1 DEF FdsOf
          <6> QED
            BY <5>4, <6>2, FS_Singleton, Zenon
        <5> QED
          BY <5>2, <5>3, <5>4, Zenon DEF End
      <4> HIDE DEF t
      <4>9. \A j \in PipeId, e \in End :
               N(fds', j, e) = N(fds, j, e) + (IF j = i THEN 1 ELSE 0)
        BY <2>1, <4>4, <4>5, <4>7, <4>8, CountFilled
      <4>10. /\ \A j \in PipeId \ {i}, e \in End : N(fds', j, e) = N(fds, j, e)
             /\ \A e \in End : N(fds', i, e) = 1
        BY <2>2, <4>9, RefsFinite, SMTT(30)
      <4>11. \A e \in End : /\ N(fds', i, e) <= NewPipe.refcount[e]
                            /\ N(fds', i, e) = NewPipe.refcount[e]
        BY <4>10, NewPipeSound, SMTT(30)
      <4>12. PipesInv'
        BY <2>1, <3>2, <4>10, <4>11, NewPipeSound, PipeAdded, Zenon
      <4> QED
        BY <2>1, <3>2, <4>4, <4>12, Zenon
    <3> QED
      BY <1>2, <3>1, <3>2, ZenonT(30) DEF First, FreeFds
  <2>4. proc' \in ProcTables /\ SameSlots(proc, proc') /\ current' \in Pid
    BY <1>2, <2>1, SwitchStep, Zenon DEF SameSlots
  <2>5. /\ hung' \in BOOLEAN /\ next_pid' = next_pid
        /\ \A s \in Slot : proc[s] = NoProc => fds'[s] = fds[s]
    BY <1>2, <2>3 DEF IInv, TypeOK, OnCpu, Owner
  <2> QED
    BY <2>3, <2>4, <2>5, StepKeepsIInv, ZenonT(30)
<1> QED
  BY <1>1, <1>2, Zenon DEF SysPipe

-----------------------------------------------------------------------------
(* A clone that is dropped again leaves the counts too high, never too     *)
(* low; without a pipe end in the table it leaves them as they were.       *)
LEMMA DroppedClone ==
  ASSUME IInv, NEW c \in Slot, fds' = fds, leaks' \in Nat,
         pipes' = CloneRefs(pipes, fds[c]),
         leaks' = 0 => leaks = 0 /\ ~HasPipeFd(fds[c])
  PROVE  PipesInv'
<1>1. /\ pipes \in PipeTables /\ Sound(pipes) /\ Counted(pipes, fds, leaks)
  BY DEF IInv, PipesInv
<1>2. pipes' \in PipeTables /\ Sound(pipes')
  BY <1>1, CloneRefsCounts, Zenon
<1>5. /\ \A i \in PipeId :
             CloneRefs(pipes, fds[c])[i] = NoPipe <=> pipes[i] = NoPipe
      /\ \A i \in PipeId, e \in End :
           pipes[i] # NoPipe => CloneRefs(pipes, fds[c])[i].refcount[e] =
                                  pipes[i].refcount[e] + Cardinality(FdsOf(fds[c], i, e))
  BY <1>1, CloneRefsCounts, Zenon
<1>3. ASSUME NEW i \in PipeId, NEW e \in End
      PROVE  IF pipes'[i] = NoPipe THEN N(fds, i, e) = 0
             ELSE /\ N(fds, i, e) <= pipes'[i].refcount[e]
                  /\ leaks' = 0 => N(fds, i, e) = pipes'[i].refcount[e]
  <2> DEFINE k == Cardinality(FdsOf(fds[c], i, e))
             m == pipes[i].refcount[e]
  <2>1. /\ pipes'[i] = NoPipe <=> pipes[i] = NoPipe
        /\ pipes[i] # NoPipe => pipes'[i].refcount[e] = m + k
    BY <1>5, Zenon
  <2>2. k \in Nat /\ N(fds, i, e) \in Nat
    BY FdsOfFinite, RefsFinite, Zenon
  <2>3. leaks' = 0 => k = 0
    <3>1. [pipe |-> i, end |-> e] \in PipeFd
      BY Zenon DEF PipeFd
    <3>2. ~HasPipeFd(fds[c]) => FdsOf(fds[c], i, e) = {}
      BY <3>1, Zenon DEF HasPipeFd, FdsOf
    <3> QED
      BY <3>2, FS_EmptySet, Zenon
  <2>4. pipes[i] # NoPipe => m \in Nat
    BY <1>1, Zenon DEF PipeTables, Pipe
  <2>5. IF pipes[i] = NoPipe THEN N(fds, i, e) = 0
        ELSE N(fds, i, e) <= m /\ (leaks = 0 => N(fds, i, e) = m)
    BY <1>1, Zenon DEF Counted
  <2> HIDE DEF k, m
  <2>6. CASE pipes[i] = NoPipe
    BY <2>1, <2>5, <2>6, Zenon
  <2>7. CASE pipes[i] # NoPipe
    <3>1. N(fds, i, e) <= m + k /\ (leaks' = 0 => N(fds, i, e) = m + k)
      BY <2>2, <2>3, <2>4, <2>5, <2>7, CountGrown, SMTT(30)
    <3> QED
      BY <2>1, <2>7, <3>1, Zenon
  <2> QED
    BY <2>6, <2>7, Zenon
<1>4. Counted(pipes', fds', leaks')
  BY <1>3 DEF Counted
<1> QED
  BY <1>2, <1>4, Zenon DEF PipesInv, Sound, Counted, N, RefsIn, Consistent

(* sys_spawn keeps the invariant.                                          *)
LEMMA SysSpawnStep ==
  ASSUME IInv, NEW c \in Slot, OnCpu(c), SysSpawn(c)
  PROVE  IInv'
<1>1. /\ fds \in FdTables /\ proc \in ProcTables /\ pipes \in PipeTables
      /\ Sound(pipes) /\ Counted(pipes, fds, leaks) /\ leaks \in Nat
      /\ proc[c] # NoProc /\ current \in Pid /\ next_pid \in Pid
  BY Zenon DEF IInv, TypeOK, FdTables, ProcTables, PipesInv, OnCpu, Owner
<1>2. CASE /\ leaks' = IF HasPipeFd(fds[c]) THEN leaks + 1 ELSE leaks
           /\ MaybeSwitch(proc, c)
           /\ UNCHANGED <<next_pid, fds>>
  <2>1. leaks' \in Nat /\ (leaks' = 0 => leaks = 0 /\ ~HasPipeFd(fds[c]))
    BY <1>1, <1>2
  <2>2. PipesInv'
    BY <1>2, <2>1, DroppedClone, Zenon DEF SysSpawn
  <2>3. proc' \in ProcTables /\ SameSlots(proc, proc') /\ current' \in Pid
    BY <1>1, <1>2, SwitchStep, Zenon DEF SameSlots
  <2>4. hung' \in BOOLEAN /\ fds' \in FdTables
    BY <1>1, <1>2, Zenon DEF SysSpawn, IInv, TypeOK
  <2> QED
    BY <1>2, <2>1, <2>2, <2>3, <2>4, StepKeepsIInv, ZenonT(30)
<1>3. ASSUME NEW s \in Slot, First(s, FreeSlots(proc)),
             next_pid' = next_pid + 1, fds' = [fds EXCEPT ![s] = fds[c]],
             MaybeSwitch([proc EXCEPT ![s] = NewProcess(next_pid, current)], c),
             UNCHANGED leaks
      PROVE  IInv'
  <2> DEFINE t == [proc EXCEPT ![s] = NewProcess(next_pid, current)]
  <2>1. proc[s] = NoProc /\ s # c /\ fds[s] = EmptyTable
    BY <1>1, <1>3 DEF First, FreeSlots, IInv, FreeSlotsEmpty
  <2>2. NewProcess(next_pid, current) \in Process
    BY <1>1, Zenon DEF NewProcess, Process, States, Pid
  <2>3. t \in ProcTables /\ t[c] # NoProc /\ t[s] # NoProc
        /\ \A r \in Slot : t[r] = NoProc => proc[r] = NoProc
    BY <1>1, <2>1, <2>2 DEF ProcTables
  <2> HIDE DEF t
  <2>4. proc' \in ProcTables /\ SameSlots(t, proc') /\ current' \in Pid
    BY <1>1, <1>3, <2>3, MaybeSwitchType, Zenon DEF t
  <2>5. fds' \in FdTables
    BY <1>1, <1>3, Zenon DEF FdTables
  <2>6. Filled(fds, fds', s, fds[c])
    BY <1>1, <1>3, <2>1, Zenon DEF Filled, FdTables, EmptyTable
  <2>7. fds[c] \in [Fd -> Desc] /\ \A n \in Fd : fds[c][n] \in {NoFd, fds[c][n]}
    BY <1>1, Zenon DEF FdTables
  <2>8. Counted(pipes', fds', leaks')
    BY <1>1, <1>3, <2>5, <2>6, <2>7, CloneKeepsCounted, ZenonT(30) DEF SysSpawn
  <2>9. pipes' \in PipeTables /\ Sound(pipes')
    BY <1>1, CloneRefsCounts DEF SysSpawn
  <2>10. PipesInv'
    BY <2>8, <2>9, ZenonT(30) DEF PipesInv, Sound, Counted, N, RefsIn, Consistent
  <2>11. next_pid' \in Pid /\ hung' \in BOOLEAN /\ leaks' \in Nat
    BY <1>1, <1>3 DEF SysSpawn, IInv, TypeOK, Pid
  <2>12. TypeOK'
    BY <2>4, <2>5, <2>9, <2>11, Zenon DEF TypeOK, ProcTables, FdTables, PipeTables
  <2>13. ASSUME NEW r \in Slot, proc'[r] = NoProc
         PROVE  fds'[r] = EmptyTable
    <3>1. proc[r] = NoProc /\ r # s
      BY <2>3, <2>4, <2>13 DEF SameSlots
    <3> QED
      BY <1>1, <1>3, <3>1, Zenon DEF FdTables, IInv, FreeSlotsEmpty
  <2> QED
    BY <2>10, <2>12, <2>13, Zenon DEF IInv, FreeSlotsEmpty
<1> QED
  BY <1>2, <1>3, Zenon DEF SysSpawn

(* What wait may reap is not the caller and has no descriptors left.       *)
ReapsEmpty(c) ==
  \A z \in ExitedChildren(proc, current) : z # c /\ fds[z] = EmptyTable

(* sys_wait keeps the invariant under that condition.                      *)
LEMMA SysWaitStep ==
  ASSUME IInv, NEW c \in Slot, OnCpu(c), SysWait(c), ReapsEmpty(c)
  PROVE  IInv'
<1>1. /\ fds \in FdTables /\ proc \in ProcTables /\ proc[c] # NoProc
      /\ current \in Pid
  BY DEF IInv, TypeOK, FdTables, ProcTables, OnCpu, Owner
<1>2. CASE Return(c)
  BY <1>2, ReturnStep, Zenon
<1>3. CASE Block(c) /\ UNCHANGED <<next_pid, fds, pipes, hung, leaks>>
  <2>1. /\ SetState(proc, c, "Blocked") \in ProcTables
        /\ SameSlots(proc, SetState(proc, c, "Blocked"))
    BY <1>1, SetStateType, Zenon DEF States
  <2>2. proc' \in ProcTables /\ SameSlots(proc, proc') /\ current' \in Pid
    BY <1>3, <2>1, SwitchStep, Zenon DEF Block
  <2>3. PipesInv'
    BY <1>3, PipesInvKept, Zenon DEF IInv
  <2>4. hung' \in BOOLEAN /\ leaks' \in Nat /\ fds' \in FdTables
    BY <1>1, <1>3, Zenon DEF IInv, TypeOK
  <2> QED
    BY <1>3, <2>2, <2>3, <2>4, StepKeepsIInv, Zenon
<1>4. ASSUME NEW z \in Slot, First(z, ExitedChildren(proc, current)),
             fds' = [fds EXCEPT ![z] = EmptyTable],
             MaybeSwitch([proc EXCEPT ![z] = NoProc], c),
             UNCHANGED <<next_pid, pipes, hung, leaks>>
      PROVE  IInv'
  <2> DEFINE t == [proc EXCEPT ![z] = NoProc]
  <2>1. fds[z] = EmptyTable /\ z # c
    BY <1>4, Zenon DEF First, ReapsEmpty
  <2>2. fds' = fds
    BY <1>1, <1>4, <2>1, Zenon DEF FdTables
  <2>3. PipesInv'
    BY <1>4, <2>2, PipesInvKept, Zenon DEF IInv
  <2>4. t \in ProcTables /\ t[z] = NoProc /\ \A s \in Slot : s # z => t[s] = proc[s]
    BY <1>1 DEF ProcTables
  <2> HIDE DEF t
  <2>5. proc' \in ProcTables /\ SameSlots(t, proc') /\ current' \in Pid
    BY <1>1, <1>4, <2>1, <2>4, MaybeSwitchType, Zenon DEF t
  <2>6. TypeOK'
    BY <1>4, <2>2, <2>5, Zenon DEF IInv, TypeOK, ProcTables
  <2>7. FreeSlotsEmpty'
    BY <2>1, <2>2, <2>4, <2>5, Zenon DEF IInv, FreeSlotsEmpty, SameSlots
  <2> QED
    BY <2>3, <2>6, <2>7, Zenon DEF IInv
<1> QED
  BY <1>2, <1>3, <1>4, Zenon DEF SysWait

(* The invariant holds initially.                                          *)
LEMMA InitIInv == Init => IInv
<1> SUFFICES ASSUME Init PROVE IInv
  BY Zenon
<1>1. NewProcess(1, INVALID_PID) \in Process
  BY DEF NewProcess, Process, INVALID_PID, States
<1>2. WithStandard \in [Fd -> Desc] /\ EmptyTable \in [Fd -> Desc]
  BY Zenon DEF WithStandard, EmptyTable, Desc
<1>3. TypeOK
  <2>1. proc \in ProcTables
    BY <1>1, Zenon DEF Init, Launch, ProcTables
  <2>2. fds \in FdTables
    BY <1>2, Zenon DEF Init, Launch, FdTables
  <2>3. pipes \in PipeTables
    BY Zenon DEF Init, Launch, PipeTables
  <2>4. current = 1 /\ next_pid = 2 /\ hung = FALSE /\ leaks = 0
    BY DEF Init, Launch
  <2>5. current \in Pid /\ next_pid \in Pid /\ leaks \in Nat
    BY <2>4 DEF Pid
  <2>6. hung \in BOOLEAN
    BY <2>4, ZenonT(30)
  <2> QED
    BY <2>1, <2>2, <2>3, <2>5, <2>6, Zenon DEF TypeOK, ProcTables, FdTables, PipeTables
<1>4. ASSUME NEW i \in PipeId, NEW e \in End
      PROVE  N(fds, i, e) = 0
  <2>1. [pipe |-> i, end |-> e] # NoFd /\ [pipe |-> i, end |-> e] # PlainFd
    BY DEF PipeFd
  <2>2. \A s \in Slot, n \in Fd : fds[s][n] \in {NoFd, PlainFd}
    BY Zenon DEF Init, Launch, WithStandard, EmptyTable
  <2>3. RefsIn(fds, i, e) = {}
    BY <2>1, <2>2, Zenon DEF RefsIn
  <2> QED
    BY <2>3, FS_EmptySet, Zenon DEF N
<1>5. PipesInv
  BY <1>4, Zenon DEF Init, Launch, PipesInv, PipeTables, Sound, Counted
<1>6. FreeSlotsEmpty
  BY <1>1, Zenon DEF Init, Launch, FreeSlotsEmpty
<1> QED
  BY <1>3, <1>5, <1>6, Zenon DEF IInv

(* Every step keeps it, under that condition on what is reaped.            *)
LEMMA NextIInv ==
  ASSUME IInv, [Next]_vars, \A c \in Slot : OnCpu(c) => ReapsEmpty(c)
  PROVE  IInv'
<1>1. CASE UNCHANGED vars
  <2>1. /\ fds' = fds /\ pipes' = pipes /\ leaks' = leaks /\ hung' = hung
        /\ next_pid' = next_pid /\ proc' = proc /\ current' = current
    BY <1>1, Zenon DEF vars
  <2>2. PipesInv'
    BY <2>1, PipesInvKept, Zenon DEF IInv
  <2> QED
    BY <2>1, <2>2, Zenon DEF IInv, TypeOK, FreeSlotsEmpty
<1>2. ASSUME NEW c \in Slot, OnCpu(c), Syscall(c), ReapsEmpty(c)
      PROVE  IInv'
  <2>1. UserFds \subseteq Fd /\ \A n \in 0 .. MaxIO : n \in Nat
    OBVIOUS
  <2>2. ASSUME NEW fd \in UserFds, NEW n \in 0 .. MaxIO, SysRead(c, fd, n)
        PROVE  IInv'
    BY <1>2, <2>1, <2>2, SysReadStep, Zenon
  <2>3. ASSUME NEW fd \in UserFds, NEW n \in 1 .. MaxIO, SysWrite(c, fd, n)
        PROVE  IInv'
    BY <1>2, <2>1, <2>3, SysWriteStep
  <2>4. CASE SysOpen(c)
    BY <1>2, <2>4, SysOpenStep, Zenon
  <2>5. ASSUME NEW fd \in UserFds, SysClose(c, fd) PROVE IInv'
    BY <1>2, <2>1, <2>5, SysCloseStep, Zenon
  <2>6. ASSUME NEW old \in UserFds, NEW new \in UserFds, SysDup2(c, old, new)
        PROVE  IInv'
    BY <1>2, <2>1, <2>6, SysDup2Step, Zenon
  <2>7. CASE SysPipe(c)
    BY <1>2, <2>7, SysPipeStep
  <2>8. CASE SysSpawn(c)
    BY <1>2, <2>8, SysSpawnStep
  <2>9. CASE SysWait(c)
    BY <1>2, <2>9, SysWaitStep, Zenon
  <2>10. CASE SysExit(c)
    BY <1>2, <2>10, SysExitStep
  <2>11. CASE SysOther(c)
    BY <1>2, <2>11, ReturnStep, Zenon DEF SysOther
  <2> QED
    BY <1>2, <2>2, <2>3, <2>4, <2>5, <2>6, <2>7, <2>8, <2>9, <2>10, <2>11, Zenon
       DEF Syscall
<1> QED
  BY <1>1, <1>2, Zenon DEF Next

(* What the invariant says of descriptors and counts.                      *)
LEMMA IInvImplies == IInv => FdsNeverDangle /\ RefcountExact
<1> SUFFICES ASSUME IInv PROVE FdsNeverDangle /\ RefcountExact
  BY Zenon
<1>1. /\ pipes \in PipeTables /\ Sound(pipes) /\ Counted(pipes, fds, leaks)
      /\ \A i, e : Refs(i, e) = RefsIn(fds, i, e)
  BY Zenon DEF IInv, PipesInv, Refs, RefsIn
<1>2. FdsNeverDangle
  <2> SUFFICES ASSUME NEW s \in Slot, NEW n \in Fd, fds[s][n] \in PipeFd
               PROVE  /\ pipes[fds[s][n].pipe] # NoPipe
                      /\ pipes[fds[s][n].pipe].open[fds[s][n].end]
    BY ZenonT(30) DEF FdsNeverDangle
  <2>1. PICK i \in PipeId, e \in End : fds[s][n] = [pipe |-> i, end |-> e]
    BY DEF PipeFd
  <2>2. pipes[i] # NoPipe
    BY <1>1, <2>1, FreePipeUnnamed, Zenon
  <2>3. <<s, n>> \in RefsIn(fds, i, e)
    BY <2>1, ZenonT(30) DEF RefsIn
  <2>4. N(fds, i, e) # 0
    BY <2>3, RefsFinite, FS_EmptySet, Zenon DEF N
  <2>5. pipes[i].refcount[e] > 0
    <3>1. N(fds, i, e) <= pipes[i].refcount[e] /\ N(fds, i, e) \in Nat
      BY <1>1, <2>2, RefsFinite, Zenon DEF Counted
    <3>2. pipes[i].refcount[e] \in Nat
      BY <1>1, <2>2, Zenon DEF PipeTables, Pipe
    <3> QED
      BY <2>4, <3>1, <3>2
  <2>6. pipes[i].open[e]
    BY <1>1, <2>2, <2>5, ZenonT(30) DEF Sound, Consistent
  <2> QED
    BY <2>1, <2>2, <2>6
<1>3. RefcountExact
  <2> SUFFICES ASSUME leaks = 0, NEW i \in PipeId
               PROVE  IF pipes[i] = NoPipe
                      THEN \A e \in End : Refs(i, e) = {}
                      ELSE /\ \A e \in End : pipes[i].refcount[e] = Cardinality(Refs(i, e))
                           /\ \E e \in End : Refs(i, e) # {}
    BY Zenon DEF RefcountExact
  <2>1. CASE pipes[i] = NoPipe
    <3>1. \A e \in End : RefsIn(fds, i, e) = {}
      BY <1>1, <2>1, RefsFinite, FS_EmptySet, ZenonT(30) DEF Counted, N
    <3> QED
      BY <1>1, <2>1, <3>1
  <2>2. CASE pipes[i] # NoPipe
    <3>1. \A e \in End : pipes[i].refcount[e] = N(fds, i, e)
      BY <1>1, <2>2, Zenon DEF Counted
    <3>2. PICK e \in End : pipes[i].open[e]
      BY <1>1, <2>2, Zenon DEF Sound, End
    <3>3. N(fds, i, e) > 0
      BY <1>1, <2>2, <3>1, <3>2, Zenon DEF Sound, Consistent
    <3>4. RefsIn(fds, i, e) # {}
      BY <3>3, FS_EmptySet DEF N
    <3> QED
      BY <1>1, <2>2, <3>1, <3>4, Zenon DEF N
  <2> QED
    BY <2>1, <2>2, Zenon
<1> QED
  BY <1>2, <1>3, Zenon
=============================================================================
