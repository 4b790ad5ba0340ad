------------------------------ MODULE PipeRing ------------------------------
(***************************************************************************)
(* The ring buffer of a pipe (struct Pipe of src/fd.rs): the bytes that    *)
(* module FdTable counts.  A call names an end through a descriptor, and   *)
(* no descriptor outlives its end (FdsNeverDangle of module Kernel), so    *)
(* the guards ask for the end to be open.  Close is the close_pipe_end     *)
(* that drops the last reference.                                          *)
(***************************************************************************)
EXTENDS Integers, Sequences

CONSTANTS Byte,           \* the bytes that programs write
          Zero,           \* what a new buffer is filled with
          PIPE_BUF_SIZE,  \* size of the buffer
          MaxIO           \* bound: the longest buffer passed to read or write

ASSUME PipeRingAssumption ==
  /\ PIPE_BUF_SIZE \in Nat /\ PIPE_BUF_SIZE >= 2
  /\ Zero \in Byte
  /\ MaxIO \in Nat

Pos == 0 .. PIPE_BUF_SIZE - 1

VARIABLES buffer, read_pos, write_pos, open, outcome

ringVars == <<buffer, read_pos, write_pos, open, outcome>>

(* What a call returns: a status, a count and the bytes that were read.    *)
Result(code, n, bytes) == [code |-> code, n |-> n, bytes |-> bytes]
Fails(code) == Result(code, 0, <<>>)

RingInit ==
  /\ buffer = [p \in Pos |-> Zero]
  /\ read_pos = 0
  /\ write_pos = 0
  /\ open = [e \in {"r", "w"} |-> TRUE]
  /\ outcome = Fails("none")

Available ==
  IF write_pos >= read_pos THEN write_pos - read_pos
  ELSE PIPE_BUF_SIZE - read_pos + write_pos

(* A faulty variant: a full buffer looks like an empty one.                *)
SpaceAvailable_Full == PIPE_BUF_SIZE - Available

SpaceAvailable == PIPE_BUF_SIZE - Available - 1

Least(a, b) == IF a <= b THEN a ELSE b

(* A faulty variant: off by one at the end of the buffer.                  *)
Wrap_Late(p) == IF p > PIPE_BUF_SIZE THEN p - PIPE_BUF_SIZE ELSE p

(* `% PIPE_BUF_SIZE' of a sum of two positions.                            *)
Wrap(p) == IF p >= PIPE_BUF_SIZE THEN p - PIPE_BUF_SIZE ELSE p

(* The distance from position p forward to position q.                     *)
Ahead(p, q) == IF q >= p THEN q - p ELSE q - p + PIPE_BUF_SIZE

Answer(r) == outcome' = r /\ UNCHANGED <<buffer, read_pos, write_pos, open>>

(* The n bytes of buffer b from position p on.                             *)
RingBytes(b, p, n) == [i \in 1 .. n |-> b[Wrap(p + i - 1)]]

(* Copy k bytes out, from read_pos on.                                     *)
CopyOut(k) ==
  /\ outcome' = Result("ok", k, RingBytes(buffer, read_pos, k))
  /\ read_pos' = Wrap(read_pos + k)
  /\ UNCHANGED <<buffer, write_pos, open>>

(* Copy the first k bytes of data in, from write_pos on.                   *)
CopyIn(data, k) ==
  /\ buffer' = [p \in Pos |-> IF Ahead(write_pos, p) < k
                              THEN data[Ahead(write_pos, p) + 1] ELSE buffer[p]]
  /\ write_pos' = Wrap(write_pos + k)
  /\ outcome' = Result("ok", k, <<>>)
  /\ UNCHANGED <<read_pos, open>>

(* Pipe::read into a buffer of n bytes.                                    *)
RingRead(n) ==
  /\ open["r"]
  /\ \/ Available = 0 /\ open["w"] /\ Answer(Fails("WouldBlock"))
     \/ Available = 0 /\ ~open["w"] /\ Answer(Result("ok", 0, <<>>))
     \/ Available # 0 /\ CopyOut(Least(n, Available))

(* Pipe::write of data.                                                    *)
RingWrite(data) ==
  /\ open["w"]
  /\ \/ ~open["r"] /\ Answer(Fails("BrokenPipe"))
     \/ open["r"] /\ SpaceAvailable = 0 /\ Answer(Fails("WouldBlock"))
     \/ /\ open["r"] /\ SpaceAvailable # 0
        /\ CopyIn(data, Least(Len(data), SpaceAvailable))

Close(e) ==
  /\ open[e]
  /\ open' = [open EXCEPT ![e] = FALSE]
  /\ outcome' = Result("ok", 0, <<>>)
  /\ UNCHANGED <<buffer, read_pos, write_pos>>

Data == UNION {[1 .. n -> Byte] : n \in 1 .. MaxIO}

Sizes == 0 .. MaxIO

RingNext ==
  \/ \E data \in Data : RingWrite(data)
  \/ \E n \in Sizes : RingRead(n)
  \/ \E e \in {"r", "w"} : Close(e)

RingSpec == RingInit /\ [][RingNext]_ringVars

-----------------------------------------------------------------------------
(* Every variable has the type of the code's field.                        *)
RingTypeOK ==
  /\ buffer \in [Pos -> Byte]
  /\ read_pos \in Pos /\ write_pos \in Pos
  /\ open \in [{"r", "w"} -> BOOLEAN]

(* The bytes between the two positions, oldest first.                      *)
RingContents == RingBytes(buffer, read_pos, Available)

Stream == INSTANCE Pipe WITH queue <- RingContents, Capacity <- PIPE_BUF_SIZE - 1,
                             res <- outcome

(* The ring buffer is a pipe of PIPE_BUF_SIZE - 1 bytes: every result of   *)
(* Pipe::read and Pipe::write is one that the bounded queue may give, in   *)
(* particular across the wrap-around and when the buffer is full.          *)
IsPipe == Stream!Spec
=============================================================================
