------------------------------- MODULE Pipe -------------------------------
(***************************************************************************)
(* What a pipe promises to its two ends: a bounded queue of bytes.  A      *)
(* write appends a non-empty prefix of its data or says why it cannot, a   *)
(* read takes bytes from the front.  Nothing is said of how the bytes are  *)
(* stored; module PipeRing is the ring buffer of src/fd.rs.                *)
(***************************************************************************)
EXTENDS Integers, Sequences

CONSTANTS Data,      \* the byte sequences that are written
          Sizes,     \* the sizes of the buffers that are read into
          Capacity   \* the most bytes the queue holds

VARIABLES
  queue,  \* the bytes written and not yet read
  open,   \* which of the ends "r" and "w" is open
  res     \* what the latest call returned

vars == <<queue, open, res>>

(* What a call returns: a status, a count and the bytes that were read.    *)
Result(code, n, bytes) == [code |-> code, n |-> n, bytes |-> bytes]
Fails(code) == Result(code, 0, <<>>)

Init ==
  /\ queue = <<>>
  /\ open = [e \in {"r", "w"} |-> TRUE]
  /\ res = Fails("none")

(* The call ends with result r and has no other effect.                    *)
Answer(r) == res' = r /\ UNCHANGED <<queue, open>>

Write(data) ==
  /\ open["w"]
  /\ \/ ~open["r"] /\ Answer(Fails("BrokenPipe"))
     \/ open["r"] /\ Len(queue) = Capacity /\ Answer(Fails("WouldBlock"))
     \/ \E k \in 1 .. Len(data) :
          /\ open["r"]
          /\ Len(queue) + k <= Capacity
          /\ queue' = queue \o SubSeq(data, 1, k)
          /\ res' = Result("ok", k, <<>>)
          /\ UNCHANGED open

Read(n) ==
  /\ open["r"]
  /\ \/ queue = <<>> /\ open["w"] /\ Answer(Fails("WouldBlock"))
     \/ queue = <<>> /\ ~open["w"] /\ Answer(Result("ok", 0, <<>>))
     \/ \E k \in 0 .. n :
          /\ queue # <<>>
          /\ k <= Len(queue)
          /\ k = 0 => n = 0
          /\ queue' = SubSeq(queue, k + 1, Len(queue))
          /\ res' = Result("ok", k, SubSeq(queue, 1, k))
          /\ UNCHANGED open

Close(e) ==
  /\ open[e]
  /\ open' = [open EXCEPT ![e] = FALSE]
  /\ res' = Result("ok", 0, <<>>)
  /\ UNCHANGED queue

Next ==
  \/ \E data \in Data : Write(data)
  \/ \E n \in Sizes : Read(n)
  \/ \E e \in {"r", "w"} : Close(e)

Spec == Init /\ [][Next]_vars
=============================================================================
