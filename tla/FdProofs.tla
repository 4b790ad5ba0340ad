------------------------------ MODULE FdProofs ------------------------------
(***************************************************************************)
(* What lies behind a descriptor, for every buffer size and every set of   *)
(* paths: the ring buffer of a pipe implements a bounded queue, and open   *)
(* files keep what was appended, miss nothing that they read and are left  *)
(* alone by calls that fail.                                               *)
(***************************************************************************)
EXTENDS PipeRing, OpenFiles, SequenceTheorems, TLAPS

USE PipeRingAssumption

(* Positions wrap to positions.                                            *)
LEMMA WrapType ==
  ASSUME NEW p \in Pos, NEW k \in 0 .. PIPE_BUF_SIZE
  PROVE  Wrap(p + k) \in Pos
BY DEF Wrap, Pos

(* A stretch of the buffer is a sequence of bytes of the length asked for. *)
LEMMA BytesType ==
  ASSUME NEW b \in [Pos -> Byte], NEW p \in Pos, NEW n \in 0 .. PIPE_BUF_SIZE
  PROVE  /\ RingBytes(b, p, n) \in Seq(Byte)
         /\ Len(RingBytes(b, p, n)) = n
         /\ \A i \in 1 .. n : RingBytes(b, p, n)[i] = b[Wrap(p + i - 1)]
<1> DEFINE f == RingBytes(b, p, n)
<1>1. ASSUME NEW i \in 1 .. n
      PROVE  b[Wrap(p + i - 1)] \in Byte
  <2>1. i - 1 \in 0 .. PIPE_BUF_SIZE /\ p + i - 1 = p + (i - 1)
    BY DEF Pos
  <2> QED BY <2>1, WrapType
<1>2. f \in [1 .. n -> Byte]
  BY <1>1 DEF RingBytes
<1>3. f \in Seq(Byte) /\ Len(f) = n
  BY <1>2
<1> QED BY <1>3 DEF RingBytes

(* The count is within the buffer and leads from one position to the other.*)
LEMMA AvailableType ==
  ASSUME RingTypeOK
  PROVE  /\ Available \in 0 .. PIPE_BUF_SIZE - 1
         /\ Wrap(read_pos + Available) = write_pos
BY DEF RingTypeOK, Available, Wrap, Pos

(* What a program writes is a non-empty sequence of bytes.                 *)
LEMMA DataType ==
  ASSUME NEW data \in Data
  PROVE  /\ data \in Seq(Byte)
         /\ Len(data) \in Nat /\ Len(data) >= 1
         /\ \A i \in 1 .. Len(data) : data[i] \in Byte
<1>1. PICK n \in 1 .. MaxIO : data \in [1 .. n -> Byte]
  BY DEF Data
<1>2. data \in Seq(Byte) /\ Len(data) = n
  BY <1>1
<1> QED BY <1>1, <1>2

(* Reading k bytes returns the front of the contents and leaves the rest.  *)
LEMMA CopyOutTakesFront ==
  ASSUME RingTypeOK, NEW k \in 0 .. Available, CopyOut(k)
  PROVE  /\ RingTypeOK'
         /\ RingContents' = SubSeq(RingContents, k + 1, Len(RingContents))
         /\ outcome' = Result("ok", k, SubSeq(RingContents, 1, k))
<1> DEFINE a == Available
<1>1. a \in 0 .. PIPE_BUF_SIZE - 1 /\ Wrap(read_pos + a) = write_pos
  BY AvailableType
<1>2. /\ buffer' = buffer /\ write_pos' = write_pos /\ open' = open
      /\ read_pos' = Wrap(read_pos + k)
      /\ outcome' = Result("ok", k, RingBytes(buffer, read_pos, k))
  BY DEF CopyOut
<1>3. k \in 0 .. PIPE_BUF_SIZE /\ read_pos \in Pos /\ write_pos \in Pos
      /\ buffer \in [Pos -> Byte]
  BY <1>1 DEF RingTypeOK
<1>4. read_pos' \in Pos
  BY <1>2, <1>3, WrapType
<1>5. RingTypeOK'
  BY <1>2, <1>4 DEF RingTypeOK
<1>6. Available' = a - k
  BY <1>1, <1>2, <1>3 DEF Available, Wrap, Pos
<1>7. /\ RingContents \in Seq(Byte) /\ Len(RingContents) = a
      /\ \A i \in 1 .. a : RingContents[i] = buffer[Wrap(read_pos + i - 1)]
  <2>1. a \in 0 .. PIPE_BUF_SIZE
    BY <1>1
  <2>2. RingContents = RingBytes(buffer, read_pos, a)
    BY DEF RingContents
  <2> HIDE DEF a
  <2> QED BY <1>3, <2>1, <2>2, BytesType
<1>8. /\ RingContents' \in Seq(Byte) /\ Len(RingContents') = a - k
      /\ \A i \in 1 .. a - k : RingContents'[i] = buffer[Wrap(read_pos' + i - 1)]
  <2>1. a - k \in 0 .. PIPE_BUF_SIZE
    BY <1>1
  <2>2. RingContents' = RingBytes(buffer, read_pos', a - k)
    BY <1>2, <1>6 DEF RingContents
  <2> HIDE DEF a
  <2> QED BY <1>3, <1>4, <2>1, <2>2, BytesType
<1> HIDE DEF a
<1>9. RingContents' = SubSeq(RingContents, k + 1, Len(RingContents))
  <2> DEFINE rest == SubSeq(RingContents, k + 1, a)
  <2>1. \A i \in k + 1 .. a : RingContents[i] \in Byte
    BY <1>1, <1>7
  <2>2. /\ rest \in Seq(Byte)
        /\ Len(rest) = a - k
        /\ \A i \in 1 .. a - k : rest[i] = RingContents[k + 1 + i - 1]
    <3>1. k + 1 \in Int /\ a \in Int
      BY <1>1
    <3>2. /\ rest \in Seq(Byte)
          /\ Len(rest) = IF k + 1 <= a THEN a - (k + 1) + 1 ELSE 0
          /\ \A i \in 1 .. a - (k + 1) + 1 : rest[i] = RingContents[k + 1 + i - 1]
      BY <2>1, <3>1, SubSeqProperties
    <3>3. k \in 0 .. a
      BY DEF a
    <3> QED BY <1>1, <3>2, <3>3
  <2>3. ASSUME NEW i \in 1 .. a - k
        PROVE  RingContents'[i] = rest[i]
    <3>1. k + i \in 1 .. a /\ k + 1 + i - 1 = k + i
      BY <1>1, <1>3
    <3>2. rest[i] = buffer[Wrap(read_pos + (k + i) - 1)]
      BY <1>7, <2>2, <3>1
    <3>3. Wrap(read_pos' + i - 1) = Wrap(read_pos + (k + i) - 1)
      BY <1>1, <1>2, <1>3, <3>1 DEF Wrap, Pos
    <3> QED BY <1>8, <3>2, <3>3
  <2> HIDE DEF rest
  <2>4. RingContents' = rest
    BY <1>8, <2>2, <2>3, SeqEqual
  <2> QED BY <1>7, <2>4 DEF rest
<1>10. RingBytes(buffer, read_pos, k) = SubSeq(RingContents, 1, k)
  <2> DEFINE front == SubSeq(RingContents, 1, k)
             bs == RingBytes(buffer, read_pos, k)
  <2>1. k <= a /\ k \in Nat
    BY <1>1 DEF a
  <2>2. \A i \in 1 .. k : RingContents[i] \in Byte
    BY <1>1, <1>7, <2>1
  <2>3. /\ front \in Seq(Byte)
        /\ Len(front) = k
        /\ \A i \in 1 .. k : front[i] = RingContents[i]
    <3>1. /\ front \in Seq(Byte)
          /\ Len(front) = IF 1 <= k THEN k - 1 + 1 ELSE 0
          /\ \A i \in 1 .. k - 1 + 1 : front[i] = RingContents[1 + i - 1]
      BY <2>1, <2>2, SubSeqProperties
    <3> QED BY <2>1, <3>1
  <2>4. /\ bs \in Seq(Byte) /\ Len(bs) = k
        /\ \A i \in 1 .. k : bs[i] = buffer[Wrap(read_pos + i - 1)]
    BY <1>3, BytesType
  <2> HIDE DEF front, bs
  <2>5. \A i \in 1 .. k : bs[i] = front[i]
    <3> TAKE i \in 1 .. k
    <3>1. i \in 1 .. a
      BY <1>1, <2>1
    <3> QED BY <1>7, <2>3, <2>4, <3>1
  <2>6. bs = front
    BY <2>3, <2>4, <2>5, SeqEqual
  <2> QED BY <2>6 DEF bs, front
<1> QED BY <1>2, <1>5, <1>9, <1>10

(* Writing the first k bytes of data, with room for them, appends them.    *)
LEMMA CopyInAppends ==
  ASSUME RingTypeOK, NEW data \in Data, NEW k \in 1 .. Len(data),
         k <= SpaceAvailable, CopyIn(data, k)
  PROVE  /\ RingTypeOK'
         /\ RingContents' = RingContents \o SubSeq(data, 1, k)
<1> DEFINE a == Available
           N == PIPE_BUF_SIZE
<1>1. /\ a \in 0 .. N - 1 /\ Wrap(read_pos + a) = write_pos
      /\ a + k <= N - 1
  BY AvailableType, DataType DEF SpaceAvailable
<1>2. /\ read_pos' = read_pos /\ open' = open
      /\ write_pos' = Wrap(write_pos + k)
      /\ buffer' = [p \in Pos |-> IF Ahead(write_pos, p) < k
                                  THEN data[Ahead(write_pos, p) + 1] ELSE buffer[p]]
  BY DEF CopyIn
<1>3. /\ read_pos \in Pos /\ write_pos \in Pos /\ buffer \in [Pos -> Byte]
      /\ k \in 1 .. N
  BY <1>1, DataType DEF RingTypeOK
<1>4. write_pos' \in Pos
  BY <1>2, <1>3, WrapType
<1>5. \A p \in Pos : Ahead(write_pos, p) \in 0 .. N - 1
  BY <1>3 DEF Ahead, Pos
<1>6. \A i \in 1 .. k : data[i] \in Byte
  BY DataType
<1>7. buffer' \in [Pos -> Byte]
  <2> SUFFICES ASSUME NEW p \in Pos
               PROVE  (IF Ahead(write_pos, p) < k
                       THEN data[Ahead(write_pos, p) + 1] ELSE buffer[p]) \in Byte
    BY <1>2
  <2>1. CASE Ahead(write_pos, p) < k
    BY <1>3, <1>5, <1>6, <2>1
  <2>2. CASE ~(Ahead(write_pos, p) < k)
    BY <1>3, <2>2
  <2> QED BY <2>1, <2>2
<1>8. RingTypeOK'
  BY <1>2, <1>4, <1>7 DEF RingTypeOK
<1>9. Available' = a + k
  BY <1>1, <1>2, <1>3 DEF Available, Wrap, Pos
<1>10. RingContents = RingBytes(buffer, read_pos, a)
  BY DEF RingContents
<1>11. RingContents' = RingBytes(buffer', read_pos, a + k)
  BY <1>2, <1>9 DEF RingContents
<1> HIDE DEF a
<1>12. /\ RingContents \in Seq(Byte) /\ Len(RingContents) = a
       /\ \A i \in 1 .. a : RingContents[i] = buffer[Wrap(read_pos + i - 1)]
  <2>1. a \in 0 .. PIPE_BUF_SIZE
    BY <1>1
  <2> QED BY <1>3, <1>10, <2>1, BytesType
<1>13. /\ RingContents' \in Seq(Byte) /\ Len(RingContents') = a + k
       /\ \A i \in 1 .. a + k : RingContents'[i] = buffer'[Wrap(read_pos + i - 1)]
  <2>1. a + k \in 0 .. PIPE_BUF_SIZE
    BY <1>1, <1>3
  <2> HIDE DEF N
  <2> QED BY <1>3, <1>7, <1>11, <2>1, BytesType
<1> DEFINE front == SubSeq(data, 1, k)
           all == RingContents \o front
<1>14. /\ front \in Seq(Byte) /\ Len(front) = k
       /\ \A i \in 1 .. k : front[i] = data[i]
  <2>1. /\ front \in Seq(Byte)
        /\ Len(front) = IF 1 <= k THEN k - 1 + 1 ELSE 0
        /\ \A i \in 1 .. k - 1 + 1 : front[i] = data[1 + i - 1]
    BY <1>3, <1>6, SubSeqProperties
  <2> QED BY <1>3, <2>1
<1> HIDE DEF front
<1>15. /\ all \in Seq(Byte) /\ Len(all) = a + k
       /\ \A i \in 1 .. a + k : all[i] = IF i <= a THEN RingContents[i] ELSE front[i - a]
  BY <1>12, <1>14, ConcatProperties
<1> HIDE DEF all
<1>16. ASSUME NEW i \in 1 .. a + k
       PROVE  RingContents'[i] = all[i]
  <2> DEFINE p == Wrap(read_pos + i - 1)
  <2>1. /\ i - 1 \in 0 .. PIPE_BUF_SIZE /\ read_pos + i - 1 = read_pos + (i - 1)
    BY <1>1, <1>3 DEF Pos
  <2>2. p \in Pos
    BY <1>3, <2>1, WrapType
  <2>3. CASE i <= a
    <3>1. ~(Ahead(write_pos, p) < k)
      BY <1>1, <1>3, <2>3 DEF Ahead, Wrap, Pos
    <3>2. buffer'[p] = buffer[p]
      BY <1>2, <2>2, <3>1
    <3>3. i \in 1 .. a
      BY <1>1, <2>3
    <3> QED BY <1>12, <1>13, <1>15, <2>3, <3>2, <3>3
  <2>4. CASE ~(i <= a)
    <3>1. Ahead(write_pos, p) = i - a - 1
      BY <1>1, <1>3, <2>4 DEF Ahead, Wrap, Pos
    <3>2. i - a \in 1 .. k /\ i - a - 1 < k /\ i - a - 1 + 1 = i - a
      BY <1>1, <1>3, <2>4
    <3>3. buffer'[p] = data[i - a]
      BY <1>2, <2>2, <3>1, <3>2
    <3> QED BY <1>13, <1>14, <1>15, <2>4, <3>2, <3>3
  <2> QED BY <2>3, <2>4
<1>17. RingContents' = all
  BY <1>13, <1>15, <1>16, SeqEqual
<1> QED BY <1>8, <1>17 DEF all, front


(* The buffer is empty exactly when its contents are the empty sequence.   *)
LEMMA ContentsType ==
  ASSUME RingTypeOK
  PROVE  /\ RingContents \in Seq(Byte) /\ Len(RingContents) = Available
         /\ RingContents = <<>> <=> Available = 0
<1>1. /\ Available \in 0 .. PIPE_BUF_SIZE
      /\ read_pos \in Pos /\ buffer \in [Pos -> Byte]
  BY AvailableType DEF RingTypeOK
<1>2. RingContents \in Seq(Byte) /\ Len(RingContents) = Available
  BY <1>1, BytesType DEF RingContents
<1>3. RingContents = <<>> <=> Available = 0
  BY <1>2, EmptySeq
<1> QED BY <1>2, <1>3

(* Pipe::read does what the bounded queue may do.                          *)
LEMMA ReadRefines ==
  ASSUME RingTypeOK, NEW n \in Sizes, RingRead(n)
  PROVE  RingTypeOK' /\ Stream!Read(n)
<1>1. /\ Available \in 0 .. PIPE_BUF_SIZE - 1 /\ n \in Nat
      /\ Len(RingContents) = Available
      /\ RingContents = <<>> <=> Available = 0
  BY AvailableType, ContentsType DEF Sizes
<1>2. ASSUME NEW r, Answer(r)
      PROVE  RingTypeOK' /\ Stream!Answer(r)
  BY <1>2 DEF Answer, Stream!Answer, RingTypeOK, RingContents, Available
<1>3. CASE Available = 0 /\ open["w"] /\ Answer(Fails("WouldBlock"))
  BY <1>1, <1>2, <1>3 DEF RingRead, Stream!Read, Fails, Result, Stream!Fails, Stream!Result
<1>4. CASE Available = 0 /\ ~open["w"] /\ Answer(Result("ok", 0, <<>>))
  BY <1>1, <1>2, <1>4 DEF RingRead, Stream!Read, Result, Stream!Result
<1>5. CASE Available # 0 /\ CopyOut(Least(n, Available))
  <2> DEFINE k == Least(n, Available)
  <2>1. k \in 0 .. Available /\ k \in 0 .. n /\ (k = 0 => n = 0)
    BY <1>1, <1>5 DEF Least
  <2>2. /\ RingTypeOK'
        /\ RingContents' = SubSeq(RingContents, k + 1, Len(RingContents))
        /\ outcome' = Result("ok", k, SubSeq(RingContents, 1, k))
    BY <1>5, <2>1, CopyOutTakesFront
  <2>3. open' = open /\ open["r"]
    BY <1>5 DEF CopyOut, RingRead
  <2> HIDE DEF k
  <2>4. RingContents # <<>> /\ k <= Len(RingContents)
    BY <1>1, <1>5, <2>1
  <2>5. \E j \in 0 .. n :
          /\ RingContents # <<>>
          /\ j <= Len(RingContents)
          /\ j = 0 => n = 0
          /\ RingContents' = SubSeq(RingContents, j + 1, Len(RingContents))
          /\ outcome' = Stream!Result("ok", j, SubSeq(RingContents, 1, j))
          /\ UNCHANGED open
    BY <2>1, <2>2, <2>3, <2>4 DEF Result, Stream!Result
  <2> QED BY <2>2, <2>3, <2>5 DEF Stream!Read
<1> QED BY <1>3, <1>4, <1>5 DEF RingRead

(* Pipe::write does what the bounded queue may do.                         *)
LEMMA WriteRefines ==
  ASSUME RingTypeOK, NEW data \in Data, RingWrite(data)
  PROVE  RingTypeOK' /\ Stream!Write(data)
<1>1. /\ Available \in 0 .. PIPE_BUF_SIZE - 1
      /\ Len(RingContents) = Available
      /\ Len(data) \in Nat /\ Len(data) >= 1
  BY AvailableType, ContentsType, DataType
<1>2. ASSUME NEW r, Answer(r)
      PROVE  RingTypeOK' /\ Stream!Answer(r)
  BY <1>2 DEF Answer, Stream!Answer, RingTypeOK, RingContents, Available
<1>3. CASE ~open["r"] /\ Answer(Fails("BrokenPipe"))
  BY <1>2, <1>3 DEF RingWrite, Stream!Write, Fails, Result, Stream!Fails, Stream!Result
<1>4. CASE open["r"] /\ SpaceAvailable = 0 /\ Answer(Fails("WouldBlock"))
  <2>1. Len(RingContents) = PIPE_BUF_SIZE - 1
    BY <1>1, <1>4 DEF SpaceAvailable
  <2> QED BY <1>2, <1>4, <2>1
          DEF RingWrite, Stream!Write, Fails, Result, Stream!Fails, Stream!Result
<1>5. CASE open["r"] /\ SpaceAvailable # 0 /\ CopyIn(data, Least(Len(data), SpaceAvailable))
  <2> DEFINE k == Least(Len(data), SpaceAvailable)
  <2>1. /\ k \in 1 .. Len(data) /\ k <= SpaceAvailable
        /\ Len(RingContents) + k <= PIPE_BUF_SIZE - 1
    BY <1>1, <1>5 DEF Least, SpaceAvailable
  <2>2. RingTypeOK' /\ RingContents' = RingContents \o SubSeq(data, 1, k)
    BY <1>5, <2>1, CopyInAppends
  <2>3. /\ open' = open /\ open["r"] /\ open["w"]
        /\ outcome' = Result("ok", k, <<>>)
    BY <1>5 DEF CopyIn, RingWrite
  <2> HIDE DEF k
  <2> QED BY <2>1, <2>2, <2>3 DEF Stream!Write, Result, Stream!Result
<1> QED BY <1>3, <1>4, <1>5 DEF RingWrite

(* Closing an end leaves the contents alone.                               *)
LEMMA CloseRefines ==
  ASSUME RingTypeOK, NEW e \in {"r", "w"}, Close(e)
  PROVE  RingTypeOK' /\ Stream!Close(e)
<1>1. /\ buffer' = buffer /\ read_pos' = read_pos /\ write_pos' = write_pos
      /\ open' = [open EXCEPT ![e] = FALSE] /\ open[e]
      /\ outcome' = Result("ok", 0, <<>>)
  BY DEF Close
<1>2. RingContents' = RingContents
  BY <1>1 DEF RingContents, Available
<1>3. open' \in [{"r", "w"} -> BOOLEAN]
  BY <1>1 DEF RingTypeOK
<1> QED BY <1>1, <1>2, <1>3 DEF RingTypeOK, Stream!Close, Result, Stream!Result

(* A new pipe is empty.                                                    *)
LEMMA InitRefines == RingInit => RingTypeOK /\ Stream!Init
<1> SUFFICES ASSUME RingInit PROVE RingTypeOK /\ Stream!Init
  OBVIOUS
<1>1. RingTypeOK
  BY DEF RingInit, RingTypeOK, Pos
<1>2. Available = 0
  BY DEF RingInit, Available
<1>3. RingContents = <<>>
  BY <1>1, <1>2, ContentsType
<1> QED BY <1>1, <1>3 DEF RingInit, Stream!Init, Fails, Result, Stream!Fails, Stream!Result

(* The positions stay in the buffer and the bytes are bytes.               *)
THEOREM RingTypeCorrect == RingSpec => []RingTypeOK
<1>1. RingInit => RingTypeOK
  BY InitRefines
<1>2. RingTypeOK /\ [RingNext]_ringVars => RingTypeOK'
  <2> SUFFICES ASSUME RingTypeOK, [RingNext]_ringVars PROVE RingTypeOK'
    OBVIOUS
  <2>1. CASE UNCHANGED ringVars
    BY <2>1 DEF RingTypeOK, ringVars
  <2> QED BY <2>1, ReadRefines, WriteRefines, CloseRefines DEF RingNext
<1> QED BY <1>1, <1>2, PTL DEF RingSpec

(* struct Pipe implements the bounded queue: reads return the bytes in the *)
(* order they were written, each once, for every buffer size.              *)
THEOREM RingIsPipe == RingSpec => IsPipe
<1>1. RingInit => Stream!Init
  BY InitRefines
<1>2. RingTypeOK /\ [RingNext]_ringVars => [Stream!Next]_(Stream!vars)
  <2> SUFFICES ASSUME RingTypeOK, [RingNext]_ringVars PROVE [Stream!Next]_(Stream!vars)
    OBVIOUS
  <2>1. CASE UNCHANGED ringVars
    BY <2>1 DEF ringVars, Stream!vars, RingContents, Available
  <2>2. CASE RingNext
    BY <2>2, ReadRefines, WriteRefines, CloseRefines DEF RingNext, Stream!Next
  <2> QED BY <2>1, <2>2
<1> QED BY <1>1, <1>2, RingTypeCorrect, PTL DEF RingSpec, IsPipe, Stream!Spec

-----------------------------------------------------------------------------
HIDE PipeRingAssumption
USE OpenFilesAssumption

(* What a file can hold, and what a path can name.                         *)
FileData == {c \in Seq(Bytes) : Len(c) <= MaxLen}

Node == {Nothing, Dir} \cup {File(c) : c \in FileData}

(* What is true of one entry: its cursor is within bounds, an entry that   *)
(* writes is not followed, and one that is followed has read all that is   *)
(* before its cursor.                                                      *)
EntryInv(h) ==
  fds[h] # NoFile =>
    /\ fds[h].pos <= MaxLen
    /\ fds[h].mode.write => seen[h] = Unknown
    /\ seen[h] # Unknown =>
         /\ fds[h].pos <= Len(tree[fds[h].path].data)
         /\ seen[h] = SubSeq(tree[fds[h].path].data, 1, fds[h].pos)

(* The inductive invariant.  A path that names no file has an empty log:   *)
(* an append that creates the file starts from it.                         *)
OpenInv ==
  /\ tree \in [Paths -> Node]
  /\ fds \in [Handles -> FileFd \cup {NoFile}]
  /\ log \in [Paths -> FileData] /\ \A p \in Paths : log[p] = tree[p].data
  /\ seen \in [Handles -> Seq(Bytes) \cup {Unknown}]
  /\ \A h \in Handles : EntryInv(h)

(* Only files have contents, and the contents are data.                    *)
LEMMA NodeFacts ==
  ASSUME NEW n \in Node
  PROVE  /\ n.data \in FileData /\ n.data \in Seq(Bytes)
         /\ Len(n.data) \in Nat /\ Len(n.data) <= MaxLen
         /\ n.kind \in {"none", "dir", "file"}
         /\ n.kind # "file" => n.data = <<>> /\ n \in {Nothing, Dir}
         /\ n.kind = "file" => n # Nothing /\ n # Dir
         /\ n \notin {Nothing, Dir} => n.kind = "file"
<1>1. <<>> \in FileData
  BY DEF FileData
<1>2. CASE n \in {Nothing, Dir}
  <2>1. n.data = <<>> /\ n.kind \in {"none", "dir"}
    BY <1>2 DEF Nothing, Dir
  <2>2. <<>> \in Seq(Bytes) /\ Len(<<>>) = 0
    OBVIOUS
  <2> QED BY <1>1, <1>2, <2>1, <2>2
<1>3. CASE \E c \in FileData : n = File(c)
  BY <1>3 DEF File, FileData, Nothing, Dir
<1> QED BY <1>2, <1>3 DEF Node

(* What an operation writes is a node, and it has the data asked for.      *)
LEMMA NodesOf ==
  /\ Nothing \in Node /\ Nothing.data = <<>>
  /\ Dir \in Node /\ Dir.data = <<>>
  /\ \A c \in FileData : File(c) \in Node /\ File(c).data = c
  /\ <<>> \in FileData
  /\ Buffers \subseteq FileData
<1>1. <<>> \in FileData /\ Buffers \subseteq FileData
  BY DEF FileData
<1> QED BY <1>1 DEF Node, Nothing, Dir, File

(* The front of a sequence that has grown.                                 *)
LEMMA FrontOfGrown ==
  ASSUME NEW s \in Seq(Bytes), NEW t \in Seq(Bytes), NEW n \in 0 .. Len(s)
  PROVE  SubSeq(s \o t, 1, n) = SubSeq(s, 1, n)
<1>1. CASE n = 0
  BY <1>1, SubSeqEmpty
<1>2. CASE n # 0
  <2>1. 1 \in 1 .. Len(s) /\ n \in 1 .. Len(s)
    BY <1>2
  <2> QED BY <2>1, SubSeqOfConcat1
<1> QED BY <1>1, <1>2

(* An operation that answers has happened or has changed nothing.          *)
LEMMA Answered ==
  ASSUME NEW STATE p, NEW STATE answer, NEW STATE node, Operate(p, answer, node)
  PROVE  \/ /\ res' = "Ok" /\ answer = "Ok" /\ WalkAnswer(p) = "Ok"
            /\ tree' = [tree EXCEPT ![p] = node]
         \/ res' # "Ok" /\ tree' = tree
BY Zenon DEF Operate, Operation

(* An entry is untouched by a call that leaves it and its file alone, or   *)
(* that stops following it.                                                *)
LEMMA EntryKept ==
  ASSUME OpenInv, NEW h \in Handles, fds'[h] = fds[h],
         seen'[h] # Unknown => seen'[h] = seen[h],
         seen'[h] # Unknown /\ fds[h] # NoFile =>
           \/ tree'[fds[h].path].data = tree[fds[h].path].data
           \/ \E b \in Seq(Bytes) : tree'[fds[h].path].data = tree[fds[h].path].data \o b
  PROVE  EntryInv(h)'
<1> SUFFICES ASSUME fds[h] # NoFile
             PROVE  EntryInv(h)'
  BY DEF EntryInv
<1>1. fds[h] \in FileFd /\ EntryInv(h)
  BY DEF OpenInv
<1> DEFINE p == fds[h].path
           d == tree[p].data
<1>2. p \in Paths /\ fds[h].pos \in Nat
  BY <1>1 DEF FileFd
<1>3. d \in Seq(Bytes) /\ Len(d) \in Nat
  BY <1>2, NodeFacts DEF OpenInv
<1>4. CASE seen'[h] = Unknown
  BY <1>1, <1>4 DEF EntryInv
<1>5. CASE seen'[h] # Unknown
  <2>1. fds[h].pos <= Len(d) /\ seen[h] = SubSeq(d, 1, fds[h].pos) /\ seen'[h] = seen[h]
    BY <1>1, <1>5 DEF EntryInv
  <2>2. CASE tree'[p].data = d
    BY <1>1, <2>1, <2>2, <1>5 DEF EntryInv
  <2>3. ASSUME NEW b \in Seq(Bytes), tree'[p].data = d \o b
        PROVE  EntryInv(h)'
    <3>0. fds[h].pos \in 0 .. Len(d)
      <4> HIDE DEF d
      <4> QED BY <1>2, <1>3, <2>1
    <3>1. SubSeq(d \o b, 1, fds[h].pos) = SubSeq(d, 1, fds[h].pos)
      BY ONLY <1>3, <3>0, b \in Seq(Bytes), FrontOfGrown, Zenon
    <3>2. fds[h].pos <= Len(d \o b)
      <4>1. Len(d \o b) = Len(d) + Len(b)
        BY ONLY <1>3, b \in Seq(Bytes), ConcatProperties, Zenon
      <4>2. Len(b) \in Nat
        BY ONLY b \in Seq(Bytes)
      <4> HIDE DEF d
      <4> QED BY <1>2, <1>3, <2>1, <4>1, <4>2
    <3> QED BY <1>1, <2>1, <2>3, <3>1, <3>2, <1>5 DEF EntryInv
  <2> QED BY <1>5, <2>2, <2>3
<1> QED BY <1>4, <1>5

(* A call that replaces what p names and stops following p's readers.      *)
LEMMA ReplacedKeeps ==
  ASSUME OpenInv, NEW p \in Paths, NEW node \in Node,
         \/ res' = "Ok" /\ tree' = [tree EXCEPT ![p] = node]
         \/ res' # "Ok" /\ tree' = tree,
         Replaced(p, node.data), UNCHANGED fds
  PROVE  OpenInv'
<1>0. node.data \in FileData
  BY NodeFacts
<1>1. CASE res' = "Ok"
  <2>1. /\ tree' = [tree EXCEPT ![p] = node]
        /\ log' = [log EXCEPT ![p] = node.data]
        /\ seen' = Forget(p)
    BY <1>1 DEF Replaced
  <2>2. tree' \in [Paths -> Node] /\ log' \in [Paths -> FileData]
    BY <2>1, <1>0 DEF OpenInv
  <2>3. \A q \in Paths : log'[q] = tree'[q].data
    BY <2>1 DEF OpenInv
  <2>4. /\ seen' \in [Handles -> Seq(Bytes) \cup {Unknown}]
        /\ \A h \in Handles : seen'[h] = IF fds[h] # NoFile /\ fds[h].path = p
                                          THEN Unknown ELSE seen[h]
    BY <2>1 DEF OpenInv, Forget
  <2>5. ASSUME NEW h \in Handles
        PROVE  EntryInv(h)'
    <3>1. seen'[h] # Unknown => seen'[h] = seen[h]
      BY <2>4
    <3>2. ASSUME seen'[h] # Unknown, fds[h] # NoFile
          PROVE  tree'[fds[h].path].data = tree[fds[h].path].data
      <4>1. fds[h].path # p /\ fds[h].path \in Paths
        BY <2>4, <3>2 DEF OpenInv, FileFd
      <4> QED BY <4>1, <2>1 DEF OpenInv
    <3> QED BY <3>1, <3>2, EntryKept
  <2> QED BY <2>2, <2>3, <2>4, <2>5 DEF OpenInv
<1>2. CASE res' # "Ok"
  <2>1. tree' = tree /\ log' = log /\ seen' = seen
    BY <1>2 DEF Replaced
  <2> QED BY <2>1 DEF OpenInv, EntryInv
<1> QED BY <1>1, <1>2

(* The calls on paths.                                                     *)
LEMMA PathCallKeeps ==
  ASSUME OpenInv, NEW p \in Paths, PathCall(p)
  PROVE  OpenInv'
<1> USE NodesOf
<1>1. UNCHANGED fds
  BY DEF PathCall
<1>2. ASSUME NEW buf \in Buffers,
             Operate(p, WriteAnswer(p), File(buf)), Replaced(p, buf)
      PROVE  OpenInv'
  <2>1. File(buf) \in Node /\ File(buf).data = buf
    OBVIOUS
  <2> QED BY <1>1, <1>2, <2>1, Answered, ReplacedKeeps
<1>3. CASE Operate(p, CreateAnswer(p), File(<<>>)) /\ Replaced(p, <<>>)
  BY <1>1, <1>3, Answered, ReplacedKeeps
<1>4. CASE Operate(p, CreateAnswer(p), Dir) /\ Replaced(p, <<>>)
  BY <1>1, <1>4, Answered, ReplacedKeeps
<1>5. CASE Operate(p, RemoveAnswer(p), Nothing) /\ Replaced(p, <<>>)
  BY <1>1, <1>5, Answered, ReplacedKeeps
<1>6. CASE Operate(p, RemoveDirAnswer(p), Nothing) /\ Replaced(p, <<>>)
  BY <1>1, <1>6, Answered, ReplacedKeeps
<1> QED BY <1>2, <1>3, <1>4, <1>5, <1>6 DEF PathCall

(* The files of a call that touches none, and of an open that creates one: *)
(* no path changes what it holds.                                          *)
LEMMA SameData ==
  ASSUME OpenInv, NEW p \in Paths,
         \/ NoOperation
         \/ /\ Operate(p, CreateAnswer(p), File(<<>>))
            /\ log' = IF res' = "Ok" THEN [log EXCEPT ![p] = <<>>] ELSE log
  PROVE  /\ tree' \in [Paths -> Node]
         /\ log' \in [Paths -> FileData]
         /\ \A q \in Paths : log'[q] = tree'[q].data /\ tree'[q].data = tree[q].data
<1>1. CASE tree' = tree /\ log' = log
  BY <1>1 DEF OpenInv
<1>2. CASE /\ CreateAnswer(p) = "Ok" /\ tree' = [tree EXCEPT ![p] = File(<<>>)]
           /\ log' = [log EXCEPT ![p] = <<>>]
  <2>1. tree[p] = Nothing
    BY <1>2, Zenon DEF CreateAnswer, Exists
  <2> QED BY <1>2, <2>1, NodesOf DEF OpenInv
<1> QED BY <1>1, <1>2, Answered DEF NoOperation

(* The entries, when no path changes what it holds: it is enough to look   *)
(* at the one that the call sets.                                          *)
LEMMA OneEntry ==
  ASSUME OpenInv, NEW h \in Handles,
         tree' \in [Paths -> Node], log' \in [Paths -> FileData],
         \A q \in Paths : log'[q] = tree'[q].data /\ tree'[q].data = tree[q].data,
         NEW fd \in FileFd \cup {NoFile}, NEW s \in Seq(Bytes) \cup {Unknown},
         fds' = [fds EXCEPT ![h] = fd], seen' = [seen EXCEPT ![h] = s],
         fd # NoFile =>
           /\ fd.pos <= MaxLen
           /\ fd.mode.write => s = Unknown
           /\ s # Unknown => /\ fd.pos <= Len(tree[fd.path].data)
                             /\ s = SubSeq(tree[fd.path].data, 1, fd.pos)
  PROVE  OpenInv'
<1>1. /\ fds' \in [Handles -> FileFd \cup {NoFile}]
      /\ seen' \in [Handles -> Seq(Bytes) \cup {Unknown}]
      /\ fds'[h] = fd /\ seen'[h] = s
      /\ \A g \in Handles \ {h} : fds'[g] = fds[g] /\ seen'[g] = seen[g]
  BY DEF OpenInv
<1>2. ASSUME NEW g \in Handles \ {h}
      PROVE  EntryInv(g)'
  <2>1. fds[g] # NoFile => fds[g].path \in Paths
    BY DEF OpenInv, FileFd
  <2> QED BY <1>1, <2>1, EntryKept
<1>3. EntryInv(h)'
  <2>1. fd # NoFile => fd.path \in Paths
    BY DEF FileFd
  <2> QED BY <1>1, <2>1 DEF EntryInv
<1> QED BY <1>1, <1>2, <1>3 DEF OpenInv

(* open.                                                                   *)
LEMMA SysOpenKeeps ==
  ASSUME OpenInv, NEW h \in Handles, NEW p \in Paths, NEW mode \in Modes,
         SysOpen(h, p, mode)
  PROVE  OpenInv'
<1>1. /\ tree' \in [Paths -> Node]
      /\ log' \in [Paths -> FileData]
      /\ \A q \in Paths : log'[q] = tree'[q].data /\ tree'[q].data = tree[q].data
  BY SameData DEF SysOpen
<1>2. \/ UNCHANGED <<fds, seen>>
      \/ /\ fds' = [fds EXCEPT ![h] = Opened(p, mode)]
         /\ seen' = [seen EXCEPT ![h] = IF mode.write \/ mode.append THEN Unknown ELSE <<>>]
  BY Zenon DEF SysOpen
<1>3. CASE UNCHANGED <<fds, seen>>
  <2>1. ASSUME NEW g \in Handles
        PROVE  EntryInv(g)'
    <3>1. fds[g] # NoFile => fds[g].path \in Paths
      BY DEF OpenInv, FileFd
    <3> QED BY <1>1, <1>3, <3>1, EntryKept
  <2> QED BY <1>1, <1>3, <2>1 DEF OpenInv
<1>4. CASE /\ fds' = [fds EXCEPT ![h] = Opened(p, mode)]
           /\ seen' = [seen EXCEPT ![h] = IF mode.write \/ mode.append THEN Unknown ELSE <<>>]
  <2> DEFINE n == IF mode.append /\ ReadAnswer(p)' = "Ok" THEN Len(tree'[p].data) ELSE 0
  <2>1. n \in Nat /\ n <= MaxLen /\ (~mode.append => n = 0)
    BY <1>1, NodeFacts
  <2>2. PICK k \in Nat : k = n
    BY <2>1
  <2> HIDE DEF n
  <2> DEFINE fd == [path |-> p, mode |-> mode, pos |-> k]
             s == IF mode.write \/ mode.append THEN Unknown ELSE <<>>
  <2>3. Opened(p, mode) = fd
    BY <2>2 DEF Opened, n
  <2>4. fd \in FileFd /\ s \in Seq(Bytes) \cup {Unknown}
    BY <2>1 DEF FileFd, FileMode
  <2>5. mode.write => s = Unknown
    OBVIOUS
  <2>6. ASSUME s # Unknown
        PROVE  fd.pos <= Len(tree[fd.path].data) /\ s = SubSeq(tree[fd.path].data, 1, fd.pos)
    <3>1. s = <<>> /\ k = 0
      BY <2>1, <2>2, <2>6
    <3>2. Len(tree[p].data) \in Nat
      BY NodeFacts DEF OpenInv
    <3>3. SubSeq(tree[p].data, 1, 0) = <<>>
      BY SubSeqEmpty
    <3>4. fd.pos = 0 /\ fd.path = p
      BY <3>1
    <3> HIDE DEF fd, s
    <3> QED BY <3>1, <3>2, <3>3, <3>4
  <2>7. fd.pos <= MaxLen /\ fd.mode = mode
    BY <2>1, <2>2
  <2> HIDE DEF fd, s
  <2> QED BY <1>1, <1>4, <2>3, <2>4, <2>5, <2>6, <2>7, OneEntry DEF s
<1> QED BY <1>2, <1>3, <1>4

(* close.                                                                  *)
LEMMA SysCloseKeeps ==
  ASSUME OpenInv, NEW h \in Handles, SysClose(h)
  PROVE  OpenInv'
<1>1. /\ tree' \in [Paths -> Node]
      /\ log' \in [Paths -> FileData]
      /\ \A q \in Paths : log'[q] = tree'[q].data /\ tree'[q].data = tree[q].data
  BY DEF SysClose, NoOperation, OpenInv
<1>2. CASE UNCHANGED <<fds, seen>>
  BY <1>2 DEF SysClose, NoOperation, OpenInv, EntryInv
<1>3. CASE fds' = [fds EXCEPT ![h] = NoFile] /\ seen' = [seen EXCEPT ![h] = Unknown]
  BY <1>1, <1>3, OneEntry
<1> QED BY <1>2, <1>3 DEF SysClose

(* dup2 and inheritance.                                                   *)
LEMMA CopyKeeps ==
  ASSUME OpenInv, NEW h \in Handles, NEW g \in Handles, Copy(h, g)
  PROVE  OpenInv'
<1>1. /\ tree' \in [Paths -> Node]
      /\ log' \in [Paths -> FileData]
      /\ \A q \in Paths : log'[q] = tree'[q].data /\ tree'[q].data = tree[q].data
  BY DEF Copy, NoOperation, OpenInv
<1>2. PICK fd \in FileFd \cup {NoFile} : fd = fds[h]
  BY DEF OpenInv
<1>3. PICK s \in Seq(Bytes) \cup {Unknown} : s = seen[h]
  BY DEF OpenInv
<1>4. fds' = [fds EXCEPT ![g] = fd] /\ seen' = [seen EXCEPT ![g] = s]
  BY <1>2, <1>3 DEF Copy
<1>5. fd # NoFile =>
        /\ fd.pos <= MaxLen
        /\ fd.mode.write => s = Unknown
        /\ s # Unknown => /\ fd.pos <= Len(tree[fd.path].data)
                          /\ s = SubSeq(tree[fd.path].data, 1, fd.pos)
  BY <1>2, <1>3 DEF OpenInv, EntryInv
<1> QED BY <1>1, <1>4, <1>5, OneEntry

(* How far a read gets: no further than it asks for and the file goes.     *)
LEMMA CountFacts ==
  ASSUME NEW n \in Nat, NEW len \in Nat, NEW pos \in Nat
  PROVE  LET count == IF pos >= len THEN 0 ELSE Min({n, len - pos})
         IN  count \in Nat /\ pos + count <= (IF pos >= len THEN pos ELSE len)
<1>1. CASE pos >= len
  BY <1>1
<1>2. CASE ~(pos >= len)
  <2> DEFINE S == {n, len - pos}
  <2>1. \E x \in S : \A y \in S : x =< y
    BY <1>2
  <2>2. Min(S) \in S /\ \A y \in S : Min(S) =< y
    BY <2>1 DEF Min
  <2>3. Min(S) \in Nat /\ Min(S) <= len - pos
    BY <1>2, <2>2
  <2> HIDE DEF S
  <2> QED BY <1>2, <2>3 DEF S
<1> QED BY <1>1, <1>2

(* read.                                                                   *)
LEMMA ReadKeeps ==
  ASSUME OpenInv, NEW h \in Handles, NEW n \in 1 .. MaxRead, Read(h, n)
  PROVE  OpenInv'
<1>1. /\ tree' \in [Paths -> Node]
      /\ log' \in [Paths -> FileData]
      /\ \A q \in Paths : log'[q] = tree'[q].data /\ tree'[q].data = tree[q].data
  BY DEF Read, NoOperation, OpenInv
<1>2. PICK fd \in FileFd : fd = fds[h] /\ fd # NoFile
  BY DEF OpenInv, Read
<1>3. PICK data \in Seq(Bytes) : data = tree[fd.path].data /\ Len(data) <= MaxLen
  BY <1>2, NodeFacts DEF OpenInv, FileFd
<1>4. PICK old \in Seq(Bytes) \cup {Unknown} : old = seen[h]
  BY DEF OpenInv
<1> DEFINE count == IF fd.pos >= Len(data) THEN 0 ELSE Min({n, Len(data) - fd.pos})
           new == IF old = Unknown THEN old ELSE old \o SubSeq(data, fd.pos + 1, fd.pos + count)
<1>5. fd.pos \in Nat /\ fd.mode \in FileMode /\ fd.path \in Paths /\ Len(data) \in Nat
  BY DEF FileFd
<1>6. /\ fd.pos <= MaxLen
      /\ fd.mode.write => old = Unknown
      /\ old # Unknown => fd.pos <= Len(data) /\ old = SubSeq(data, 1, fd.pos)
  BY <1>2, <1>3, <1>4 DEF OpenInv, EntryInv
<1>7. \/ UNCHANGED <<fds, seen>>
      \/ fds' = [fds EXCEPT ![h] = Advanced(fd, n, count)] /\ seen' = [seen EXCEPT ![h] = new]
  BY <1>2, <1>3, <1>4, Zenon DEF Read
<1>8. CASE UNCHANGED <<fds, seen>>
  BY <1>8 DEF Read, NoOperation, OpenInv, EntryInv
<1>9. CASE fds' = [fds EXCEPT ![h] = Advanced(fd, n, count)] /\ seen' = [seen EXCEPT ![h] = new]
  <2>1. count \in Nat /\ fd.pos + count <= (IF fd.pos >= Len(data) THEN fd.pos ELSE Len(data))
    BY <1>5, CountFacts, SMTT(30)
  <2> HIDE DEF count
  <2> DEFINE to == [path |-> fd.path, pos |-> fd.pos + count, mode |-> fd.mode]
  <2>2. Advanced(fd, n, count) = to
    BY DEF Advanced, FileFd
  <2>3. to \in FileFd /\ to.pos <= MaxLen
    BY <1>3, <1>5, <1>6, <2>1 DEF FileFd
  <2>4. CASE old = Unknown
    BY <1>1, <1>9, <2>2, <2>3, <2>4, OneEntry
  <2>5. CASE old # Unknown
    <3>1. fd.pos + count <= Len(data)
      BY <1>5, <1>6, <2>1, <2>5
    <3>2. new = SubSeq(data, 1, fd.pos + count)
      <4>1. /\ 1 \in 1 .. Len(data) + 1 /\ fd.pos \in 1 - 1 .. Len(data)
            /\ fd.pos + count \in fd.pos .. Len(data)
        BY <1>5, <1>6, <2>1, <2>5, <3>1
      <4>2. SubSeq(data, 1, fd.pos) \o SubSeq(data, fd.pos + 1, fd.pos + count)
              = SubSeq(data, 1, fd.pos + count)
        BY <4>1, ConcatAdjacentSubSeq
      <4> QED BY <1>6, <2>5, <4>2
    <3>3. new \in Seq(Bytes)
      <4>1. fd.pos + count \in Int /\ \A i \in 1 .. fd.pos + count : data[i] \in Bytes
        BY <1>5, <2>1, <3>1, ElementOfSeq
      <4>2. SubSeq(data, 1, fd.pos + count) \in Seq(Bytes)
        BY <4>1, 1 \in Int, SubSeqProperties, Zenon
      <4> QED BY <3>2, <4>2
    <3>4. fd.mode.write => new = Unknown
      BY <1>6, <2>5
    <3>5. to.pos = fd.pos + count /\ to.path = fd.path /\ to.mode = fd.mode
      OBVIOUS
    <3> HIDE DEF new, to
    <3>6. to \in FileFd \cup {NoFile} /\ new \in Seq(Bytes) \cup {Unknown}
      BY <2>3, <3>3
    <3> QED BY <1>1, <1>3, <1>9, <2>2, <2>3, <3>1, <3>2, <3>4, <3>5, <3>6, OneEntry
  <2> QED BY <2>4, <2>5
<1> QED BY <1>7, <1>8, <1>9

(* write: an append to a file leaves all others what they had read, and    *)
(* any other write makes them lose track.                                  *)
LEMMA WriteKeeps ==
  ASSUME OpenInv, NEW h \in Handles, NEW buf \in Buffers, Write(h, buf)
  PROVE  OpenInv'
<1>1. PICK fd \in FileFd : fd = fds[h] /\ fd # NoFile
  BY DEF OpenInv, Write
<1>2. PICK p \in Paths : p = fd.path
  BY DEF FileFd
<1>3. PICK there \in FileData : there = tree[p].data
  BY NodeFacts DEF OpenInv
<1> DEFINE base == IF fd.mode.append /\ ReadAnswer(p) = "Ok" THEN there ELSE <<>>
           data == base \o buf
<1>4. buf \in Seq(Bytes) /\ there \in Seq(Bytes) /\ <<>> \o buf = buf
  BY NodesOf, ConcatEmptySeq DEF FileData
<1>5. (IF fd.mode.append THEN Appended(fd, buf) ELSE buf) = data
  BY <1>2, <1>3, <1>4 DEF Appended
<1>6. CASE UNCHANGED <<tree, log, fds, seen>>
  BY <1>6 DEF OpenInv, EntryInv
<1>7. CASE /\ fd.mode.write /\ Len(data) <= MaxLen
           /\ res' = "Ok" /\ WriteAnswer(p) = "Ok" /\ WalkAnswer(p) = "Ok"
           /\ tree' = [tree EXCEPT ![p] = File(data)]
           /\ fds' = [fds EXCEPT ![h].pos = Len(data)]
           /\ log' = [log EXCEPT ![p] = IF fd.mode.append THEN @ \o buf ELSE buf]
           /\ seen' = IF fd.mode.append /\ IsFile(p) THEN seen ELSE Forget(p)
  <2>1. data \in FileData /\ Len(data) \in Nat
    BY <1>4, <1>7 DEF FileData
  <2>2. ReadAnswer(p) = "Ok" <=> IsFile(p)
    <3>1. tree[p] # Dir
      BY <1>7, Zenon DEF WriteAnswer, Exists, Nothing, Dir
    <3>2. tree[p] \in Node
      BY DEF OpenInv
    <3>3. tree[p] # Nothing <=> IsFile(p)
      BY <3>1, <3>2, NodeFacts DEF IsFile
    <3>4. ReadAnswer(p) = "Ok" <=> tree[p] # Nothing
      BY <1>7, <3>1 DEF ReadAnswer, Exists
    <3> QED BY <3>3, <3>4
  <2>3. ~IsFile(p) => there = <<>>
    BY <1>3, NodeFacts DEF OpenInv, IsFile
  <2>4. log' = [log EXCEPT ![p] = data]
    <3>1. log[p] = there
      BY <1>3 DEF OpenInv
    <3>2. (IF fd.mode.append THEN log[p] \o buf ELSE buf) = data
      BY <1>4, <2>2, <2>3, <3>1
    <3> QED BY <1>7, <3>2
  <2> DEFINE to == [path |-> p, pos |-> Len(data), mode |-> fd.mode]
  <2>5. fds' = [fds EXCEPT ![h] = to] /\ to \in FileFd
    <3>1. to \in FileFd /\ [fd EXCEPT !.pos = Len(data)] = to
      BY <1>2, <2>1 DEF FileFd
    <3>2. fds' = [fds EXCEPT ![h] = [fds[h] EXCEPT !.pos = Len(data)]]
      BY <1>7
    <3> QED BY <1>1, <3>1, <3>2, Zenon
  <2>6. tree'[p].data = data /\ \A q \in Paths \ {p} : tree'[q].data = tree[q].data
    BY <1>7, <2>1, NodesOf DEF OpenInv
  <2> HIDE DEF base, data
  <2>7. /\ tree' \in [Paths -> Node] /\ log' \in [Paths -> FileData]
        /\ \A q \in Paths : log'[q] = tree'[q].data
        /\ fds' \in [Handles -> FileFd \cup {NoFile}]
    <3>1. tree' \in [Paths -> Node] /\ log' \in [Paths -> FileData]
      BY <1>7, <2>1, <2>4, NodesOf DEF OpenInv
    <3>2. \A q \in Paths : log'[q] = tree'[q].data
      BY <2>1, <2>4, <2>6 DEF OpenInv
    <3>3. fds' \in [Handles -> FileFd \cup {NoFile}]
      BY <2>5 DEF OpenInv
    <3> QED BY <3>1, <3>2, <3>3
  <2>8. /\ seen' \in [Handles -> Seq(Bytes) \cup {Unknown}]
        /\ \A g \in Handles : seen'[g] # Unknown => seen'[g] = seen[g]
    BY <1>7 DEF OpenInv, Forget
  <2>9. seen[h] = Unknown /\ seen'[h] = Unknown
    <3>1. seen[h] = Unknown
      BY <1>1, <1>7 DEF OpenInv, EntryInv
    <3> QED BY <2>8, <3>1
  <2>10. ASSUME NEW g \in Handles \ {h}
         PROVE  EntryInv(g)'
    <3>1. fds'[g] = fds[g]
      BY <2>5 DEF OpenInv
    <3>2. ASSUME seen'[g] # Unknown, fds[g] # NoFile, fds[g].path = p
          PROVE  tree'[p].data = tree[p].data \o buf
      <4>1. fd.mode.append /\ IsFile(p)
        BY <1>7, <3>2 DEF Forget
      <4> QED BY <1>3, <2>2, <2>6, <4>1 DEF data, base
    <3>3. fds[g] # NoFile => fds[g].path \in Paths
      BY DEF OpenInv, FileFd
    <3> QED BY <1>4, <2>6, <2>8, <3>1, <3>2, <3>3, EntryKept
  <2>11. EntryInv(h)'
    <3>1. fds'[h] = to
      BY <2>5 DEF OpenInv
    <3> QED BY <1>7, <2>9, <3>1 DEF EntryInv
  <2> QED BY <2>7, <2>8, <2>10, <2>11 DEF OpenInv
<1>8. \/ UNCHANGED <<tree, log, fds, seen>>
      \/ /\ fd.mode.write /\ Len(data) <= MaxLen
         /\ res' = "Ok" /\ WriteAnswer(p) = "Ok" /\ WalkAnswer(p) = "Ok"
         /\ tree' = [tree EXCEPT ![p] = File(data)]
         /\ fds' = [fds EXCEPT ![h].pos = Len(data)]
         /\ log' = [log EXCEPT ![p] = IF fd.mode.append THEN @ \o buf ELSE buf]
         /\ seen' = IF fd.mode.append /\ IsFile(p) THEN seen ELSE Forget(p)
  <2> HIDE DEF base, data
  <2>1. CASE ~fd.mode.write
    BY <1>1, <2>1 DEF Write, NoOperation
  <2>2. CASE fd.mode.write
    <3>1. /\ Len(data) <= MaxLen
          /\ Operate(p, WriteAnswer(p), File(data))
          /\ fds' = Moved(h, data)
          /\ IF res' # "Ok" THEN UNCHANGED <<log, seen>>
             ELSE /\ log' = [log EXCEPT ![p] = IF fd.mode.append THEN @ \o buf ELSE buf]
                  /\ seen' = IF fd.mode.append /\ IsFile(p) THEN seen ELSE Forget(p)
      BY <1>1, <1>2, <1>5, <2>2, Zenon DEF Write
    <3>2. CASE res' = "Ok" /\ WriteAnswer(p) = "Ok" /\ WalkAnswer(p) = "Ok"
               /\ tree' = [tree EXCEPT ![p] = File(data)]
      BY <2>2, <3>1, <3>2, Zenon DEF Moved
    <3>3. CASE res' # "Ok" /\ tree' = tree
      BY <3>1, <3>3, Zenon DEF Moved
    <3> QED BY <3>1, <3>2, <3>3, Answered
  <2> QED BY <2>1, <2>2
<1> QED BY <1>6, <1>7, <1>8

(* The invariant holds at first and every call keeps it.                   *)
LEMMA OpenInvHolds == OpenSpec => []OpenInv
<1>1. OpenInit => OpenInv
  <2> SUFFICES ASSUME OpenInit
               PROVE  OpenInv
    OBVIOUS
  <2>1. tree \in [Paths -> Node] /\ log \in [Paths -> FileData]
    BY NodesOf DEF OpenInit, Empty
  <2>2. \A p \in Paths : log[p] = tree[p].data
    BY NodesOf DEF OpenInit, Empty
  <2>3. /\ fds \in [Handles -> FileFd \cup {NoFile}]
        /\ seen \in [Handles -> Seq(Bytes) \cup {Unknown}]
        /\ \A h \in Handles : EntryInv(h)
    BY DEF OpenInit, EntryInv
  <2> QED BY <2>1, <2>2, <2>3 DEF OpenInv
<1>2. OpenInv /\ [OpenNext]_vars => OpenInv'
  <2> SUFFICES ASSUME OpenInv, [OpenNext]_vars
               PROVE  OpenInv'
    OBVIOUS
  <2>1. CASE UNCHANGED vars
    BY <2>1 DEF vars, treeVars, openVars, OpenInv, EntryInv
  <2>2. ASSUME NEW p \in Paths, PathCall(p)
        PROVE  OpenInv'
    BY <2>2, PathCallKeeps
  <2>3. ASSUME NEW p \in Paths, NEW h \in Handles, NEW mode \in Modes, SysOpen(h, p, mode)
        PROVE  OpenInv'
    BY <2>3, SysOpenKeeps
  <2>4. ASSUME NEW h \in Handles, SysClose(h)
        PROVE  OpenInv'
    BY <2>4, SysCloseKeeps
  <2>5. ASSUME NEW h \in Handles, NEW g \in Handles, Copy(h, g)
        PROVE  OpenInv'
    BY <2>5, CopyKeeps
  <2>6. ASSUME NEW h \in Handles, NEW n \in 1 .. MaxRead, Read(h, n)
        PROVE  OpenInv'
    BY <2>6, ReadKeeps
  <2>7. ASSUME NEW h \in Handles, NEW buf \in Buffers, Write(h, buf)
        PROVE  OpenInv'
    BY <2>7, WriteKeeps
  <2> QED BY <2>1, <2>2, <2>3, <2>4, <2>5, <2>6, <2>7 DEF OpenNext
<1> QED BY <1>1, <1>2, PTL DEF OpenSpec

(* Every entry of a descriptor table holds a descriptor or nothing, and no *)
(* cursor of FileFd passes the end of the largest file.                    *)
THEOREM OpenFilesTypeCorrect == OpenSpec => []TypeOK
<1>1. OpenInv => TypeOK
  <2> SUFFICES ASSUME OpenInv
               PROVE  TypeOK
    OBVIOUS
  <2>1. \A p \in Paths : tree[p].kind \in {"none", "dir", "file"} /\ Len(tree[p].data) <= MaxLen
    BY NodeFacts DEF OpenInv
  <2> QED BY <2>1 DEF OpenInv, EntryInv, TypeOK
<1> QED BY <1>1, OpenInvHolds, PTL

(* FileFd::write in append mode reads the whole file again before it       *)
(* writes it back: no append of another descriptor is lost, however many   *)
(* there are and wherever their cursors stand.                             *)
THEOREM AppendsNeverLost == OpenSpec => []AppendsAddUp
<1>1. OpenInv => AppendsAddUp
  BY DEF OpenInv, AppendsAddUp
<1> QED BY <1>1, OpenInvHolds, PTL

(* FileFd::read returns each byte of a file that only grows once and in    *)
(* order, for every number of readers, appenders and copies.               *)
THEOREM ReadersMissNothing == OpenSpec => []ReadsEverythingOnce
<1>1. OpenInv => ReadsEverythingOnce
  BY DEF OpenInv, EntryInv, ReadsEverythingOnce
<1> QED BY <1>1, OpenInvHolds, PTL

(* A call on files that reports an error has changed nothing, except an    *)
(* open that created its file and then found the table full.               *)
THEOREM FailedCallsAreVoid == OpenSpec => FailureChangesNothing
<1> DEFINE A == ans' # "Ok" => UNCHANGED fds /\ (tree' # tree => ans' = "TooManyOpen")
<1>1. [OpenNext]_vars => [A]_vars
  <2> SUFFICES ASSUME OpenNext, ans' # "Ok"
               PROVE  A
    BY DEF vars
  <2>1. ASSUME NEW p \in Paths, PathCall(p)
        PROVE  A
    <3>1. UNCHANGED fds /\ ans' = res'
      BY <2>1 DEF PathCall
    <3>2. res' # "Ok" => tree' = tree
      BY <2>1, Answered DEF PathCall
    <3> QED BY <3>1, <3>2
  <2>2. ASSUME NEW p \in Paths, NEW h \in Handles, NEW mode \in Modes, SysOpen(h, p, mode)
        PROVE  A
    <3>1. \/ ans' = "TooManyOpen" /\ UNCHANGED fds
          \/ /\ ~(ReadAnswer(p) = "Ok" \/ (mode.create /\ res' = "Ok"))
             /\ UNCHANGED fds
      BY <2>2, Zenon DEF SysOpen
    <3>2. tree' # tree => mode.create /\ res' = "Ok"
      BY <2>2, Answered DEF SysOpen, NoOperation
    <3> QED BY <3>1, <3>2
  <2>3. ASSUME NEW h \in Handles, SysClose(h)
        PROVE  A
    BY <2>3 DEF SysClose, NoOperation
  <2>4. ASSUME NEW h \in Handles, NEW g \in Handles, Copy(h, g)
        PROVE  A
    BY <2>4 DEF Copy
  <2>5. ASSUME NEW h \in Handles, NEW n \in 1 .. MaxRead, Read(h, n)
        PROVE  A
    <3>1. UNCHANGED fds /\ tree' = tree
      BY <2>5, Zenon DEF Read, NoOperation
    <3> QED BY <3>1
  <2>6. ASSUME NEW h \in Handles, NEW buf \in Buffers, Write(h, buf)
        PROVE  A
    <3>1. CASE UNCHANGED fds /\ tree' = tree
      BY <3>1
    <3>2. ASSUME NEW STATE data, Operate(fds[h].path, WriteAnswer(fds[h].path), File(data)), ans' = res',
                 fds' = Moved(h, data)
          PROVE  A
      BY <3>2, Answered DEF Moved
    <3> QED BY <2>6, <3>1, <3>2 DEF Write, NoOperation
  <2> QED BY <2>1, <2>2, <2>3, <2>4, <2>5, <2>6 DEF OpenNext
<1> QED BY <1>1, PTL DEF OpenSpec, FailureChangesNothing
=============================================================================
