---------------------------- MODULE DeviceProofs ----------------------------
(***************************************************************************)
(* The devices.  The driver of src/virtio.rs and the device behind its     *)
(* queue implement the block device of module BlockDevice, and the two     *)
(* sides agree on the ring indices, for every capacity, queue size and     *)
(* width of the indices.                                                   *)
(*                                                                         *)
(* IndicesAgree is not inductive: that used.idx moves once per request,    *)
(* and only after the data did, follows from where the device is with its  *)
(* chain and from what the status byte says, which QueueInv and RequestInv *)
(* relate to the position of the driver.                                   *)
(*                                                                         *)
(* The second part is about the console: its input arrives in order and    *)
(* the stacks stay apart, for every size of the FIFO and every number of   *)
(* bytes.                                                                  *)
(***************************************************************************)
EXTENDS Virtqueue, Console, SequenceTheorems, Induction

USE VirtqueueAssumption

Busy == pc \in {"published", "waiting"}

(* The device has not yet acted on the request the driver has prepared.    *)
NotServed ==
  \/ pc = "prepared"
  \/ Busy /\ dev_avail = last_used
  \/ chain # NoChain /\ ~served

(* Where the device is with its chain, what the indices say, and what the  *)
(* status byte says about it.                                              *)
QueueInv ==
  /\ IndicesAgree
  /\ pc = "panicked" =>
       next_avail = last_used /\ used_idx = last_used /\ dev_avail = last_used
  /\ served => chain # NoChain
  /\ chain # NoChain => Busy /\ dev_avail = next_avail /\ used_idx = last_used
  /\ Busy /\ chain = NoChain => used_idx = dev_avail
  /\ status = Unset <=> NotServed
  /\ pc \in {"boot", "idle"} => status = OK
  /\ pc = "boot" => last_used = 0

(* The ring, the descriptors and the header describe the transfer that was *)
(* asked for, with what the buffer holds.                                  *)
RequestInv ==
  /\ ring = [i \in 0 .. QUEUE_SIZE - 1 |-> 0]
  /\ dev_status = "driver_ok" => queue_size >= 1 /\ pc # "boot"
  /\ pc \in {"prepared", "published", "waiting"} => desc = Chain(header.ty)
  /\ chain # NoChain => ("WRITE" \in chain[2].flags <=> header.ty = "In")
  /\ Calling => asked = Asked(header.sector, header.ty, buffer) /\ header.sector \in Sectors

(* TypeOK in three parts.                                                  *)
ControlTypes ==
  /\ pc \in {"boot", "idle", "prepared", "published", "waiting", "panicked"}
  /\ asked \in {NoRequest} \union Abstract!Reads \union Abstract!Writes
  /\ queue_size \in 0 .. QUEUE_SIZE
  /\ status \in {OK, IOERR, Unset}
  /\ buffer \in Data
  /\ media \in [Sectors -> Data]
  /\ dev_status \in {"reset", "ready", "driver_ok", "broken"}
  /\ served \in BOOLEAN /\ kicked \in BOOLEAN /\ interrupt \in BOOLEAN

IndexTypes ==
  /\ next_avail \in Indices /\ last_used \in Indices /\ avail_idx \in Indices
  /\ used_idx \in Indices /\ dev_avail \in Indices

MemoryTypes ==
  /\ desc \in [0 .. 2 -> VirtqDesc]
  /\ ring \in [0 .. QUEUE_SIZE - 1 -> 0 .. 2]
  /\ header \in [ty : {"In", "Out"}, sector : Sectors \union {0}]
  /\ chain \in {NoChain} \union [1 .. 3 -> VirtqDesc]

Types == ControlTypes /\ IndexTypes /\ MemoryTypes

(* The inductive invariant.                                                *)
QInv == Types /\ QueueInv /\ RequestInv

(* It implies the properties of Virtqueue.                                 *)
LEMMA QInvImplies == QInv => TypeOK /\ IndicesAgree
<1>1. QInv => IndicesAgree
  BY DEF QInv, QueueInv
<1>2. IndexTypes => {next_avail, last_used, avail_idx, used_idx, dev_avail} \subseteq Indices
  BY DEF IndexTypes
<1> QED
  BY <1>1, <1>2, Zenon DEF QInv, Types, ControlTypes, MemoryTypes, TypeOK

(* Adding one to an index gives another index, also when it wraps.         *)
LEMMA NextIndex ==
  ASSUME NEW i \in Indices
  PROVE  WrappingAdd(i, 1) \in Indices /\ WrappingAdd(i, 1) # i
<1>1. CASE i + 1 < IndexMod
  <2>1. (i + 1) % IndexMod = i + 1
    BY <1>1 DEF Indices
  <2> QED
    BY <1>1, <2>1 DEF WrappingAdd, Indices
<1>2. CASE i + 1 = IndexMod
  <2>1. (i + 1) % IndexMod = 0
    BY <1>2 DEF Indices
  <2> QED
    BY <1>2, <2>1 DEF WrappingAdd, Indices
<1> QED
  BY <1>1, <1>2 DEF Indices

(* A place in a queue that is no longer than the ring is in the ring.      *)
LEMMA PlaceInRing ==
  ASSUME NEW i \in Indices, NEW size \in 1 .. QUEUE_SIZE
  PROVE  i % size \in 0 .. QUEUE_SIZE - 1
<1>1. i % size \in 0 .. size - 1
  BY DEF Indices
<1> QED
  BY <1>1

(* Type correctness of the parts of a request.                             *)
LEMMA RequestTypes ==
  ASSUME NEW index \in Sectors, NEW ty \in {"In", "Out"}, NEW data \in Data
  PROVE  /\ Chain(ty) \in [0 .. 2 -> VirtqDesc]
         /\ RequestHeader(index, ty) \in [ty : {"In", "Out"}, sector : Sectors \union {0}]
         /\ Asked(index, ty, data) \in Abstract!Reads \union Abstract!Writes
         /\ Asked(index, ty, data) # NoRequest
<1>1. Chain(ty) \in [0 .. 2 -> VirtqDesc]
  BY DEF Chain, VirtqDesc
<1>2. RequestHeader(index, ty) \in [ty : {"In", "Out"}, sector : Sectors \union {0}]
  BY DEF RequestHeader
<1>3. CASE ty = "In"
  <2>1. Asked(index, ty, data) \in Abstract!Reads
    BY <1>3 DEF Asked, Abstract!Reads
  <2>2. Asked(index, ty, data).ty = "In" /\ NoRequest.ty = "None"
    BY <1>3 DEF Asked, NoRequest
  <2> QED
    BY <1>1, <1>2, <2>1, <2>2
<1>4. CASE ty = "Out"
  <2>1. Asked(index, ty, data) \in Abstract!Writes
    BY <1>4 DEF Asked, Abstract!Writes
  <2>2. Asked(index, ty, data).ty = "Out" /\ NoRequest.ty = "None"
    BY <1>4 DEF Asked, NoRequest
  <2> QED
    BY <1>1, <1>2, <2>1, <2>2
<1> QED
  BY <1>3, <1>4

(* Type correctness of zeroed queue memory.                                *)
LEMMA ZeroTypes ==
  /\ 0 \in Indices
  /\ [i \in 0 .. 2 |-> DefaultDesc] \in [0 .. 2 -> VirtqDesc]
  /\ [i \in 0 .. QUEUE_SIZE - 1 |-> 0] \in [0 .. QUEUE_SIZE - 1 -> 0 .. 2]
  /\ [ty |-> "In", sector |-> 0] \in [ty : {"In", "Out"}, sector : Sectors \union {0}]
<1>1. DefaultDesc \in VirtqDesc
  BY DEF DefaultDesc, VirtqDesc
<1> QED
  BY <1>1 DEF Indices

(* A step that leaves the three abstract variables alone.                  *)
Stutters == UNCHANGED <<media, CallMade, Answer>>

-----------------------------------------------------------------------------
(* The invariant holds at power on, where the driver looks like a block    *)
(* device nobody has called.                                               *)
LEMMA QInit == Init => QInv /\ Abstract!Init
<1> SUFFICES ASSUME Init PROVE QInv /\ Abstract!Init
  OBVIOUS
<1>1. Types
  <2>1. ControlTypes
    <3>1. asked \in {NoRequest} \union Abstract!Reads \union Abstract!Writes
      BY DEF Init
    <3>2. queue_size \in 0 .. QUEUE_SIZE /\ status = OK
      BY DEF Init, OK
    <3>3. /\ pc = "boot" /\ dev_status = "reset"
          /\ buffer \in Data /\ media \in [Sectors -> Data]
          /\ served \in BOOLEAN /\ kicked \in BOOLEAN /\ interrupt \in BOOLEAN
      BY Zenon DEF Init
    <3> QED
      BY <3>1, <3>2, <3>3, Zenon DEF ControlTypes
  <2>2. IndexTypes /\ MemoryTypes
    BY ZeroTypes DEF Init, IndexTypes, MemoryTypes
  <2> QED
    BY <2>1, <2>2 DEF Types
<1>2. QueueInv
  BY DEF Init, QueueInv, IndicesAgree, Busy, NotServed, OK, Unset
<1>3. RequestInv
  BY DEF Init, RequestInv, Calling
<1>4. Abstract!Init
  BY DEF Init, Abstract!Init, Abstract!NoCall, NoRequest, CallMade, Calling, Answer, OK, Unset
<1> QED
  BY <1>1, <1>2, <1>3, <1>4 DEF QInv

(* What zero_queue_memory and the reset leave behind.                      *)
LEMMA SetUpKeeps ==
  ASSUME QInv, NEW st \in {"ready", "driver_ok"}, SetUpQueue(st),
         pc' \in {"boot", "idle", "panicked"}, queue_size' \in 0 .. QUEUE_SIZE,
         st = "driver_ok" => queue_size' >= 1 /\ pc' # "boot"
  PROVE  QInv' /\ Stutters
<1>1. Types'
  BY ZeroTypes DEF QInv, Types, ControlTypes, IndexTypes, MemoryTypes, SetUpQueue,
                   ResetDevice, zero_queue_memory, OK, IOERR, Unset
<1>2. QueueInv'
  BY DEF SetUpQueue, ResetDevice, zero_queue_memory, QueueInv, IndicesAgree, Busy,
         NotServed, OK, Unset
<1>3. ~Calling /\ ~Calling' /\ status = OK /\ status' = OK
  BY DEF QInv, QueueInv, SetUpQueue, zero_queue_memory, Calling, OK
<1>4. RequestInv'
  BY <1>3 DEF RequestInv, SetUpQueue, ResetDevice, zero_queue_memory
<1>5. Stutters
  BY <1>3 DEF Stutters, CallMade, Answer, SetUpQueue, OK, Unset
<1> QED
  BY <1>1, <1>2, <1>4, <1>5 DEF QInv

(* initialize, whatever comes of it.                                       *)
LEMMA InitializeKeeps ==
  ASSUME QInv, InitRefused \/ InitFails \/ InitPanics \/ InitDone
  PROVE  QInv' /\ Stutters
<1>1. CASE InitRefused
  <2>0. /\ UNCHANGED <<pc, asked, queue_size, next_avail, last_used, desc, header, status>>
        /\ UNCHANGED <<ring, avail_idx, used_idx, buffer, media>>
        /\ pc = "boot"
    BY <1>1 DEF InitRefused, queueState, request
  <2>6. \/ UNCHANGED <<dev_status, dev_avail, chain, served, kicked, interrupt>>
        \/ /\ dev_status' = "reset" /\ dev_avail' = 0 /\ chain' = NoChain
           /\ served' = FALSE /\ kicked' = FALSE /\ interrupt' = FALSE
    BY <1>1 DEF InitRefused, ResetDevice, deviceVars
  <2>7. chain = NoChain /\ served = FALSE
    BY <2>0 DEF QInv, QueueInv, Types, ControlTypes, Busy
  <2>1. Types'
    <3>1. ControlTypes'
      BY <2>0, <2>6 DEF QInv, Types, ControlTypes
    <3>2. IndexTypes' /\ MemoryTypes'
      BY <2>0, <2>6, ZeroTypes DEF QInv, Types, IndexTypes, MemoryTypes
    <3> QED
      BY <3>1, <3>2 DEF Types
  <2>2. QueueInv'
    BY <2>0, <2>6, <2>7 DEF QInv, QueueInv, IndicesAgree, Busy, NotServed
  <2>3. ~Calling /\ ~Calling'
    BY <1>1 DEF InitRefused, Calling
  <2>4. RequestInv'
    BY <1>1, <2>3 DEF QInv, QueueInv, RequestInv, InitRefused, ResetDevice, deviceVars,
                      queueState, request, Busy
  <2>5. Stutters
    BY <1>1, <2>3 DEF Stutters, CallMade, Answer, InitRefused, request
  <2> QED
    BY <2>1, <2>2, <2>4, <2>5 DEF QInv
<1>2. CASE InitFails \/ InitPanics
  <2>1. /\ SetUpQueue("ready") /\ pc' \in {"boot", "idle", "panicked"}
        /\ queue_size' \in 0 .. QUEUE_SIZE
    BY <1>2 DEF InitFails, InitPanics, SetUpQueue, QInv, Types, ControlTypes
  <2> QED
    BY <2>1, SetUpKeeps
<1>3. CASE InitDone
  <2>1. PICK queue_max \in QueueMaxes \ {0} : queue_size' = QueueSize(queue_max)
    BY <1>3 DEF InitDone
  <2>2. queue_size' \in 1 .. QUEUE_SIZE
    BY <2>1 DEF QueueSize
  <2>3. SetUpQueue("driver_ok") /\ pc' = "idle"
    BY <1>3 DEF InitDone
  <2> QED
    BY <2>2, <2>3, SetUpKeeps
<1> QED
  BY <1>1, <1>2, <1>3

-----------------------------------------------------------------------------
(* transfer up to the status byte and the ring entry: the abstract call.   *)
LEMMA PrepareCalls ==
  ASSUME QInv, NEW index, NEW ty \in {"In", "Out"}, NEW data \in Data,
         Prepare(index, ty, data)
  PROVE  QInv' /\ Abstract!Call(Asked(index, ty, data)) /\ index \in Sectors
<1>1. /\ pc = "idle" /\ pc' = "prepared" /\ index \in Sectors
      /\ header' = RequestHeader(index, ty) /\ status' = Unset /\ desc' = Chain(ty)
      /\ ring' = [ring EXCEPT ![Slot] = 0]
      /\ buffer' = data /\ asked' = Asked(index, ty, data)
  BY DEF Prepare
<1>2. UNCHANGED <<queue_size, next_avail, last_used, avail_idx, used_idx, media,
                  dev_status, dev_avail, chain, served, kicked, interrupt>>
  BY DEF Prepare, queueState, deviceVars
<1>3. chain = NoChain /\ served = FALSE /\ status = OK
  BY <1>1 DEF QInv, QueueInv, Types, ControlTypes, Busy
<1>4. ring' = ring /\ header'.ty = ty /\ header'.sector = index
  BY <1>1 DEF QInv, RequestInv, RequestHeader
<1>5. Types'
  <2>1. ControlTypes'
    BY <1>1, <1>2, RequestTypes DEF QInv, Types, ControlTypes
  <2>2. IndexTypes' /\ MemoryTypes'
    BY <1>1, <1>2, <1>4, RequestTypes DEF QInv, Types, IndexTypes, MemoryTypes
  <2> QED
    BY <2>1, <2>2 DEF Types
<1>6. QueueInv'
  BY <1>1, <1>2, <1>3 DEF QInv, QueueInv, IndicesAgree, Busy, NotServed
<1>7. RequestInv'
  BY <1>1, <1>2, <1>3, <1>4 DEF QInv, RequestInv
<1>8. Abstract!Call(Asked(index, ty, data))
  <2>1. CallMade = NoRequest /\ CallMade' = Asked(index, ty, data)
    BY <1>1 DEF CallMade, Calling
  <2>2. Answer' = "pending"
    BY <1>1 DEF Answer
  <2> QED
    BY <1>2, <2>1, <2>2 DEF Abstract!Call, Abstract!NoCall, Abstract!Pending, NoRequest
<1> QED
  BY <1>1, <1>5, <1>6, <1>7, <1>8 DEF QInv

(* The assertion on the sector number: no call is made.                    *)
LEMMA AssertKeeps ==
  ASSUME QInv, NEW index, AssertFails(index)
  PROVE  QInv' /\ Stutters
<1>1. /\ pc = "idle" /\ pc' = "panicked"
      /\ UNCHANGED <<asked, queue_size, next_avail, last_used, desc, header, status, ring>>
      /\ UNCHANGED <<avail_idx, used_idx, buffer, media>>
      /\ UNCHANGED <<dev_status, dev_avail, chain, served, kicked, interrupt>>
  BY DEF AssertFails, queueState, request, deviceVars
<1>2. chain = NoChain /\ served = FALSE /\ status = OK
  BY <1>1 DEF QInv, QueueInv, Types, ControlTypes, Busy
<1>3. Types'
  BY <1>1 DEF QInv, Types, ControlTypes, IndexTypes, MemoryTypes
<1>4. QueueInv'
  BY <1>1, <1>2 DEF QInv, QueueInv, IndicesAgree, Busy, NotServed, OK, Unset
<1>5. RequestInv' /\ Stutters
  BY <1>1, <1>2 DEF QInv, RequestInv, Calling, Stutters, CallMade, Answer
<1> QED
  BY <1>3, <1>4, <1>5 DEF QInv

(* The step that hands the chain over, and the one that tells the device.  *)
LEMMA PublishKeeps ==
  ASSUME QInv, Publish \/ Notify
  PROVE  QInv' /\ Stutters
<1>1. CASE Publish
  <2>1. /\ pc = "prepared" /\ pc' = "published"
        /\ next_avail' = WrappingAdd(next_avail, 1) /\ avail_idx' = next_avail'
        /\ UNCHANGED <<asked, queue_size, last_used, desc, header, status, ring>>
        /\ UNCHANGED <<used_idx, buffer, media>>
        /\ UNCHANGED <<dev_status, dev_avail, chain, served, kicked, interrupt>>
    BY <1>1 DEF Publish, request, deviceVars
  <2>2. /\ next_avail = last_used /\ used_idx = last_used /\ dev_avail = last_used
        /\ chain = NoChain /\ served = FALSE /\ status = Unset
    BY <2>1 DEF QInv, QueueInv, Types, ControlTypes, IndicesAgree, Busy, NotServed
  <2>3. next_avail \in Indices
    BY DEF QInv, Types, IndexTypes
  <2>4. next_avail' \in Indices
    BY <2>1, <2>3, NextIndex
  <2>5. Types'
    BY <2>1, <2>4 DEF QInv, Types, ControlTypes, IndexTypes, MemoryTypes
  <2>6. QueueInv'
    BY <2>1, <2>2 DEF QueueInv, IndicesAgree, Busy, NotServed
  <2>7. RequestInv' /\ Stutters
    BY <2>1, <2>2 DEF QInv, RequestInv, Calling, Stutters, CallMade, Answer
  <2> QED
    BY <2>5, <2>6, <2>7 DEF QInv
<1>2. CASE Notify
  <2>1. /\ pc = "published" /\ pc' = "waiting" /\ kicked' = TRUE
        /\ UNCHANGED <<asked, queue_size, next_avail, last_used, desc, header, status, ring>>
        /\ UNCHANGED <<avail_idx, used_idx, buffer, media>>
        /\ UNCHANGED <<dev_status, dev_avail, chain, served, interrupt>>
    BY <1>2 DEF Notify, queueState, request
  <2>2. Types'
    BY <2>1 DEF QInv, Types, ControlTypes, IndexTypes, MemoryTypes
  <2>3. QueueInv'
    BY <2>1 DEF QInv, QueueInv, IndicesAgree, Busy, NotServed, WrappingAdd
  <2>4. RequestInv' /\ Stutters
    BY <2>1 DEF QInv, RequestInv, Calling, Stutters, CallMade, Answer
  <2> QED
    BY <2>2, <2>3, <2>4 DEF QInv
<1> QED
  BY <1>1, <1>2

(* The end of transfer: the abstract return, or the panic of a failure.    *)
LEMMA CollectReturns ==
  ASSUME QInv, Collect
  PROVE  QInv' /\ (Abstract!Return \/ Stutters)
<1>1. /\ pc = "waiting" /\ used_idx = WrappingAdd(last_used, 1)
      /\ last_used' = WrappingAdd(last_used, 1)
      /\ pc' = IF status = OK THEN "idle" ELSE "panicked"
      /\ interrupt' = IF status = OK THEN FALSE ELSE interrupt
      /\ UNCHANGED <<asked, queue_size, next_avail, desc, header, status, ring>>
      /\ UNCHANGED <<avail_idx, used_idx, buffer, media>>
      /\ UNCHANGED <<dev_status, dev_avail, chain, served, kicked>>
  BY DEF Collect, request, deviceVars
<1>2. last_used \in Indices
  BY DEF QInv, Types, IndexTypes
<1>3. used_idx # last_used /\ last_used' \in Indices
  BY <1>1, <1>2, NextIndex
<1>4. /\ chain = NoChain /\ served = FALSE /\ avail_idx = next_avail
      /\ used_idx = dev_avail /\ next_avail = used_idx /\ dev_avail # last_used
  BY <1>1, <1>3 DEF QInv, QueueInv, IndicesAgree, Busy, Types, ControlTypes
<1>5. status # Unset
  BY <1>1, <1>4 DEF QInv, QueueInv, NotServed
<1>6. Types'
  <2>1. ControlTypes'
    BY <1>1 DEF QInv, Types, ControlTypes
  <2>2. IndexTypes' /\ MemoryTypes'
    BY <1>1, <1>3 DEF QInv, Types, IndexTypes, MemoryTypes
  <2> QED
    BY <2>1, <2>2 DEF Types
<1>7. QueueInv'
  BY <1>1, <1>4, <1>5 DEF QueueInv, IndicesAgree, Busy, NotServed
<1>8. RequestInv'
  <2>1. Calling
    BY <1>1 DEF Calling
  <2> QED
    BY <1>1, <1>4, <2>1 DEF QInv, RequestInv
<1>9. CASE status = OK
  <2>1. /\ CallMade = asked /\ CallMade' = NoRequest
        /\ Answer = buffer /\ Answer' = buffer
    BY <1>1, <1>9 DEF CallMade, Calling, Answer, OK, Unset
  <2>2. header.ty \in {"In", "Out"} /\ header.sector \in Sectors /\ buffer \in Data
        /\ asked = Asked(header.sector, header.ty, buffer)
    BY <1>1 DEF QInv, RequestInv, Calling, Types, MemoryTypes, ControlTypes
  <2>3. asked # NoRequest
    BY <2>2, RequestTypes
  <2>4. Abstract!Return
    BY <1>1, <2>1, <2>2, <2>3 DEF Abstract!Return, Abstract!NoCall, NoRequest
  <2> QED
    BY <1>6, <1>7, <1>8, <2>4 DEF QInv
<1>10. CASE status # OK
  <2>1. Stutters
    BY <1>1, <1>10 DEF Stutters, CallMade, Calling, Answer
  <2> QED
    BY <1>6, <1>7, <1>8, <2>1 DEF QInv
<1> QED
  BY <1>9, <1>10

-----------------------------------------------------------------------------
(* The device finds the chain transfer built, or nothing new.              *)
LEMMA TakeKeeps ==
  ASSUME QInv, DeviceTake
  PROVE  QInv' /\ Stutters
<1>1. /\ dev_status = "driver_ok" /\ chain = NoChain
      /\ UNCHANGED <<pc, asked, queue_size, next_avail, last_used, desc, header, status, ring>>
      /\ UNCHANGED <<avail_idx, used_idx, buffer, media, served, interrupt>>
  BY DEF DeviceTake, queueState, request
<1>2. Stutters
  BY <1>1 DEF Stutters, CallMade, Calling, Answer
<1>3. /\ queue_size \in 1 .. QUEUE_SIZE /\ dev_avail \in Indices /\ served = FALSE
      /\ dev_status' \in {"driver_ok", "broken"} => dev_status' \in {"reset", "ready", "driver_ok", "broken"}
  BY <1>1 DEF QInv, QueueInv, RequestInv, Types, ControlTypes, IndexTypes
<1>4. CASE UNCHANGED <<dev_avail, chain>> /\ dev_status' \in {"driver_ok", "broken"}
           /\ kicked' \in {kicked, FALSE}
  <2>1. Types'
    <3>1. ControlTypes'
      BY <1>1, <1>3, <1>4 DEF QInv, Types, ControlTypes
    <3>2. IndexTypes' /\ MemoryTypes'
      BY <1>1, <1>4 DEF QInv, Types, IndexTypes, MemoryTypes
    <3> QED
      BY <3>1, <3>2 DEF Types
  <2>2. QueueInv'
    BY <1>1, <1>4 DEF QInv, QueueInv, IndicesAgree, Busy, NotServed, WrappingAdd
  <2>3. RequestInv'
    BY <1>1, <1>4 DEF QInv, RequestInv, Calling
  <2> QED
    BY <1>2, <2>1, <2>2, <2>3 DEF QInv
<1>5. CASE /\ dev_avail # avail_idx
           /\ chain' = Followed(ring[dev_avail % queue_size])
           /\ dev_avail' = WrappingAdd(dev_avail, 1)
           /\ UNCHANGED <<dev_status, kicked>>
  <2>1. /\ Busy /\ dev_avail = last_used /\ used_idx = last_used
        /\ next_avail = WrappingAdd(last_used, 1) /\ avail_idx = next_avail
        /\ status = Unset
    BY <1>1, <1>3, <1>5 DEF QInv, QueueInv, RequestInv, IndicesAgree, Busy, NotServed,
                            Types, ControlTypes
  <2>2. ring[dev_avail % queue_size] = 0
    BY <1>3, PlaceInRing DEF QInv, RequestInv
  <2>3. header.ty \in {"In", "Out"} /\ desc = Chain(header.ty)
    BY <2>1 DEF QInv, RequestInv, Busy, Types, MemoryTypes
  <2>4. /\ desc[0].next = 1 /\ desc[1].next = 2
        /\ desc[1].flags = IF header.ty = "In" THEN {"NEXT", "WRITE"} ELSE {"NEXT"}
    BY <2>3 DEF Chain
  <2>5. chain' = <<desc[0], desc[1], desc[2]>>
    BY <1>5, <2>2, <2>4 DEF Followed
  <2>6. desc[0] \in VirtqDesc /\ desc[1] \in VirtqDesc /\ desc[2] \in VirtqDesc
    BY DEF QInv, Types, MemoryTypes
  <2>7. /\ chain' # NoChain /\ chain' \in [1 .. 3 -> VirtqDesc]
        /\ "WRITE" \in chain'[2].flags <=> header.ty = "In"
    BY <2>4, <2>5, <2>6 DEF NoChain
  <2>8. dev_avail' \in Indices /\ dev_avail' # dev_avail
    BY <1>3, <1>5, NextIndex
  <2>9. Types'
    <3>1. ControlTypes'
      BY <1>1, <1>5 DEF QInv, Types, ControlTypes
    <3>2. IndexTypes' /\ MemoryTypes'
      BY <1>1, <2>7, <2>8 DEF QInv, Types, IndexTypes, MemoryTypes
    <3> QED
      BY <3>1, <3>2 DEF Types
  <2>10. QueueInv'
    BY <1>1, <1>3, <1>5, <2>1, <2>7, <2>8 DEF QueueInv, IndicesAgree, Busy, NotServed,
                                                WrappingAdd
  <2>11. RequestInv'
    BY <1>1, <1>5, <2>7 DEF QInv, RequestInv, Calling
  <2> QED
    BY <1>2, <2>9, <2>10, <2>11 DEF QInv
<1> QED
  BY <1>1, <1>4, <1>5 DEF DeviceTake

(* The device moves the data: the moment at which the transfer happens.    *)
LEMMA ServePerforms ==
  ASSUME QInv, DeviceServe
  PROVE  QInv' /\ Abstract!Perform
<1>1. /\ chain # NoChain /\ served = FALSE /\ served' = TRUE
      /\ UNCHANGED <<pc, asked, queue_size, next_avail, last_used, desc, header, ring>>
      /\ UNCHANGED <<avail_idx, used_idx, dev_status, dev_avail, chain, kicked, interrupt>>
  BY DEF DeviceServe, queueState, QInv, Types, ControlTypes
<1>2. /\ Busy /\ dev_avail = next_avail /\ used_idx = last_used /\ status = Unset
      /\ next_avail = WrappingAdd(last_used, 1) /\ last_used \in Indices
  BY <1>1 DEF QInv, QueueInv, NotServed, IndicesAgree, Busy, Types, IndexTypes
<1>3. Calling /\ Calling'
  BY <1>1, <1>2 DEF Calling, Busy
<1>4. /\ header.sector \in Sectors /\ header.ty \in {"In", "Out"} /\ buffer \in Data
      /\ media \in [Sectors -> Data]
      /\ asked = Asked(header.sector, header.ty, buffer)
  BY <1>3 DEF QInv, RequestInv, Types, MemoryTypes, ControlTypes
<1>5. /\ asked # NoRequest /\ asked.ty = header.ty /\ asked.sector = header.sector
      /\ header.ty = "Out" => asked.data = buffer
  BY <1>4, RequestTypes DEF Asked
<1>6. /\ status' \in {OK, IOERR} /\ buffer' \in Data
      /\ media' \in [Sectors -> Data]
      /\ header.ty = "Out" => buffer' = buffer
  BY <1>1, <1>4 DEF DeviceServe, Stored
<1>7. Types'
  <2>1. ControlTypes'
    BY <1>1, <1>6 DEF QInv, Types, ControlTypes
  <2>2. IndexTypes' /\ MemoryTypes'
    BY <1>1 DEF QInv, Types, IndexTypes, MemoryTypes
  <2> QED
    BY <2>1, <2>2 DEF Types
<1>8. dev_avail # last_used
  BY <1>2, NextIndex
<1>9. QueueInv'
  BY <1>1, <1>2, <1>6, <1>8 DEF QInv, QueueInv, IndicesAgree, Busy, NotServed, WrappingAdd,
                                OK, IOERR, Unset
<1>10. RequestInv'
  <2>1. asked' = Asked(header'.sector, header'.ty, buffer')
    BY <1>1, <1>4, <1>6 DEF Asked
  <2> QED
    BY <1>1, <1>4, <2>1 DEF QInv, RequestInv
<1>11. CallMade = asked /\ CallMade' = asked /\ Answer = "pending"
  BY <1>1, <1>2, <1>3 DEF CallMade, Answer
<1>12. Answer' = IF status' = OK THEN buffer' ELSE "failed"
  BY <1>6 DEF Answer, OK, IOERR, Unset
<1>13. Abstract!Written = Stored \/ header.ty # "Out"
  BY <1>5, <1>11 DEF Abstract!Written, Stored
<1>14. Abstract!Perform
  <2>1. CASE header.ty = "In" /\ buffer' = media[header.sector] /\ status' = OK /\ media' = media
    BY <1>5, <1>11, <1>12, <2>1
       DEF Abstract!Perform, Abstract!NoCall, Abstract!Pending, NoRequest
  <2>2. CASE header.ty = "Out" /\ media' = Stored /\ status' = OK /\ buffer' = buffer
    BY <1>5, <1>11, <1>12, <1>13, <2>2
       DEF Abstract!Perform, Abstract!NoCall, Abstract!Pending, NoRequest
  <2>3. CASE status' = IOERR /\ (media' = media \/ (header.ty = "Out" /\ media' = Stored))
    <3>1. Answer' = "failed"
      BY <1>12, <2>3 DEF OK, IOERR
    <3> QED
      BY <1>5, <1>11, <1>13, <2>3, <3>1
         DEF Abstract!Perform, Abstract!NoCall, Abstract!Pending, Abstract!Failed, NoRequest
  <2> QED
    BY <2>1, <2>2, <2>3 DEF DeviceServe
<1> QED
  BY <1>7, <1>9, <1>10, <1>14 DEF QInv

(* The device returns the chain.                                           *)
LEMMA CompleteKeeps ==
  ASSUME QInv, DeviceComplete
  PROVE  QInv' /\ Stutters
<1>1. /\ chain # NoChain /\ served = TRUE /\ chain' = NoChain /\ served' = FALSE
      /\ used_idx' = WrappingAdd(used_idx, 1) /\ interrupt' = TRUE
      /\ UNCHANGED <<pc, asked, queue_size, next_avail, last_used, desc, header, status, ring>>
      /\ UNCHANGED <<avail_idx, buffer, media, dev_status, dev_avail, kicked>>
  BY DEF DeviceComplete, queueState, request, QInv, Types, ControlTypes
<1>2. /\ Busy /\ dev_avail = next_avail /\ used_idx = last_used /\ used_idx \in Indices
      /\ next_avail = WrappingAdd(last_used, 1)
  BY <1>1 DEF QInv, QueueInv, IndicesAgree, Busy, Types, IndexTypes
<1>3. used_idx' = dev_avail /\ dev_avail # last_used /\ used_idx' \in Indices
  BY <1>1, <1>2, NextIndex
<1>4. status # Unset
  BY <1>1, <1>2, <1>3 DEF QInv, QueueInv, NotServed, Busy
<1>5. Types'
  <2>1. ControlTypes'
    BY <1>1 DEF QInv, Types, ControlTypes
  <2>2. IndexTypes' /\ MemoryTypes'
    BY <1>1, <1>3 DEF QInv, Types, IndexTypes, MemoryTypes
  <2> QED
    BY <2>1, <2>2 DEF Types
<1>6. QueueInv'
  BY <1>1, <1>2, <1>3, <1>4 DEF QInv, QueueInv, IndicesAgree, Busy, NotServed, WrappingAdd
<1>7. RequestInv' /\ Stutters
  BY <1>1 DEF QInv, RequestInv, Calling, Stutters, CallMade, Answer
<1> QED
  BY <1>5, <1>6, <1>7 DEF QInv

-----------------------------------------------------------------------------
(* Every step keeps the invariant and is a step of the block device.       *)
LEMMA QNext ==
  ASSUME QInv, [Next]_vars
  PROVE  QInv' /\ [Abstract!Next]_(Abstract!blockVars)
<1>1. ASSUME QInv', Stutters PROVE QInv' /\ [Abstract!Next]_(Abstract!blockVars)
  BY <1>1 DEF Stutters, Abstract!blockVars
<1>2. CASE UNCHANGED vars
  <2>1. /\ UNCHANGED <<pc, asked, queue_size, next_avail, last_used, desc, header, status>>
        /\ UNCHANGED <<ring, avail_idx, used_idx, buffer, media, interrupt>>
        /\ UNCHANGED <<dev_status, dev_avail, chain, served, kicked>>
    BY <1>2 DEF vars, queueState, request, deviceVars
  <2>2. Types'
    BY <2>1 DEF QInv, Types, ControlTypes, IndexTypes, MemoryTypes
  <2>3. QueueInv'
    BY <2>1 DEF QInv, QueueInv, IndicesAgree, Busy, NotServed, WrappingAdd
  <2>4. RequestInv' /\ Stutters
    BY <2>1 DEF QInv, RequestInv, Calling, Stutters, CallMade, Answer
  <2> QED
    BY <1>1, <2>2, <2>3, <2>4 DEF QInv
<1>3. CASE InitRefused \/ InitFails \/ InitPanics \/ InitDone
  BY <1>1, <1>3, InitializeKeeps
<1>4. ASSUME NEW index, NEW ty \in {"In", "Out"}, NEW data \in Data,
             Prepare(index, ty, data)
      PROVE  QInv' /\ [Abstract!Next]_(Abstract!blockVars)
  <2>1. /\ QInv' /\ Abstract!Call(Asked(index, ty, data))
        /\ Asked(index, ty, data) \in Abstract!Reads \union Abstract!Writes
    BY <1>4, PrepareCalls, RequestTypes
  <2> QED
    BY <2>1 DEF Abstract!Next
<1>5. ASSUME NEW index, AssertFails(index)
      PROVE  QInv' /\ [Abstract!Next]_(Abstract!blockVars)
  BY <1>1, <1>5, AssertKeeps
<1>6. CASE Publish \/ Notify
  BY <1>1, <1>6, PublishKeeps
<1>7. CASE Collect
  BY <1>1, <1>7, CollectReturns DEF Abstract!Next
<1>8. CASE DeviceTake \/ DeviceComplete
  BY <1>1, <1>8, TakeKeeps, CompleteKeeps
<1>9. CASE DeviceServe
  BY <1>9, ServePerforms DEF Abstract!Next
<1> QED
  BY <1>2, <1>3, <1>4, <1>5, <1>6, <1>7, <1>8, <1>9, Zenon DEF Next, Driver, Device

(* The inductive invariant holds always.                                   *)
THEOREM QueueInvariant == Spec => []QInv
<1>1. Init => QInv
  BY QInit
<1>2. QInv /\ [Next]_vars => QInv'
  BY QNext
<1> QED
  BY <1>1, <1>2, PTL DEF Spec

(* The types are kept, the five ring indices within their width included.  *)
THEOREM QueueTypeCorrect == Spec => []TypeOK
  BY QueueInvariant, QInvImplies, PTL

(* transfer and the device agree on the ring indices before, in and after  *)
(* every request, for indices of any width and however often they wrap.    *)
THEOREM QueueIndicesAgree == Spec => []IndicesAgree
  BY QueueInvariant, QInvImplies, PTL

(* transfer does not touch the header, the descriptors, the status byte or *)
(* the buffer while the device works on them.                              *)
THEOREM QueueMemoryLent == Spec => MemoryLent
<1> DEFINE Lent == chain # NoChain /\ chain' # NoChain /\ served' = served
                     => UNCHANGED <<request, buffer>>
<1>1. QInv /\ [Next]_vars => [Lent]_vars
  <2> SUFFICES ASSUME QInv, Next, chain # NoChain, chain' # NoChain, served' = served
               PROVE  UNCHANGED <<request, buffer>>
    OBVIOUS
  <2>1. pc \in {"published", "waiting"} /\ served \in BOOLEAN
    BY DEF QInv, QueueInv, Busy, Types, ControlTypes
  <2>2. ~DeviceServe /\ ~DeviceComplete
    BY <2>1 DEF DeviceServe, DeviceComplete
  <2>3. Publish \/ Notify \/ Collect \/ DeviceTake
    BY <2>1, <2>2 DEF Next, Driver, Device, InitRefused, InitFails, InitPanics, InitDone,
                      SetUpQueue, Prepare, AssertFails
  <2> QED
    BY <2>3 DEF Publish, Notify, Collect, DeviceTake, request
<1> QED
  BY <1>1, QueueInvariant, PTL DEF Spec, MemoryLent

(* read_block and write_block implement the block device: a transfer acts  *)
(* once, on the sector and with the data it was called with, between its   *)
(* call and its return.                                                    *)
THEOREM QueueIsBlockDevice == Spec => IsBlockDevice
<1>1. Init => Abstract!Init
  BY QInit
<1>2. QInv /\ [Next]_vars => [Abstract!Next]_(Abstract!blockVars)
  BY QNext
<1> QED
  BY <1>1, <1>2, QueueInvariant, PTL DEF Spec, IsBlockDevice, Abstract!Spec

-----------------------------------------------------------------------------
HIDE VirtqueueAssumption
USE ConsoleAssumption

(* RX_QUEUE's capacity stays a number, however many bytes a push loop adds.*)
LEMMA GrownCapType ==
  ASSUME cap \in Nat, rx \in Seq(Nat), fifo \in Seq(Nat)
  PROVE  GrownCap \in Nat
<1> DEFINE n == Len(fifo)
           Push(c, k) == IF Len(rx) + k <= c THEN c ELSE IF c = 0 THEN MinCap ELSE 2 * c
           Step(f) == [k \in 0 .. n |-> IF k = 0 THEN cap ELSE
                         IF Len(rx) + k <= f[k - 1] THEN f[k - 1]
                         ELSE IF f[k - 1] = 0 THEN MinCap ELSE 2 * f[k - 1]]
           room == CHOOSE f : f = Step(f)
           G == [k \in 1 .. n |-> [c \in Nat |-> Push(c, k)]]
<1>0. n \in Nat /\ Len(rx) \in Nat
  OBVIOUS
<1>1. GrownCap = room[n]
  BY DEF GrownCap
<1>2. \E f : f = Step(f)
  <2>1. G \in [1 .. n -> [Nat -> Nat]]
    BY <1>0
  <2>4. PICK f \in [0 .. n -> Nat] : f[0] = cap /\ \A k \in 1 .. n : f[k] = G[k][f[k - 1]]
    <3> HIDE DEF G, n
    <3>1. n \in Nat
      BY <1>0
    <3>2. \E f : Iterates(f, n, Nat, cap, G)
      BY <3>1, <2>1, RecursionTo, Zenon
    <3> QED BY <3>2 DEF Iterates
  <2>5. \A k \in 1 .. n : f[k] = Push(f[k - 1], k)
    <3> SUFFICES ASSUME NEW k \in 1 .. n
                 PROVE  f[k] = Push(f[k - 1], k)
      OBVIOUS
    <3>1. k - 1 \in 0 .. n /\ f[k - 1] \in Nat
      <4> HIDE DEF n
      <4> QED BY <1>0
    <3>2. G[k][f[k - 1]] = Push(f[k - 1], k)
      BY <3>1
    <3> QED BY <2>4, <3>2
  <2>6. f = Step(f)
    BY <1>0, <2>4, <2>5
  <2> QED BY <2>6
<1>3. room = Step(room)
  <2> HIDE DEF Step
  <2> QED BY <1>2
<1> HIDE DEF room
<1> DEFINE T == {k \in 0 .. n : room[k] \in Nat}
<1>4. 0 .. n \subseteq T
  <2>1. ASSUME NEW k \in 1 .. n, k - 1 \in T
        PROVE  k \in T
    <3>1. room[k - 1] \in Nat /\ k \in 0 .. n /\ k # 0
      BY <1>0, <2>1
    <3>2. room[k] = Push(room[k - 1], k)
      BY <1>3, <3>1
    <3>3. room[k] \in Nat
      BY <1>0, <3>1, <3>2
    <3> QED BY <3>1, <3>3
  <2>2. 0 \in T
    BY <1>0, <1>3
  <2> HIDE DEF T, n
  <2> QED BY <1>0, <2>1, <2>2, InductionTo
<1> QED BY <1>0, <1>1, <1>4

(* A byte appended to the last part is appended to the whole.              *)
LEMMA AppendAtEnd ==
  ASSUME NEW s \in Seq(Nat), NEW t \in Seq(Nat), NEW b \in Nat
  PROVE  s \o Append(t, b) = Append(s \o t, b)
OBVIOUS

(* The inductive invariant.  Until an interrupt hits the trampoline, the   *)
(* two stack pointers are where its instructions have put them.            *)
ConsoleInv ==
  /\ ConsoleTypeOK
  /\ InputInOrder
  /\ ~hit =>
       /\ at \in {"boot", "alloc", "enter"} => sp = "kernel" /\ sscratch = "none"
       /\ at = "swapped" => sp = "kernel" /\ sscratch = "kernel"
       /\ at \in {"stacked", "armed", "user"} => sp = "user" /\ sscratch = "kernel"
       /\ at = "armed" => sepc = "user"
       /\ at # "astray"

(* Traps leave stack pointers, the place and sepc within their types.      *)
LEMMA TrapTypes ==
  ASSUME ConsoleTypeOK, IF UserMode THEN TrapFromUser ELSE TrapFromSupervisor
  PROVE  /\ at' = at
         /\ {sp', sscratch'} \subseteq {"none", "kernel", "user"}
         /\ sepc' \in Points \cup {"none"}
         /\ sscratch # "none" /\ UserMode => sp' = sp /\ sscratch' = sscratch
         /\ sscratch = "none" /\ ~UserMode => sp' = sp /\ sscratch' = sscratch
BY DEF ConsoleTypeOK, TrapFromUser, TrapFromSupervisor

(* Draining the FIFO moves its bytes behind those of RX_QUEUE.             *)
LEMMA DrainKeeps ==
  ASSUME ConsoleTypeOK, InputInOrder, Drain
  PROVE  /\ {fifo', rx', got', typed'} \subseteq Seq(Nat)
         /\ pending' \in BOOLEAN /\ stuck' \in BOOLEAN /\ cap' \in Nat
         /\ InputInOrder'
<1>1. CASE UNCHANGED uart /\ stuck' = TRUE
  BY <1>1 DEF uart, ConsoleTypeOK, InputInOrder
<1>2. CASE /\ rx' = rx \o fifo /\ fifo' = <<>> /\ pending' = FALSE
           /\ cap' = GrownCap /\ UNCHANGED <<got, typed, stuck>>
  <2>1. GrownCap \in Nat
    BY GrownCapType DEF ConsoleTypeOK
  <2>2. rx \o fifo \in Seq(Nat) /\ got \o rx \in Seq(Nat) /\ got \o (rx \o fifo) \in Seq(Nat)
    BY DEF ConsoleTypeOK
  <2>3. (got \o (rx \o fifo)) \o <<>> = (got \o rx) \o fifo
    <3>1. (got \o (rx \o fifo)) \o <<>> = got \o (rx \o fifo)
      BY <2>2, ConcatEmptySeq, Zenon
    <3>2. (got \o rx) \o fifo = got \o (rx \o fifo)
      <4>1. rx \in Seq(Nat) /\ fifo \in Seq(Nat) /\ got \in Seq(Nat)
        BY DEF ConsoleTypeOK
      <4> QED BY ONLY <4>1
    <3> QED BY <3>1, <3>2, Zenon
  <2>4. InputInOrder'
    BY <1>2, <2>3, Zenon DEF InputInOrder
  <2>5. {fifo', rx', got', typed'} \subseteq Seq(Nat)
    BY <1>2, <2>2 DEF ConsoleTypeOK
  <2> QED BY <1>2, <2>1, <2>4, <2>5 DEF ConsoleTypeOK
<1> QED BY <1>1, <1>2 DEF Drain

(* A read takes the first byte that no program has had.                    *)
LEMMA ReadByteKeeps ==
  ASSUME ConsoleTypeOK, InputInOrder, ReadByte, UNCHANGED typed
  PROVE  /\ {fifo', rx', got'} \subseteq Seq(Nat)
         /\ InputInOrder'
<1>1. ASSUME NEW s \in Seq(Nat), s # <<>>
      PROVE  /\ Head(s) \in Nat /\ Tail(s) \in Seq(Nat)
             /\ \A g, t \in Seq(Nat) : (Append(g, Head(s)) \o Tail(s)) \o t = (g \o s) \o t
  <2>1. Head(s) \in Nat /\ Tail(s) \in Seq(Nat)
    BY <1>1
  <2>2. s = <<Head(s)>> \o Tail(s)
    BY <1>1
  <2>3. ASSUME NEW g \in Seq(Nat)
        PROVE  Append(g, Head(s)) \o Tail(s) = g \o s
    <3>1. Append(g, Head(s)) = g \o <<Head(s)>> /\ <<Head(s)>> \in Seq(Nat)
      BY <2>1, AppendIsConcat
    <3>2. (g \o <<Head(s)>>) \o Tail(s) = g \o (<<Head(s)>> \o Tail(s))
      BY <2>1, <3>1, ConcatAssociative
    <3> QED BY <2>2, <3>1, <3>2
  <2> QED BY <2>1, <2>3
<1>2. CASE rx # <<>> /\ got' = Append(got, Head(rx)) /\ rx' = Tail(rx) /\ fifo' = fifo
  <2>1. /\ Head(rx) \in Nat /\ Tail(rx) \in Seq(Nat)
        /\ (Append(got, Head(rx)) \o Tail(rx)) \o fifo = (got \o rx) \o fifo
    <3>1. rx \in Seq(Nat) /\ fifo \in Seq(Nat) /\ got \in Seq(Nat)
      BY DEF ConsoleTypeOK
    <3> QED BY <1>1, <1>2, <3>1, Zenon
  <2>2. InputInOrder'
    BY <1>2, <2>1, Zenon DEF InputInOrder
  <2> QED BY <1>2, <2>1, <2>2 DEF ConsoleTypeOK
<1>3. CASE /\ rx = <<>> /\ fifo # <<>>
           /\ got' = Append(got, Head(fifo)) /\ fifo' = Tail(fifo) /\ rx' = rx
  <2>1. \A g \in Seq(Nat) : g \o <<>> = g
    BY ConcatEmptySeq
  <2>2. Append(got, Head(fifo)) \in Seq(Nat) /\ Tail(fifo) \in Seq(Nat)
    BY <1>1, <1>3 DEF ConsoleTypeOK
  <2>3. /\ got \o rx = got
        /\ Append(got, Head(fifo)) \o <<>> = Append(got, Head(fifo))
    BY <1>3, <2>1, <2>2 DEF ConsoleTypeOK
  <2>4. Append(got, Head(fifo)) \o Tail(fifo) = got \o fifo
    <3>1. (Append(got, Head(fifo)) \o Tail(fifo)) \o <<>> = (got \o fifo) \o <<>>
      <4>1. fifo \in Seq(Nat) /\ got \in Seq(Nat) /\ <<>> \in Seq(Nat)
        BY DEF ConsoleTypeOK
      <4> QED BY <1>1, <1>3, <4>1, Zenon
    <3>2. Append(got, Head(fifo)) \o Tail(fifo) \in Seq(Nat) /\ got \o fifo \in Seq(Nat)
      BY <2>2 DEF ConsoleTypeOK
    <3> QED BY <2>1, <3>1, <3>2
  <2> QED BY <1>3, <2>2, <2>3, <2>4 DEF ConsoleTypeOK, InputInOrder
<1> QED BY <1>2, <1>3 DEF ReadByte

(* The invariant holds at first and every step keeps it.                   *)
LEMMA ConsoleInvHolds == ConsoleSpec => []ConsoleInv
<1>1. ConsoleInit => ConsoleInv
  <2> SUFFICES ASSUME ConsoleInit
               PROVE  ConsoleInv
    OBVIOUS
  <2>1. <<>> \o <<>> \o <<>> = <<>>
    OBVIOUS
  <2>2. InputInOrder
    BY <2>1, Zenon DEF ConsoleInit, InputInOrder
  <2>3. ConsoleTypeOK
    <3>1. <<>> \in Seq(Nat)
      OBVIOUS
    <3> QED BY <3>1, Zenon DEF ConsoleInit, ConsoleTypeOK, Points
  <2> QED BY <2>2, <2>3 DEF ConsoleInit, ConsoleInv
<1>2. ConsoleInv /\ [ConsoleNext]_consoleVars => ConsoleInv'
  <2> SUFFICES ASSUME ConsoleInv, [ConsoleNext]_consoleVars
               PROVE  ConsoleInv'
    OBVIOUS
  <2>1. CASE UNCHANGED consoleVars
    BY <2>1 DEF consoleVars, trap, uart, ConsoleInv, ConsoleTypeOK, InputInOrder
  <2>2. CASE Type
    <3> DEFINE b == Len(typed) + 1
    <3>1. b \in Nat /\ Append(fifo, b) \in Seq(Nat) /\ Append(typed, b) \in Seq(Nat)
      BY DEF ConsoleInv, ConsoleTypeOK
    <3>2. got \o rx \in Seq(Nat) /\ fifo \in Seq(Nat) /\ typed = (got \o rx) \o fifo
      BY DEF ConsoleInv, ConsoleTypeOK, InputInOrder
    <3> HIDE DEF b
    <3>3. (got \o rx) \o Append(fifo, b) = Append((got \o rx) \o fifo, b)
      BY <3>1, <3>2, AppendAtEnd
    <3>4. /\ fifo' = Append(fifo, b) /\ typed' = Append(typed, b) /\ pending' = TRUE
          /\ UNCHANGED <<at, sp, sscratch, sepc, rx, cap, got, hit, stuck>>
      BY <2>2 DEF Type, trap, b
    <3>5. InputInOrder'
      BY <3>2, <3>3, <3>4, Zenon DEF InputInOrder
    <3> QED BY <3>1, <3>4, <3>5 DEF ConsoleInv, ConsoleTypeOK
  <2>3. CASE Hart(Allocate) \/ Hart(Launch) \/ Hart(Trampoline)
    BY <2>3 DEF Hart, Allocate, Launch, Trampoline, uart, ConsoleInv, ConsoleTypeOK, InputInOrder, Points
  <2>4. CASE Interrupt
    <3>1. /\ {fifo', rx', got', typed'} \subseteq Seq(Nat)
          /\ pending' \in BOOLEAN /\ stuck' \in BOOLEAN /\ cap' \in Nat
          /\ InputInOrder'
      BY <2>4, DrainKeeps DEF ConsoleInv, Interrupt
    <3>2. /\ at' = at
          /\ {sp', sscratch'} \subseteq {"none", "kernel", "user"}
          /\ sepc' \in Points \cup {"none"}
          /\ sscratch # "none" /\ UserMode => sp' = sp /\ sscratch' = sscratch
          /\ sscratch = "none" /\ ~UserMode => sp' = sp /\ sscratch' = sscratch
      BY <2>4, TrapTypes DEF ConsoleInv, Interrupt
    <3>3. hit' = (hit \/ at \in {"swapped", "stacked", "armed"})
      BY <2>4 DEF Interrupt
    <3>4. ConsoleTypeOK'
      BY <3>1, <3>2, <3>3 DEF ConsoleInv, ConsoleTypeOK
    <3> QED BY <3>1, <3>2, <3>3, <3>4 DEF ConsoleInv, ConsoleTypeOK, UserMode, Points
  <2>5. CASE ReadCall
    <3>1. /\ {fifo', rx', got'} \subseteq Seq(Nat)
          /\ InputInOrder'
      BY <2>5, ReadByteKeeps DEF ConsoleInv, ReadCall
    <3>2. /\ at = "user" /\ at' = at
          /\ {sp', sscratch'} \subseteq {"none", "kernel", "user"}
          /\ sepc' \in Points \cup {"none"}
          /\ sscratch # "none" => sp' = sp /\ sscratch' = sscratch
      BY <2>5, TrapTypes DEF ConsoleInv, ReadCall, UserMode
    <3>3. UNCHANGED <<pending, cap, typed, hit, stuck>>
      BY <2>5 DEF ReadCall
    <3>4. ConsoleTypeOK'
      BY <3>1, <3>2, <3>3 DEF ConsoleInv, ConsoleTypeOK
    <3> QED BY <3>1, <3>2, <3>3, <3>4 DEF ConsoleInv
  <2> QED BY <2>1, <2>2, <2>3, <2>4, <2>5 DEF ConsoleNext
<1> QED BY <1>1, <1>2, PTL DEF ConsoleSpec

(* What the invariant means.                                               *)
LEMMA ConsoleInvMeans == ConsoleInv => ConsoleTypeOK /\ InputInOrder /\ StacksKeptApart
BY DEF ConsoleInv, StacksKeptApart, UserMode, ConsoleTypeOK, Points

(* Registers, stack pointers and the fields of the UART and of RX_QUEUE    *)
(* keep their types, the capacity that the push loop computes included.    *)
THEOREM ConsoleTypeCorrect == ConsoleSpec => []ConsoleTypeOK
BY ConsoleInvHolds, ConsoleInvMeans, PTL

(* What programs read, what RX_QUEUE holds and what the FIFO holds is what *)
(* was typed, in order, however reads and interrupts alternate.            *)
THEOREM ConsoleKeepsOrder == ConsoleSpec => []InputInOrder
BY ConsoleInvHolds, ConsoleInvMeans, PTL

(* Traps keep the program's stack and the kernel's apart, unless one comes *)
(* inside the trampoline.                                                  *)
THEOREM ConsoleKeepsStacks == ConsoleSpec => []StacksKeptApart
BY ConsoleInvHolds, ConsoleInvMeans, PTL
=============================================================================
