--------------------------- MODULE Virtqueue ----------------------------
(***************************************************************************)
(* The virtio block driver of src/virtio.rs and the device at the other    *)
(* end of its queue.  The two share memory and nothing else: the driver    *)
(* fills one chain of three descriptors, advances avail.idx and spins      *)
(* until used.idx has moved; the device looks at avail.idx whenever it     *)
(* likes, and is only bound to look after QUEUE_NOTIFY.  Both indices      *)
(* count for ever in sixteen bits.                                         *)
(***************************************************************************)
EXTENDS Integers, FiniteSets

CONSTANTS
    Capacity,    \* the sectors of the device
    Data,        \* what a sector, or the caller's buffer, can hold
    QUEUE_SIZE,  \* the ring entries the driver has memory for
    QueueMaxes,  \* what a device may answer to QUEUE_NUM_MAX
    IndexMod     \* the ring indices are counted modulo this, 2^16 in the code

ASSUME VirtqueueAssumption ==
    /\ Capacity \in Nat
    /\ QUEUE_SIZE \in Nat \ {0}
    /\ QueueMaxes \subseteq Nat
    /\ IndexMod \in Nat \ {0, 1}
    /\ "failed" \notin Data
    /\ "pending" \notin Data
    /\ "none" \notin Data

VARIABLES
    pc,          \* where the kernel is: "boot", "idle", in transfer, or "panicked"
    asked,       \* the arguments of the last transfer, with what the buffer held
    queue_size,  \* the queue size of the cached DEVICE, 0 while there is none
    next_avail, last_used,  \* QUEUE_STATE
    desc,        \* VIRTQ_DESC, the three entries transfer uses
    ring,        \* VIRTQ_AVAIL.ring
    avail_idx,   \* VIRTQ_AVAIL.idx
    used_idx,    \* VIRTQ_USED.idx
    header,      \* REQUEST_HEADER
    status,      \* REQUEST_STATUS
    buffer,      \* the caller's buffer
    media,       \* the device: what its sectors hold
    dev_status,  \* the device: "reset", "ready" (QUEUE_READY), "driver_ok" or "broken"
    dev_avail,   \* the device: the next entry of the ring to look at
    chain,       \* the device: the descriptors it is working on, or NoChain
    served,      \* the device: it has moved the data of chain
    kicked,      \* the device: QUEUE_NOTIFY was written since it last looked
    interrupt    \* INTERRUPT_STATUS

queueState == <<next_avail, last_used>>
request == <<desc, header, status>>
deviceVars == <<dev_status, dev_avail, chain, served, kicked>>
vars == <<pc, asked, queue_size, queueState, request, ring, avail_idx, used_idx, buffer,
          media, deviceVars, interrupt>>

Sectors == 0 .. Capacity - 1
Indices == 0 .. IndexMod - 1

(* A faulty variant: the indices do not wrap.                              *)
WrappingAdd_NoWrap(i, n) == i + n

WrappingAdd(i, n) == (i + n) % IndexMod

VirtqDesc ==
    [addr : {"null", "header", "buffer", "status"}, flags : SUBSET {"NEXT", "WRITE"}, next : 0 .. 2]
DefaultDesc == [addr |-> "null", flags |-> {}, next |-> 0]
NoChain == <<>>
NoRequest == [ty |-> "None", sector |-> 0, data |-> "none"]

OK == 0
IOERR == 1
Unset == 255

-----------------------------------------------------------------------------
(* initialize: the device is probed, reset, offered features, given the    *)
(* queue and started.  Any check may fail; DEVICE then stays empty and the *)
(* next command of the kernel's shell that needs the disk starts again.    *)

(* Writing 0 to STATUS puts the device back to its power-on state.         *)
ResetDevice ==
    /\ dev_avail' = 0
    /\ chain' = NoChain
    /\ served' = FALSE
    /\ kicked' = FALSE
    /\ interrupt' = FALSE

zero_queue_memory ==
    /\ desc' = [i \in 0 .. 2 |-> DefaultDesc]
    /\ ring' = [i \in 0 .. QUEUE_SIZE - 1 |-> 0]
    /\ avail_idx' = 0
    /\ used_idx' = 0
    /\ header' = [ty |-> "In", sector |-> 0]
    /\ status' = 0
    /\ next_avail' = 0
    /\ last_used' = 0

(* Refused before the queue is set up: wrong magic, version or device id,  *)
(* found before the reset, or FEATURES_OK not kept, or no queue.           *)
InitRefused ==
    /\ pc = "boot"
    /\ \/ UNCHANGED <<deviceVars, interrupt>>
       \/ ResetDevice /\ dev_status' = "reset"
    /\ UNCHANGED <<pc, asked, queue_size, queueState, request, ring, avail_idx, used_idx, buffer, media>>

(* QUEUE_READY has been written; then the configuration is read.           *)
SetUpQueue(then) ==
    /\ pc = "boot"
    /\ ResetDevice
    /\ zero_queue_memory
    /\ dev_status' = then
    /\ UNCHANGED <<asked, buffer, media>>

(* The configuration changed while it was read: DeviceFailure.             *)
InitFails == SetUpQueue("ready") /\ UNCHANGED <<pc, queue_size>>

InitPanics == SetUpQueue("ready") /\ pc' = "panicked" /\ UNCHANGED queue_size

QueueSize(queue_max) == IF queue_max < QUEUE_SIZE THEN queue_max ELSE QUEUE_SIZE

InitDone ==
    /\ SetUpQueue("driver_ok")
    /\ \E queue_max \in QueueMaxes \ {0} : queue_size' = QueueSize(queue_max)
    /\ pc' = "idle"

-----------------------------------------------------------------------------
(* transfer, under the QUEUE_STATE lock.  The file system's own lock means *)
(* one call at a time; the interleaving is with the device.                *)

(* A faulty variant: the second descriptor does not lead on to the third.  *)
Chain_CutShort(request_type) ==
    [i \in 0 .. 2 |->
        CASE i = 0 -> [addr |-> "header", flags |-> {"NEXT"}, next |-> 1]
          [] i = 1 -> [addr |-> "buffer", next |-> 2,
                       flags |-> IF request_type = "In" THEN {"WRITE"} ELSE {}]
          [] i = 2 -> [addr |-> "status", flags |-> {"WRITE"}, next |-> 0]]

(* The chain: the header the device reads, the buffer it reads or writes,  *)
(* the status it writes.                                                   *)
Chain(request_type) ==
    [i \in 0 .. 2 |->
        CASE i = 0 -> [addr |-> "header", flags |-> {"NEXT"}, next |-> 1]
          [] i = 1 -> [addr |-> "buffer", next |-> 2,
                       flags |-> IF request_type = "In" THEN {"NEXT", "WRITE"} ELSE {"NEXT"}]
          [] i = 2 -> [addr |-> "status", flags |-> {"WRITE"}, next |-> 0]]

Slot == next_avail % queue_size

Asked(index, request_type, data) ==
    [ty |-> request_type, sector |-> index, data |-> IF request_type = "In" THEN "none" ELSE data]

(* A faulty variant: the sector stays what zero_queue_memory made it.      *)
RequestHeader_NoSector(index, request_type) == [ty |-> request_type, sector |-> 0]

RequestHeader(index, request_type) == [ty |-> request_type, sector |-> index]

Prepare(index, request_type, data) ==
    /\ pc = "idle"
    /\ index \in Sectors
    /\ pc' = "prepared"
    /\ header' = RequestHeader(index, request_type)
    /\ status' = Unset
    /\ desc' = Chain(request_type)
    /\ ring' = [ring EXCEPT ![Slot] = 0]
    /\ buffer' = data
    /\ asked' = Asked(index, request_type, data)
    /\ UNCHANGED <<queue_size, queueState, avail_idx, used_idx, media, deviceVars, interrupt>>

(* assert!((index as u64) < self.capacity_sectors)                         *)
AssertFails(index) ==
    /\ pc = "idle"
    /\ index \notin Sectors
    /\ pc' = "panicked"
    /\ UNCHANGED <<asked, queue_size, queueState, request, ring, avail_idx, used_idx, buffer, media,
                   deviceVars, interrupt>>

Publish ==
    /\ pc = "prepared"
    /\ pc' = "published"
    /\ next_avail' = WrappingAdd(next_avail, 1)
    /\ avail_idx' = next_avail'
    /\ UNCHANGED <<asked, queue_size, last_used, request, ring, used_idx, buffer, media, deviceVars,
                   interrupt>>

(* A faulty variant: the status byte is reset when the chain is already    *)
(* the device's.                                                           *)
Notify_ResetsStatus ==
    /\ pc = "published"
    /\ pc' = "waiting"
    /\ kicked' = TRUE
    /\ status' = Unset
    /\ UNCHANGED <<asked, queue_size, queueState, desc, header, ring, avail_idx, used_idx, buffer,
                   media, dev_status, dev_avail, chain, served, interrupt>>

Notify ==
    /\ pc = "published"
    /\ pc' = "waiting"
    /\ kicked' = TRUE
    /\ UNCHANGED <<asked, queue_size, queueState, request, ring, avail_idx, used_idx, buffer, media,
                   dev_status, dev_avail, chain, served, interrupt>>

(* A faulty variant: last_used is not stored.                              *)
Collect_NoLastUsed ==
    /\ pc = "waiting"
    /\ used_idx = WrappingAdd(last_used, 1)
    /\ pc' = IF status = OK THEN "idle" ELSE "panicked"
    /\ interrupt' = IF status = OK THEN FALSE ELSE interrupt
    /\ UNCHANGED <<asked, queue_size, queueState, request, ring, avail_idx, used_idx, buffer, media,
                   deviceVars>>

(* The spin loop sees used.idx at the value it waits for.  A status other  *)
(* than OK panics, and then the interrupt is not acknowledged.             *)
Collect ==
    LET expected == WrappingAdd(last_used, 1)
    IN  /\ pc = "waiting"
        /\ used_idx = expected
        /\ last_used' = expected
        /\ pc' = IF status = OK THEN "idle" ELSE "panicked"
        /\ interrupt' = IF status = OK THEN FALSE ELSE interrupt
        /\ UNCHANGED <<asked, queue_size, next_avail, request, ring, avail_idx, used_idx, buffer, media,
                       deviceVars>>

-----------------------------------------------------------------------------
(* The device, as the driver relies on it.                                 *)

(* It takes the head the ring names and follows the chain.  A chain with   *)
(* a link outside the queue, or not of a request's shape, stops it.        *)
Followed(head) ==
    LET second == desc[head].next
        third == desc[second].next
    IN  <<desc[head], desc[second], desc[third]>>

InQueue(head) == head < queue_size /\ \A i \in 1 .. 2 : Followed(head)[i].next < queue_size

WellFormed(c) ==
    /\ c[1].addr = "header" /\ c[1].flags = {"NEXT"}
    /\ c[2].addr = "buffer" /\ "NEXT" \in c[2].flags
    /\ c[3].addr = "status" /\ c[3].flags = {"WRITE"}

DeviceTake ==
    /\ dev_status = "driver_ok"
    /\ chain = NoChain
    /\ IF dev_avail = avail_idx
         THEN kicked /\ kicked' = FALSE /\ UNCHANGED <<dev_status, dev_avail, chain>>
         ELSE LET head == ring[dev_avail % queue_size]
              IN  IF InQueue(head) /\ WellFormed(Followed(head))
                    THEN /\ chain' = Followed(head)
                         /\ dev_avail' = WrappingAdd(dev_avail, 1)
                         /\ UNCHANGED <<dev_status, kicked>>
                    ELSE dev_status' = "broken" /\ UNCHANGED <<chain, dev_avail, kicked>>
    /\ UNCHANGED <<pc, asked, queue_size, queueState, request, ring, avail_idx, used_idx, buffer, media,
                   served, interrupt>>

Stored == [media EXCEPT ![header.sector] = buffer]

DeviceServe ==
    /\ chain # NoChain /\ ~served
    /\ served' = TRUE
    /\ \/ /\ header.ty = "In" /\ "WRITE" \in chain[2].flags
          /\ buffer' = media[header.sector]
          /\ status' = OK
          /\ UNCHANGED media
       \/ /\ header.ty = "Out" /\ "WRITE" \notin chain[2].flags
          /\ media' = Stored
          /\ status' = OK
          /\ UNCHANGED buffer
       \/ /\ status' = IOERR
          /\ media' = media \/ (header.ty = "Out" /\ media' = Stored)
          /\ UNCHANGED buffer
    /\ UNCHANGED <<pc, asked, queue_size, queueState, desc, header, ring, avail_idx, used_idx, dev_status,
                   dev_avail, chain, kicked, interrupt>>

DeviceComplete ==
    /\ chain # NoChain /\ served
    /\ chain' = NoChain
    /\ served' = FALSE
    /\ used_idx' = WrappingAdd(used_idx, 1)
    /\ interrupt' = TRUE
    /\ UNCHANGED <<pc, asked, queue_size, queueState, request, ring, avail_idx, buffer, media, dev_status,
                   dev_avail, kicked>>

-----------------------------------------------------------------------------
Init ==
    /\ pc = "boot"
    /\ asked = NoRequest
    /\ queue_size = 0
    /\ next_avail = 0 /\ last_used = 0
    /\ desc = [i \in 0 .. 2 |-> DefaultDesc]
    /\ ring = [i \in 0 .. QUEUE_SIZE - 1 |-> 0]
    /\ avail_idx = 0 /\ used_idx = 0
    /\ header = [ty |-> "In", sector |-> 0]
    /\ status = 0
    /\ buffer \in Data
    /\ media \in [Sectors -> Data]
    /\ dev_status = "reset"
    /\ dev_avail = 0
    /\ chain = NoChain
    /\ served = FALSE
    /\ kicked = FALSE
    /\ interrupt = FALSE

Driver ==
    \/ InitRefused \/ InitFails \/ InitPanics \/ InitDone
    \/ \E index \in 0 .. Capacity, request_type \in {"In", "Out"}, data \in Data :
          Prepare(index, request_type, data)
    \/ \E index \in 0 .. Capacity : AssertFails(index)
    \/ Publish \/ Notify \/ Collect

Device == DeviceTake \/ DeviceServe \/ DeviceComplete

Next == Driver \/ Device

Spec == Init /\ [][Next]_vars

(* The kernel runs transfer to its end, and a device whose queue was       *)
(* notified works through it.                                              *)
Fairness ==
    /\ WF_vars(Publish \/ Notify \/ Collect)
    /\ WF_vars(kicked /\ DeviceTake)
    /\ WF_vars(DeviceServe)
    /\ WF_vars(DeviceComplete)

FairSpec == Spec /\ Fairness

-----------------------------------------------------------------------------
Calling == pc \in {"prepared", "published", "waiting"} \/ (pc = "panicked" /\ status # OK)

CallMade == IF Calling THEN asked ELSE NoRequest

Answer == IF status = Unset THEN "pending" ELSE IF status = OK THEN buffer ELSE "failed"

Abstract == INSTANCE BlockDevice WITH blocks <- media, call <- CallMade, ans <- Answer

(* The kernel's and the device's variables keep their types; the five      *)
(* indices stay within their width.                                        *)
TypeOK ==
    /\ pc \in {"boot", "idle", "prepared", "published", "waiting", "panicked"}
    /\ asked \in {NoRequest} \union Abstract!Reads \union Abstract!Writes
    /\ queue_size \in 0 .. QUEUE_SIZE
    /\ {next_avail, last_used, avail_idx, used_idx, dev_avail} \subseteq Indices
    /\ desc \in [0 .. 2 -> VirtqDesc]
    /\ ring \in [0 .. QUEUE_SIZE - 1 -> 0 .. 2]
    /\ header \in [ty : {"In", "Out"}, sector : Sectors \union {0}]
    /\ status \in {OK, IOERR, Unset}
    /\ buffer \in Data
    /\ media \in [Sectors -> Data]
    /\ dev_status \in {"reset", "ready", "driver_ok", "broken"}
    /\ chain \in {NoChain} \union [1 .. 3 -> VirtqDesc]
    /\ served \in BOOLEAN /\ kicked \in BOOLEAN /\ interrupt \in BOOLEAN

(* Between two transfers the driver and the device agree on all five       *)
(* indices, and in one they are apart by the one entry, also after the     *)
(* sixteen bits have wrapped: next_avail and avail.idx, last_used and      *)
(* used.idx of transfer, and the position the device has reached.          *)
IndicesAgree ==
    /\ avail_idx = next_avail
    /\ pc \in {"boot", "idle", "prepared"} =>
          next_avail = last_used /\ used_idx = last_used /\ dev_avail = last_used
    /\ pc \in {"published", "waiting"} =>
          /\ next_avail = WrappingAdd(last_used, 1)
          /\ dev_avail \in {last_used, next_avail}
          /\ used_idx \in {last_used, dev_avail}

(* While the device works on a chain, transfer leaves the header, the      *)
(* descriptors, the status byte and the buffer of it alone: they are       *)
(* statics that the next request reuses.                                   *)
MemoryLent ==
    [][chain # NoChain /\ chain' # NoChain /\ served' = served => UNCHANGED <<request, buffer>>]_vars

(* A request returns or panics; it does not spin for ever.  A device whose *)
(* queue is shorter than the three descriptors of a chain is accepted by   *)
(* initialize and excused here: it takes no request.                       *)
RequestReturns ==
    (pc \in {"prepared", "published", "waiting"} /\ queue_size >= 3) ~> (pc \in {"idle", "panicked"})

(* The driver and the device together are a block device: a transfer acts  *)
(* once, on the sector and with the data it was called with, before it     *)
(* returns, and a read returns with that sector's bytes in the buffer.     *)
IsBlockDevice == Abstract!Spec

=========================================================================
