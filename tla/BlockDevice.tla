-------------------------- MODULE BlockDevice ---------------------------
(* What the block driver promises the file system: read_block and        *)
(* write_block act on one array of sectors, each at a single moment      *)
(* between its call and its return.  A transfer the device fails never   *)
(* returns: the kernel panics, and a failed write may have happened.     *)
EXTENDS Integers

CONSTANTS
    Sectors,  \* the sectors the device has
    Data      \* what a sector can hold

VARIABLES
    blocks,   \* what each sector holds
    call,     \* the transfer asked for, or NoCall
    ans       \* what the caller's buffer holds once it has happened, Pending before

blockVars == <<blocks, call, ans>>

NoCall == [ty |-> "None", sector |-> 0, data |-> "none"]
Pending == "pending"
Failed == "failed"

Reads == [ty : {"In"}, sector : Sectors, data : {"none"}]
Writes == [ty : {"Out"}, sector : Sectors, data : Data]

Call(c) ==
    /\ call = NoCall
    /\ call' = c
    /\ ans' = Pending
    /\ UNCHANGED blocks

Written == [blocks EXCEPT ![call.sector] = call.data]

Perform ==
    /\ call # NoCall /\ ans = Pending
    /\ \/ /\ call.ty = "In"
          /\ ans' = blocks[call.sector]
          /\ UNCHANGED blocks
       \/ /\ call.ty = "Out"
          /\ ans' = call.data
          /\ blocks' = Written
       \/ /\ ans' = Failed
          /\ blocks' = blocks \/ (call.ty = "Out" /\ blocks' = Written)
    /\ UNCHANGED call

Return ==
    /\ call # NoCall /\ ans \in Data
    /\ call' = NoCall
    /\ UNCHANGED <<blocks, ans>>

Init ==
    /\ blocks \in [Sectors -> Data]
    /\ call = NoCall
    /\ ans \in Data

Next == (\E c \in Reads \union Writes : Call(c)) \/ Perform \/ Return

Spec == Init /\ [][Next]_blockVars
=========================================================================
