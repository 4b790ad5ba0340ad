----------------------------- MODULE MCTinyFs ------------------------------
(***************************************************************************)
(* TinyFs for TLC, with two things its state stands for in variables of    *)
(* their own, so that TLC computes them once a step.  The configurations   *)
(* choose the bounds.                                                      *)
(***************************************************************************)
EXTENDS TinyFs

(* Names are compared for equality only.                                   *)
Symmetry == Permutations(Names)

VARIABLES tree,    \* what each path names
          ahead,   \* the allocator is ahead of every block in use
          slipped  \* history: a stop in the window left it behind

MCVars == <<disk, mounted, next_free_block, root_entries, res, crashes, tree, ahead, slipped>>

MCInit ==
  /\ Init
  /\ tree = TreeOf(disk, Root)
  /\ ahead = AheadOf(disk, Root, NextFree)
  /\ slipped = FALSE

(* The machine stops when persist_directory_chain has written the root     *)
(* directory and not yet the superblock.                                   *)
StopsInWindow ==
  /\ mounted /\ ~mounted'
  /\ disk'[DIR_BLOCK_INDEX] # disk[DIR_BLOCK_INDEX]
  /\ disk'[0] = disk[0]

MCNext ==
  /\ Next
  /\ IF UNCHANGED <<disk, mounted, next_free_block, root_entries>>
       THEN UNCHANGED <<tree, ahead, slipped>>
       ELSE \E root \in {Root'}, next \in {NextFree'} :
              /\ tree' = TreeOf(disk', root)
              /\ ahead' = AheadOf(disk', root, next)
              /\ slipped' = (slipped \/ (StopsInWindow /\ ~ahead'))

MCSpec == MCInit /\ [][MCNext]_MCVars

Abstract == INSTANCE FileTree

(* The directories TinyFS keeps on the disk behave as a tree: every        *)
(* operation has the answer and the effect the tree gives it, a failed one *)
(* (also one that runs out of blocks half way up its path) has none, and   *)
(* one cut short by a crash has its whole effect or none at the next boot. *)
(* Only an operation that starts with the allocator behind a block in use  *)
(* is excused.                                                             *)
IsFileTree == Abstract!Init /\ [][Abstract!Next \/ ~ahead]_<<tree, res>>

(* No two paths share a block, no block in use is a metadata block, and    *)
(* the allocator is ahead of all of them, now and after a boot, whatever   *)
(* operations failed half way and wherever the machine stopped.  There is  *)
(* one exception: it stopped in the window of persist_directory_chain.     *)
NoSharedBlocks ==
  ~slipped =>
    /\ ahead
    /\ LET used == [p \in Paths |-> Extent(disk, Root, p)]
       IN  \A p, q \in Paths :
             /\ \A b \in used[p] : b >= DATA_START_BLOCK
             /\ p # q => used[p] \intersect used[q] = {}
=============================================================================
