------------------------------ MODULE TinyFs ------------------------------
(***************************************************************************)
(* TinyFS (src/fs.rs): the superblock in block 0, the root directory in    *)
(* block 1, and file data and directories in the blocks after them, handed *)
(* out in order by next_free_block and never taken back.  An operation     *)
(* rewrites every directory on its path into fresh blocks, bottom up, then *)
(* block 1, then block 0.                                                  *)
(*                                                                         *)
(* FS_INSTANCE is locked for a whole operation, so an operation is a step, *)
(* but it reaches the disk one block at a time: the machine may stop after *)
(* any of its writes, and what is on the disk then is what the next boot   *)
(* mounts.                                                                 *)
(*                                                                         *)
(* A data block is a model value and a file is measured in blocks.  A      *)
(* directory is measured in entries and fits one block.  file_count is     *)
(* left out: it is written and never used.                                 *)
(***************************************************************************)
EXTENDS Integers, Sequences, SequencesExt

CONSTANTS Names,         \* names of files and directories
          MaxDepth,      \* bound: names in a path
          Bytes,         \* what a data block can hold
          Lengths,       \* bound: blocks in a file
          TOTAL_BLOCKS,  \* size of the device
          MAX_FILES,     \* entries in the root directory
          MaxCrashes,    \* bound: times the machine stops
          CrashDepth     \* bound: names in a path once the machine has stopped

ASSUME TinyFsAssumption ==
  /\ MaxDepth \in Nat \ {0} /\ Lengths \subseteq Nat
  /\ MaxCrashes \in Nat /\ CrashDepth \in Nat
  /\ TOTAL_BLOCKS \in Nat /\ TOTAL_BLOCKS >= 2 /\ MAX_FILES \in Nat

VARIABLES disk,             \* what each block holds
          mounted,          \* the kernel runs, the two variables below are valid
          next_free_block,  \* of the superblock in memory
          root_entries,     \* the root directory in memory
          res,              \* the answer to the last operation
          crashes           \* times the machine stopped

vars == <<disk, mounted, next_free_block, root_entries, res, crashes>>

DIR_BLOCK_INDEX == 1
DATA_START_BLOCK == 2

Paths == UNION {[1 .. n -> Names] : n \in 1 .. MaxDepth}

(* The content of a block: zeroes, a superblock, directory entries, data.  *)
Blank == [kind |-> "blank", next |-> 0, entries |-> <<>>, data |-> "zero"]
SuperBlock(next) == [Blank EXCEPT !.kind = "super", !.next = next]
DirBlock(entries) == [Blank EXCEPT !.kind = "dir", !.entries = entries]
DataBlock(b) == [Blank EXCEPT !.kind = "data", !.data = b]

Contents == UNION {[1 .. n -> {DataBlock(b) : b \in Bytes}] : n \in Lengths}

FileEntry(name, start, length, kind) ==
  [name |-> name, start_block |-> start, length |-> length, kind |-> kind]

Find(entries, name) ==
  LET at == {k \in DOMAIN entries : entries[k].name = name}
  IN  IF at = {} THEN 0 ELSE Min(at)

---------------------------------------------------------------------------
(* Reading a disk d whose root directory is root.                          *)

ReadData(d, e) == [i \in 1 .. e.length |-> d[e.start_block + i - 1]]

(* Bytes that are not directory entries decode to none (from_raw).         *)
ReadDirectoryEntries(d, e) ==
  IF e.length = 0 THEN <<>>
  ELSE LET all == d[e.start_block].entries
       IN  SubSeq(all, 1, IF e.length < Len(all) THEN e.length ELSE Len(all))

(* The entries of the root and of every directory down the path dirs: the  *)
(* answer and the entries at each depth.                                   *)
LoadDirectoryChain(d, root, dirs) ==
  LET At[i \in 0 .. Len(dirs)] ==
        IF i = 0 THEN [res |-> "Ok", entries |-> root]
        ELSE LET up == At[i - 1]
                 j == Find(up.entries, dirs[i])
             IN  CASE up.res # "Ok" -> up
                   [] up.res = "Ok" /\ j = 0 -> [res |-> "NotFound", entries |-> <<>>]
                   [] up.res = "Ok" /\ j # 0 /\ up.entries[j].kind # "dir" ->
                        [res |-> "NotADirectory", entries |-> <<>>]
                   [] OTHER ->
                        [res |-> "Ok", entries |-> ReadDirectoryEntries(d, up.entries[j])]
  IN  At

(* What the path p names: read_file_contents and list_directory.           *)
Lookup(d, root, p) ==
  LET parent == LoadDirectoryChain(d, root, Front(p))[Len(p) - 1]
      i == Find(parent.entries, Last(p))
      e == parent.entries[i]
  IN  CASE parent.res # "Ok" \/ i = 0 -> [kind |-> "none", data |-> <<>>]
        [] parent.res = "Ok" /\ i # 0 /\ e.kind = "dir" -> [kind |-> "dir", data |-> <<>>]
        [] OTHER -> [kind |-> "file", data |-> ReadData(d, e)]

---------------------------------------------------------------------------
(* An operation in progress: its answer so far, the superblock and the     *)
(* entries it works on, the blocks it has written, and where it put the    *)
(* last thing it allocated room for.                                       *)
Begin == [res |-> "Ok", next |-> next_free_block, writes |-> <<>>,
          start |-> 0, entries |-> root_entries]

(* A faulty variant: blocks are counted before there is room.              *)
AllocateAndWrite_CountsFirst(op, blocks) ==
  CASE blocks = <<>> -> [op EXCEPT !.start = 0]
    [] blocks # <<>> /\ op.next + Len(blocks) > TOTAL_BLOCKS ->
         [op EXCEPT !.res = "NoSpace", !.next = @ + Len(blocks)]
    [] OTHER -> [op EXCEPT !.start = op.next, !.next = @ + Len(blocks),
          !.writes = @ \o [i \in 1 .. Len(blocks) |-> <<op.next + i - 1, blocks[i]>>]]

AllocateAndWrite(op, blocks) ==
  CASE blocks = <<>> -> [op EXCEPT !.start = 0]
    [] blocks # <<>> /\ op.next + Len(blocks) > TOTAL_BLOCKS -> [op EXCEPT !.res = "NoSpace"]
    [] OTHER -> [op EXCEPT
         !.start = op.next,
         !.next = @ + Len(blocks),
         !.writes = @ \o [i \in 1 .. Len(blocks) |-> <<op.next + i - 1, blocks[i]>>]]

WriteDirectoryEntries(op, entries) ==
  AllocateAndWrite(op, IF entries = <<>> THEN <<>> ELSE <<DirBlock(entries)>>)

(* The first part of persist_directory_chain: gives the last directory of  *)
(* the chain its entries and stores the chain, bottom up.  A level that    *)
(* finds no room ends the operation with what it has written and allocated *)
(* so far.                                                                 *)
StoreChain(op, dirs, entries) ==
  LET chain == LoadDirectoryChain(disk, root_entries, dirs)
      Level[i \in 0 .. Len(dirs)] ==
        IF i = Len(dirs) THEN [op EXCEPT !.entries = entries]
        ELSE LET below == Level[i + 1]
                 put == WriteDirectoryEntries(below, below.entries)
                 here == chain[i].entries
                 j == Find(here, dirs[i + 1])
             IN  CASE below.res # "Ok" -> below
                   [] below.res = "Ok" /\ put.res # "Ok" -> put
                   [] OTHER -> [put EXCEPT !.entries =
                                  [here EXCEPT ![j].start_block = put.start,
                                               ![j].length = Len(below.entries)]]
  IN  Level[0]

(* Two faulty variants: the superblock is not written, and the root        *)
(* directory is written before what it points to.                          *)
PersistDirectoryChain_NoSuperblock(op, dirs, entries) ==
  LET top == StoreChain(op, dirs, entries)
  IN  IF top.res # "Ok" THEN top
      ELSE [top EXCEPT !.writes = Append(@, <<DIR_BLOCK_INDEX, DirBlock(top.entries)>>)]

PersistDirectoryChain_RootFirst(op, dirs, entries) ==
  LET top == StoreChain(op, dirs, entries)
  IN  IF top.res # "Ok" THEN top
      ELSE [top EXCEPT !.writes = <<<<DIR_BLOCK_INDEX, DirBlock(top.entries)>>,
                                    <<0, SuperBlock(top.next)>>>> \o @]

(* All of it: the root directory goes to its block, then the superblock.   *)
PersistDirectoryChain(op, dirs, entries) ==
  LET top == StoreChain(op, dirs, entries)
  IN  IF top.res # "Ok" THEN top
      ELSE [top EXCEPT !.writes = @ \o <<<<DIR_BLOCK_INDEX, DirBlock(top.entries)>>,
                                         <<0, SuperBlock(top.next)>>>>]

Answer(op, r) == [op EXCEPT !.res = r]

Parent(p) == LoadDirectoryChain(disk, root_entries, Front(p))[Len(p) - 1]

RootIsFull(p) == Len(p) = 1 /\ Len(root_entries) >= MAX_FILES

(* write_file_contents: the data is stored before the entry is examined.   *)
WriteFileContents(p, contents) ==
  LET parent == Parent(p)
      i == Find(parent.entries, Last(p))
      put == AllocateAndWrite(Begin, contents)
      entry == FileEntry(Last(p), put.start, Len(contents), "file")
  IN  CASE parent.res # "Ok" -> Answer(Begin, parent.res)
        [] parent.res = "Ok" /\ i = 0 /\ RootIsFull(p) -> Answer(Begin, "DirectoryFull")
        [] parent.res = "Ok" /\ ~(i = 0 /\ RootIsFull(p)) /\ put.res # "Ok" -> put
        [] parent.res = "Ok" /\ put.res = "Ok" /\ i # 0 /\ parent.entries[i].kind # "file" ->
             Answer(put, "NotADirectory")
        [] OTHER -> PersistDirectoryChain(put, Front(p),
             IF i = 0 THEN Append(parent.entries, entry)
             ELSE [parent.entries EXCEPT ![i] = entry])

(* create_file and create_directory, which differ in the kind.             *)
Create(p, kind) ==
  LET parent == Parent(p)
  IN  CASE parent.res # "Ok" -> Answer(Begin, parent.res)
        [] parent.res = "Ok" /\ Find(parent.entries, Last(p)) # 0 ->
             Answer(Begin, "AlreadyExists")
        [] parent.res = "Ok" /\ Find(parent.entries, Last(p)) = 0 /\ RootIsFull(p) ->
             Answer(Begin, "DirectoryFull")
        [] OTHER -> PersistDirectoryChain(Begin, Front(p),
             Append(parent.entries, FileEntry(Last(p), 0, 0, kind)))

RemoveFile(p) ==
  LET parent == Parent(p)
      i == Find(parent.entries, Last(p))
  IN  CASE parent.res # "Ok" -> Answer(Begin, parent.res)
        [] parent.res = "Ok" /\ i = 0 -> Answer(Begin, "NotFound")
        [] parent.res = "Ok" /\ i # 0 /\ parent.entries[i].kind # "file" ->
             Answer(Begin, "IsDirectory")
        [] OTHER -> PersistDirectoryChain(Begin, Front(p), RemoveAt(parent.entries, i))

RemoveDirectory(p) ==
  LET parent == Parent(p)
      i == Find(parent.entries, Last(p))
      e == parent.entries[i]
  IN  CASE parent.res # "Ok" -> Answer(Begin, parent.res)
        [] parent.res = "Ok" /\ i = 0 -> Answer(Begin, "NotFound")
        [] parent.res = "Ok" /\ i # 0 /\ e.kind # "dir" -> Answer(Begin, "IsFile")
        [] parent.res = "Ok" /\ i # 0 /\ e.kind = "dir"
           /\ ReadDirectoryEntries(disk, e) # <<>> -> Answer(Begin, "DirectoryNotEmpty")
        [] OTHER -> PersistDirectoryChain(Begin, Front(p), RemoveAt(parent.entries, i))

---------------------------------------------------------------------------
(* The disk after the writes: the last one to a block is what it holds.    *)
After(writes) ==
  [b \in DOMAIN disk |->
     LET to == {k \in DOMAIN writes : writes[k][1] = b}
     IN  IF to = {} THEN disk[b] ELSE writes[Max(to)][2]]

(* The machine stops.                                                      *)
Stop ==
  /\ crashes < MaxCrashes
  /\ crashes' = crashes + 1
  /\ mounted' = FALSE /\ next_free_block' = 0 /\ root_entries' = <<>>
  /\ res' = "Crash"

(* It stops when the first k of the writes are on the disk.                *)
Crash(writes) == \E k \in 1 .. Len(writes) : disk' = After(SubSeq(writes, 1, k)) /\ Stop

(* It stops before the first write of an operation, or between two.        *)
StopIdle == disk' = disk /\ Stop

Complete(writes, next, root, r) ==
  /\ disk' = After(writes)
  /\ mounted' = TRUE /\ next_free_block' = next /\ root_entries' = root
  /\ res' = r
  /\ UNCHANGED crashes

(* A faulty variant: a failed operation keeps the entries it worked on.    *)
Perform_KeepsEntries(result) ==
  /\ mounted
  /\ \E op \in {result} :
       \/ Complete(op.writes, op.next, op.entries, op.res)
       \/ Crash(op.writes)

(* An operation that fails leaves root_entries alone.                      *)
Perform(result) ==
  /\ mounted
  /\ \E op \in {result} :
     \/ Complete(op.writes, op.next, IF op.res = "Ok" THEN op.entries ELSE root_entries, op.res)
     \/ Crash(op.writes)

FormatWrites == <<<<0, Blank>>, <<DIR_BLOCK_INDEX, Blank>>,
                  <<DIR_BLOCK_INDEX, DirBlock(<<>>)>>, <<0, SuperBlock(DATA_START_BLOCK)>>>>

FormatDisk ==
  \/ Complete(FormatWrites, DATA_START_BLOCK, <<>>, "Mounted")
  \/ Crash(FormatWrites)

(* load_or_format, at boot.                                                *)
Mount ==
  /\ ~mounted
  /\ IF disk[0].kind # "super" THEN FormatDisk
     ELSE Complete(<<>>, disk[0].next, disk[DIR_BLOCK_INDEX].entries, "Mounted")

Init ==
  /\ disk = [b \in 0 .. TOTAL_BLOCKS - 1 |-> Blank]
  /\ mounted = FALSE /\ next_free_block = 0 /\ root_entries = <<>>
  /\ res = "Crash" /\ crashes = 0

Reached == {p \in Paths : crashes > 0 => Len(p) <= CrashDepth}

Next ==
  \/ Mount
  \/ StopIdle
  \/ \E p \in Reached :
       \/ \E c \in Contents : Perform(WriteFileContents(p, c))
       \/ Perform(Create(p, "file"))
       \/ Perform(Create(p, "dir"))
       \/ Perform(RemoveFile(p))
       \/ Perform(RemoveDirectory(p))

Spec == Init /\ [][Next]_vars

---------------------------------------------------------------------------
(* The root directory and the superblock the kernel works with, or would   *)
(* mount if it booted now.                                                 *)
Formatted == disk[0].kind = "super"
Root == CASE mounted -> root_entries
          [] ~mounted /\ Formatted -> disk[DIR_BLOCK_INDEX].entries
          [] OTHER -> <<>>
NextFree == CASE mounted -> next_free_block
              [] ~mounted /\ Formatted -> disk[0].next
              [] OTHER -> DATA_START_BLOCK

TreeOf(d, root) == [p \in Paths |-> Lookup(d, root, p)]

(* The blocks that the entry of the path p points to.                      *)
Extent(d, root, p) ==
  LET parent == LoadDirectoryChain(d, root, Front(p))[Len(p) - 1]
      i == Find(parent.entries, Last(p))
      e == parent.entries[i]
  IN  IF i = 0 THEN {}
      ELSE LET blocks == IF e.kind = "dir" /\ e.length > 0 THEN 1 ELSE e.length
           IN  e.start_block .. e.start_block + blocks - 1

(* The allocator is ahead of every block in use.                           *)
AheadOf(d, root, next) == \A p \in Paths : \A b \in Extent(d, root, p) : b < next

(* The device, the superblock and the copies the kernel keeps of it have    *)
(* the shape that init, flush_root_directory and flush_superblock give them.*)
TypeOK ==
  /\ DOMAIN disk = 0 .. TOTAL_BLOCKS - 1
  /\ \A b \in DOMAIN disk : disk[b].kind \in {"blank", "super", "dir", "data"}
  /\ mounted \in BOOLEAN
  /\ next_free_block \in 0 .. TOTAL_BLOCKS
  /\ \A e \in Range(root_entries) : e.name \in Names /\ e.kind \in {"file", "dir"}
  /\ crashes \in 0 .. MaxCrashes

(* What is in memory is what the next boot finds, but for blocks that      *)
(* failed operations took and that nothing uses.                           *)
MemoryMatchesDisk ==
  mounted => /\ root_entries = disk[DIR_BLOCK_INDEX].entries
             /\ disk[0].kind = "super" /\ disk[0].next <= next_free_block
=============================================================================
