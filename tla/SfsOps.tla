------------------------------- MODULE SfsOps -------------------------------
(***************************************************************************)
(* The operations of real_sfs_ops.c on the two structures they share: the  *)
(* entry table on the partition and the used-block tracker in memory.      *)
(* They are operators on those values; RealSfs turns them into handlers.   *)
(*                                                                         *)
(* Abstracted: bytes of data, permissions and timestamps.  Kept: names and *)
(* how they are shortened, sizes in bytes, and every block pointer.        *)
(***************************************************************************)
EXTENDS Integers

CONSTANTS PartitionSize,  \* blocks of the partition
          DataStart,      \* sb.data_block_start: super block and entry table come before
          EntryCount,     \* sb.entry_count
          BlockCnt,       \* SIMULA_FS_DATA_BLOCK_CNT, block pointers of an entry
          BlockSize,      \* bytes of a block
          Names,          \* file names programs use
          NoName,         \* the name of a free entry, name[0] == 0
          Stored          \* Stored[n]: the (at most 15 character) name kept on disk for n

ASSUME LayoutAssumption ==
  /\ PartitionSize \in Nat /\ DataStart \in 1..PartitionSize
  /\ EntryCount \in Nat /\ BlockCnt \in Nat \ {0} /\ BlockSize \in Nat \ {0}

ASSUME NamesAssumption ==
  /\ NoName \notin Names
  /\ Stored \in [Names -> Names]
  /\ \A n \in Names : Stored[Stored[n]] = Stored[n]

-----------------------------------------------------------------------------
Blocks     == 0..(PartitionSize - 1)
MetaBlocks == 0..(DataStart - 1)
DataBlocks == DataStart..(PartitionSize - 1)
Slots      == 0..(EntryCount - 1)
Idx        == 0..(BlockCnt - 1)
Pointers   == DataBlocks \cup {0}
MaxSize    == BlockCnt * BlockSize

\* sfs_file_entry_t
Entry == [name : Names \cup {NoName}, size : 0..MaxSize, blocks : [Idx -> Pointers]]

NoBlocks == [i \in Idx |-> 0]

\* The memset(0) entry of sfs_remove and of format_real_sfs.c
EmptyEntry == [name |-> NoName, size |-> 0, blocks |-> NoBlocks]

Live(e) == e.name # NoName

\* x is what an ascending scan for a member of S stops at
IsFirst(x, S) == x \in S /\ \A y \in S : x <= y

\* Every block the entry points to
Held(e) == {e.blocks[i] : i \in Idx} \ {0}

\* Variant: the loop stops one short
ChainButLast(e) ==
  {e.blocks[i] : i \in {j \in Idx : \A k \in 0..(j + 1) : k \in Idx /\ e.blocks[k] # 0}}

\* The blocks met by the loops that stop at the first null pointer
Chain(e) ==
  {e.blocks[i] : i \in {j \in Idx : \A k \in 0..j : e.blocks[k] # 0}}

LiveSlots(table)      == {s \in Slots : Live(table[s])}
FreeSlots(table)      == {s \in Slots : ~Live(table[s])}

\* Variant: the scan stops one entry short
SlotsNamedButLast(table, fn) ==
  {s \in Slots : s + 1 \in Slots /\ Live(table[s]) /\ table[s].name = fn}

\* sfs_lookup and the duplicate test of sfs_create compare the stored names
\* with the whole name asked for
SlotsNamed(table, fn) == {s \in Slots : Live(table[s]) /\ table[s].name = fn}

\* Variant: the marking loop leaves out the first block of every file
MarkedAfterFirst(table) ==
  MetaBlocks \cup UNION {Chain(table[s]) \ {table[s].blocks[0]} : s \in LiveSlots(table)}

\* init_browsing rebuilds the tracker from the table
MarkedBlocks(table) ==
  MetaBlocks \cup UNION {Chain(table[s]) : s \in LiveSlots(table)}

\* Variant: the scan's bound is <= partition_size
FreeBlocksPastEnd(used) == (DataStart..PartitionSize) \ used

\* sfs_get_data_block scans these, in ascending order
FreeBlocks(used) == DataBlocks \ used

\* Variant: rounded down
BlocksNeededFloor(size) == size \div BlockSize

\* Block pointers an entry of this size needs
BlocksNeeded(size) == (size + BlockSize - 1) \div BlockSize

\* sfs_create: the fresh entry
NewEntry(fn) == [name |-> Stored[fn], size |-> 0, blocks |-> NoBlocks]

\* Variant: the pointers are kept
ResizedKeeping(e, size) == [e EXCEPT !.size = size]

\* sfs_update: the new size, and the pointers past it dropped
Resized(e, size) ==
  [e EXCEPT !.size = size,
            !.blocks = [i \in Idx |-> IF i >= BlocksNeeded(size) THEN 0 ELSE e.blocks[i]]]

\* Variant: the blocks are not given back
CutOffNothing(e, size) == {}

\* sfs_update: the blocks those pointers gave back
CutOff(e, size) == {e.blocks[i] : i \in {j \in Idx : j >= BlocksNeeded(size)}} \ {0}
=============================================================================
