------------------------------- MODULE RealSfs -------------------------------
(***************************************************************************)
(* The mounted Simula file system of RealSFSInAction: the handlers of      *)
(* real_sfs.c, as the VFS calls them, over the entry table and the         *)
(* used-block tracker.  Each handler is one step here; what several of     *)
(* them running at once do to each other is SfsRace.                       *)
(*                                                                         *)
(* The VFS is external: its dentry cache, its in-memory inodes, the buffers*)
(* mapped to blocks, the flusher thread, and the locks it holds (the       *)
(* directory's mutex around lookup, create and unlink; the file's around   *)
(* write and truncate).  Workload names what programs and the flusher do   *)
(* beyond the plainest use:                                                *)
(*   "seek"        a program writes past the end, or grows a file;         *)
(*   "mid_write"   the flusher writes an inode between write_begin and     *)
(*                 write_end;                                              *)
(*   "unlink_open" a file is removed while open;                           *)
(*   "copy_fault"  the copy between write_begin and write_end copies 0.    *)
(* and "read_error" lets the reads of the entry table fail, any time.  The *)
(* write that ends a handler goes to a block just read, and succeeds here; *)
(* SfsRace has the others.                                                 *)
(***************************************************************************)
EXTENDS SfsOps

CONSTANTS Objs,      \* in-memory inode objects
          NoInode,   \* an object that is not in use
          Uncached,  \* no dentry for the name
          Negative,  \* a dentry that says the file does not exist
          NoWrite,   \* no write is between write_begin and write_end
          Workload

ASSUME WorkloadAssumption ==
  Workload \subseteq {"seek", "mid_write", "unlink_open", "copy_fault", "read_error"}

ReadFails == "read_error" \in Workload

VARIABLES table,    \* the entry table on the partition
          used,     \* info->used_blocks, as the set of blocks marked
          mounted,
          dcache,   \* Names -> dentry
          inodes,   \* Objs -> in-memory inode
          writing   \* Objs -> block index between write_begin and write_end

vars == <<table, used, mounted, dcache, inodes, writing>>

Inode == [slot : Slots, size : 0..MaxSize, linked : BOOLEAN, hashed : BOOLEAN,
          open : BOOLEAN, dirty : BOOLEAN, mapped : [Idx -> Pointers]]

ASSUME ValuesAssumption ==
  /\ Uncached \notin Objs /\ Negative \notin Objs /\ Uncached # Negative
  /\ NoWrite \notin Idx /\ NoInode \notin Inode

IsInode(o) == inodes[o] # NoInode

-----------------------------------------------------------------------------
(* VFS helpers *)

\* Variant: lookup and create never find an inode in the cache
HashedAtNone(s) == {}

HashedAt(s) == {o \in Objs : IsInode(o) /\ inodes[o].hashed /\ inodes[o].slot = s}

NewInode(s, size, hashed) ==
  [slot |-> s, size |-> size, linked |-> TRUE, hashed |-> hashed,
   open |-> FALSE, dirty |-> FALSE, mapped |-> NoBlocks]

\* Variant: the inode is not marked
DirtiedNot(ino) == ino

\* mark_inode_dirty ignores an inode that is not hashed
Dirtied(ino) == [ino EXCEPT !.dirty = ino.hashed]

\* iput: the last reference to an unlinked or unhashed inode discards it
Dropped(ino, o, dc) ==
  IF ~ino.open /\ (~ino.linked \/ ~ino.hashed) /\ \A n \in Names : dc[n] # o
    THEN NoInode
    ELSE ino

-----------------------------------------------------------------------------
\* format_real_sfs: a super block and an empty table
Init ==
  /\ table = [s \in Slots |-> EmptyEntry]
  /\ used = {}
  /\ mounted = FALSE
  /\ dcache = [n \in Names |-> Uncached]
  /\ inodes = [o \in Objs |-> NoInode]
  /\ writing = [o \in Objs |-> NoWrite]

\* sfs_fill_super and init_browsing
Mount ==
  /\ ~mounted
  /\ mounted' = TRUE
  /\ used' = MarkedBlocks(table)
  /\ UNCHANGED <<table, dcache, inodes, writing>>

\* What unmounting can leave in an entry: as it was, or with the size of an
\* inode that was still to be written
Leftover(s) ==
  {table[s]} \cup {Resized(table[s], inodes[o].size) :
                    o \in {p \in Objs : IsInode(p) /\ inodes[p].dirty /\ inodes[p].slot = s}}

\* sfs_kill_sb frees the tracker and info before kill_block_super makes
\* sfs_write_inode use them: each unsaved size still gets there, or is lost with
\* the process that unmounts.  What others wrote to the freed memory, and so
\* where such a write could go, is left out.
Unmount ==
  /\ mounted
  /\ \A o \in Objs : IsInode(o) => ~inodes[o].open
  /\ table' \in {t \in [Slots -> UNION {Leftover(s) : s \in Slots}] :
                  \A s \in Slots : t[s] \in Leftover(s)}
  /\ mounted' = FALSE
  /\ used' = {}
  /\ dcache' = [n \in Names |-> Uncached]
  /\ inodes' = [o \in Objs |-> NoInode]
  /\ UNCHANGED writing

-----------------------------------------------------------------------------
(* Directory handlers, under the directory's mutex *)

\* sfs_inode_lookup, called for a name without a dentry; sfs_lookup answers -1
\* for a name it did not find and for a read that failed on the way
Lookup(n) ==
  /\ mounted
  /\ dcache[n] = Uncached
  /\ \/ /\ SlotsNamed(table, n) = {} \/ ReadFails
        /\ dcache' = [dcache EXCEPT ![n] = Negative]
        /\ UNCHANGED inodes
     \/ \E s \in Slots :
          /\ IsFirst(s, SlotsNamed(table, n))
          /\ \/ \E o \in HashedAt(s) :
                  /\ dcache' = [dcache EXCEPT ![n] = o]
                  /\ UNCHANGED inodes
             \/ /\ HashedAt(s) = {}
                /\ \E o \in Objs :
                     /\ ~IsInode(o)
                     /\ inodes' = [inodes EXCEPT ![o] = NewInode(s, table[s].size, TRUE)]
                     /\ dcache' = [dcache EXCEPT ![n] = o]
  /\ UNCHANGED <<table, used, mounted, writing>>

\* Variant: no test for the name
NotThereUnchecked(n) == TRUE

\* The duplicate test of sfs_create
NotThere(n) == SlotsNamed(table, n) = {}

\* sfs_inode_create, called on a negative dentry; insert_inode_locked fails,
\* unnoticed, when an inode of that number is still hashed
Create(n) ==
  /\ mounted
  /\ dcache[n] = Negative
  /\ NotThere(n)
  /\ \E s \in Slots, o \in Objs :
       /\ IsFirst(s, FreeSlots(table))
       /\ ~IsInode(o)
       /\ table' = [table EXCEPT ![s] = NewEntry(n)]
       /\ inodes' = [inodes EXCEPT ![o] = NewInode(s, 0, HashedAt(s) = {})]
       /\ dcache' = [dcache EXCEPT ![n] = o]
  /\ UNCHANGED <<used, mounted, writing>>

\* sfs_inode_create when new_inode fails: sfs_remove looks the name up again,
\* and finds the fresh entry only if the name was stored whole and can be read
CreateUndone(n) ==
  /\ mounted
  /\ dcache[n] = Negative
  /\ NotThere(n)
  /\ \E s \in Slots :
       /\ IsFirst(s, FreeSlots(table))
       /\ \/ Stored[n] = n /\ table' = [table EXCEPT ![s] = EmptyEntry]
          \/ /\ Stored[n] # n \/ ReadFails
             /\ table' = [table EXCEPT ![s] = NewEntry(n)]
  /\ UNCHANGED <<used, mounted, dcache, inodes, writing>>

\* sfs_inode_unlink and the VFS's d_delete and iput
Unlink(n) ==
  /\ mounted
  /\ dcache[n] \in Objs
  /\ LET o  == dcache[n]
         dc == [dcache EXCEPT ![n] = IF inodes[o].open THEN Uncached ELSE Negative]
     IN /\ inodes[o].open => "unlink_open" \in Workload
        /\ \E s \in Slots :
             /\ IsFirst(s, SlotsNamed(table, n))
             /\ used' = used \ Chain(table[s])
             /\ table' = [table EXCEPT ![s] = EmptyEntry]
        /\ dcache' = dc
        /\ inodes' = [inodes EXCEPT
             ![o] = Dropped([Dirtied(inodes[o]) EXCEPT !.linked = FALSE], o, dc)]
  /\ UNCHANGED <<mounted, writing>>
-----------------------------------------------------------------------------
(* File handlers.  Opens and closes of one inode are counted as one open. *)

Open(n) ==
  /\ dcache[n] \in Objs
  /\ ~inodes[dcache[n]].open
  /\ inodes' = [inodes EXCEPT ![dcache[n]].open = TRUE]
  /\ UNCHANGED <<table, used, mounted, dcache, writing>>

Close(o) ==
  /\ IsInode(o) /\ inodes[o].open
  /\ writing[o] = NoWrite
  /\ inodes' = [inodes EXCEPT ![o] = Dropped([inodes[o] EXCEPT !.open = FALSE], o, dcache)]
  /\ UNCHANGED <<table, used, mounted, dcache, writing>>

\* sfs_get_block with create set: b is the block of index i, allocated if the
\* entry has none
GetBlock(o, i, b) ==
  LET s == inodes[o].slot
  IN \/ /\ b = table[s].blocks[i] /\ b # 0
        /\ UNCHANGED <<table, used>>
     \/ /\ table[s].blocks[i] = 0
        /\ IsFirst(b, FreeBlocks(used))
        /\ table' = [table EXCEPT ![s].blocks[i] = b]
        /\ used' = used \cup {b}

\* The blocks sfs_get_block can return
Reachable(o) == FreeBlocks(used) \cup Held(table[inodes[o].slot])

CanWrite(o, i) ==
  /\ IsInode(o) /\ inodes[o].open
  /\ writing[o] = NoWrite
  /\ "seek" \in Workload \/ i * BlockSize <= inodes[o].size

\* file_update_time, before write_begin: the time may not have moved
Touched(o) == {inodes[o], Dirtied(inodes[o])}

\* sfs_write_begin: block_write_begin maps the buffer unless it is mapped already
WriteBegin(o, i) ==
  /\ CanWrite(o, i)
  /\ writing' = [writing EXCEPT ![o] = i]
  /\ \E ino \in Touched(o) :
       \/ /\ inodes[o].mapped[i] # 0
          /\ inodes' = [inodes EXCEPT ![o] = ino]
          /\ UNCHANGED <<table, used>>
       \/ /\ inodes[o].mapped[i] = 0
          /\ \E b \in Reachable(o) :
               /\ GetBlock(o, i, b)
               /\ inodes' = [inodes EXCEPT ![o] = [ino EXCEPT !.mapped[i] = b]]
  /\ UNCHANGED <<mounted, dcache>>

\* block_write_begin unmaps what a failed write had mapped past the end
UnmapPast(mapped, size) ==
  [i \in Idx |-> IF i >= BlocksNeeded(size) THEN 0 ELSE mapped[i]]

\* sfs_get_block with create set fails for block i: past the last pointer, with
\* no block free, or because the entry cannot be read
Refused(o, i, busy) ==
  i \in Idx => /\ inodes[o].mapped[i] = 0
              /\ \/ ReadFails
                 \/ table[inodes[o].slot].blocks[i] = 0 /\ FreeBlocks(busy) = {}

\* sfs_write_begin of a range that starts in block i, and ends in the next:
\* get_block succeeds for the one and fails for the other
WriteFails(o, i) ==
  /\ CanWrite(o, i)
  /\ inodes[o].mapped[i] = 0
  /\ \E b \in Reachable(o), ino \in Touched(o) :
       /\ GetBlock(o, i, b)
       /\ Refused(o, i + 1, used')
       /\ inodes' = [inodes EXCEPT
            ![o] = [ino EXCEPT !.mapped = UnmapPast([@ EXCEPT ![i] = b], ino.size)]]
  /\ UNCHANGED <<mounted, dcache, writing>>

\* The same with block i refused, or mapped already: no block is taken
WriteRefused(o, i) ==
  /\ CanWrite(o, i)
  /\ Refused(o, IF i \in Idx /\ inodes[o].mapped[i] # 0 THEN i + 1 ELSE i, used)
  /\ \E ino \in Touched(o) :
       inodes' = [inodes EXCEPT ![o] = [ino EXCEPT !.mapped = UnmapPast(@, ino.size)]]
  /\ UNCHANGED <<table, used, mounted, dcache, writing>>

\* generic_write_end, after r bytes of the block were copied
WriteEnd(o, r) ==
  /\ writing[o] # NoWrite
  /\ r = 0 => "copy_fault" \in Workload
  /\ LET end == writing[o] * BlockSize + r
     IN inodes' = [inodes EXCEPT
          ![o] = IF r > 0 /\ end > @.size THEN [Dirtied(@) EXCEPT !.size = end] ELSE @]
  /\ writing' = [writing EXCEPT ![o] = NoWrite]
  /\ UNCHANGED <<table, used, mounted, dcache>>

\* sfs_readpage: sfs_get_block without create
ReadBlock(o, i) ==
  /\ IsInode(o) /\ inodes[o].open
  /\ i < BlocksNeeded(inodes[o].size)
  /\ inodes[o].mapped[i] = 0
  /\ table[inodes[o].slot].blocks[i] # 0
  /\ inodes' = [inodes EXCEPT ![o].mapped[i] = table[inodes[o].slot].blocks[i]]
  /\ UNCHANGED <<table, used, mounted, dcache, writing>>

\* The VFS's simple truncation: the file system has no truncate of its own
Truncate(o, size) ==
  /\ IsInode(o) /\ inodes[o].open
  /\ writing[o] = NoWrite
  /\ size # inodes[o].size
  /\ size > inodes[o].size => "seek" \in Workload
  /\ inodes' = [inodes EXCEPT
       ![o] = [Dirtied(@) EXCEPT !.size = size, !.mapped = UnmapPast(inodes[o].mapped, size)]]
  /\ UNCHANGED <<table, used, mounted, dcache, writing>>

-----------------------------------------------------------------------------
(* The flusher and memory reclaim *)

\* sfs_write_inode: when the entry cannot be read the inode still counts as
\* written
WriteInode(o) ==
  /\ IsInode(o) /\ inodes[o].dirty
  /\ writing[o] # NoWrite => "mid_write" \in Workload
  /\ LET s == inodes[o].slot
         size == inodes[o].size
     IN \/ /\ table' = [table EXCEPT ![s] = Resized(@, size)]
           /\ used' = used \ CutOff(table[s], size)
        \/ ReadFails /\ UNCHANGED <<table, used>>
  /\ inodes' = [inodes EXCEPT ![o].dirty = FALSE]
  /\ UNCHANGED <<mounted, dcache, writing>>

\* Clean pages are reclaimed and their buffers with them
DropPages(o) ==
  /\ IsInode(o)
  /\ writing[o] = NoWrite
  /\ inodes' = [inodes EXCEPT ![o].mapped = NoBlocks]
  /\ UNCHANGED <<table, used, mounted, dcache, writing>>

ReclaimDentry(n) ==
  /\ \/ dcache[n] = Negative
     \/ dcache[n] \in Objs /\ ~inodes[dcache[n]].open
  /\ LET dc == [dcache EXCEPT ![n] = Uncached]
     IN /\ dcache' = dc
        /\ inodes' = [o \in Objs |-> IF o = dcache[n] THEN Dropped(inodes[o], o, dc)
                                                    ELSE inodes[o]]
  /\ UNCHANGED <<table, used, mounted, writing>>

EvictInode(o) ==
  /\ IsInode(o) /\ ~inodes[o].open /\ ~inodes[o].dirty
  /\ \A n \in Names : dcache[n] # o
  /\ inodes' = [inodes EXCEPT ![o] = NoInode]
  /\ UNCHANGED <<table, used, mounted, dcache, writing>>

-----------------------------------------------------------------------------
Directory == \E n \in Names :
  Lookup(n) \/ Create(n) \/ CreateUndone(n) \/ Unlink(n) \/ Open(n) \/ ReclaimDentry(n)

FileIO == \E o \in Objs :
  \/ Close(o)
  \/ \E i \in Idx : WriteBegin(o, i) \/ WriteFails(o, i) \/ ReadBlock(o, i)
  \/ \E i \in 0..BlockCnt : WriteRefused(o, i)
  \/ \E r \in 0..BlockSize : WriteEnd(o, r)
  \/ \E size \in 0..MaxSize : Truncate(o, size)

Background == \E o \in Objs : WriteInode(o) \/ DropPages(o) \/ EvictInode(o)

Next == Mount \/ Unmount \/ Directory \/ FileIO \/ Background

Spec == Init /\ [][Next]_vars

-----------------------------------------------------------------------------
(* What holds in every workload *)

TypeOK ==
  /\ table \in [Slots -> Entry]
  /\ used \in SUBSET Blocks
  /\ mounted \in BOOLEAN
  /\ dcache \in [Names -> Objs \cup {Uncached, Negative}]
  /\ inodes \in [Objs -> Inode \cup {NoInode}]
  /\ writing \in [Objs -> Idx \cup {NoWrite}]
  /\ \A n \in Names : dcache[n] \in Objs => IsInode(dcache[n])
  /\ \A o \in Objs : writing[o] # NoWrite => IsInode(o) /\ inodes[o].open
  /\ ~mounted => \A o \in Objs : ~IsInode(o)

\* Lookup and create look a slot's inode up by number before making one, so no
\* entry has two hashed inodes, whose writes would undo each other's
OneInodePerFile ==
  \A o, p \in Objs :
    IsInode(o) /\ IsInode(p) /\ inodes[o].hashed /\ inodes[p].hashed
      /\ inodes[o].slot = inodes[p].slot => o = p

-----------------------------------------------------------------------------
(* What holds while programs and the flusher do the plainest only *)

\* The tracker marks the metadata and exactly the blocks entries point to: put
\* in sfs_remove and sfs_update, and get in sfs_get_block, leave nothing behind
\* and give nothing back early
AccountingExact ==
  mounted => used = MetaBlocks \cup UNION {Held(table[s]) : s \in Slots}

\* No block belongs to two files, or twice to one
NoCrossLink ==
  \A s, t \in Slots : \A i, j \in Idx :
    table[s].blocks[i] # 0 /\ table[s].blocks[i] = table[t].blocks[j] => s = t /\ i = j

\* What init_browsing would rebuild at any moment is what the tracker says
RemountAgrees == mounted => used = MarkedBlocks(table)

\* A buffer writes to the block the entry names: no write lands in a block that
\* sfs_update or sfs_remove already gave back
MappedOwned ==
  \A o \in Objs, i \in Idx :
    IsInode(o) /\ inodes[o].mapped[i] # 0
      => table[inodes[o].slot].blocks[i] = inodes[o].mapped[i]

\* sfs_get_block without create finds a block for every byte below i_size
ReadableBelowSize ==
  \A o \in Objs, i \in Idx :
    IsInode(o) /\ i * BlockSize < inodes[o].size => table[inodes[o].slot].blocks[i] # 0

\* A cached dentry says what a lookup in the table would say: while the table
\* can be read the duplicate test of sfs_create never fires
DentryTruth ==
  \A n \in Names :
    /\ dcache[n] = Negative => SlotsNamed(table, n) = {}
    /\ dcache[n] \in Objs => SlotsNamed(table, n) = {inodes[dcache[n]].slot}

\* An inode whose size is not the one on the partition is going to be written:
\* only unmounting can lose it
SizeWillBeSaved ==
  \A o \in Objs :
    IsInode(o) /\ ~inodes[o].dirty => table[inodes[o].slot].size = inodes[o].size

\* A step never changes a file's block for another one
BlocksStay ==
  [][\A s \in Slots, i \in Idx :
       table[s].blocks[i] # 0 => table'[s].blocks[i] \in {0, table[s].blocks[i]}]_vars
\* The tracker and the table together are a pool of blocks: allocating, freeing,
\* unmounting and mounting again move a block between free and one file only
Pool == INSTANCE BlockPool WITH
  Owners <- Slots, Pool <- DataBlocks,
  owned  <- [s \in Slots |-> Held(table[s])],
  free   <- FreeBlocks(IF mounted THEN used ELSE MarkedBlocks(table))

PoolSpec == Pool!Spec

\* The size a program sees: the inode's if one is cached, else the entry's
SlotOf(n)  == CHOOSE s \in Slots : IsFirst(s, SlotsNamed(table, n))
InodeOf(s) == CHOOSE o \in Objs : o \in HashedAt(s)

SeenSize(n) ==
  IF SlotsNamed(table, n) = {} THEN Negative
  ELSE IF HashedAt(SlotOf(n)) = {} THEN table[SlotOf(n)].size
       ELSE inodes[InodeOf(SlotOf(n))].size

\* The size the partition has
KeptSize(n) == IF SlotsNamed(table, n) = {} THEN Negative ELSE table[SlotOf(n)].size

\* No size says that there is no file
ASSUME NegativeAssumption == Negative \notin 0..MaxSize

\* Programs see names and sizes only: what lookups, evictions and the flusher do
\* to the dentry cache, the inodes and the table never shows, and unmounting
\* shows as sizes that fall back to the last ones saved
Store == INSTANCE FileStore WITH
  FileNames <- Names, Sizes <- 0..MaxSize, Fresh <- 0, Absent <- Negative,
  size   <- [n \in Names |-> SeenSize(n)],
  kept   <- [n \in Names |-> KeptSize(n)],
  opened <- {n \in Names : dcache[n] \in Objs /\ inodes[dcache[n]].open}

StoreSpec == Store!Spec

-----------------------------------------------------------------------------
(* What comments of the source say, which richer workloads refute *)

\* "Free up all allocated blocks, if any": once sfs_remove has cleared an entry
\* none of its blocks is marked used
RemoveFreesAll ==
  [][\A s \in Slots :
       mounted' /\ Live(table[s]) /\ ~Live(table'[s]) => Held(table[s]) \cap used' = {}]_vars

\* No name is in two entries, the second of which nobody could open or remove:
\* sfs_create tests for duplicates even after a lookup that failed
NamesOnce ==
  \A s, t \in Slots :
    Live(table[s]) /\ Live(table[t]) /\ table[s].name = table[t].name => s = t

\* A dentry that has an inode has the one of the entry its name is in
PositiveTruth ==
  \A n \in Names :
    dcache[n] \in Objs => SlotsNamed(table, n) = {inodes[dcache[n]].slot}

\* What a failed read in sfs_lookup cannot break: a file has its name for itself,
\* and whoever finds the name finds that file
NamesFound == NamesOnce /\ PositiveTruth

\* "File %s already exists. Should never happen.": no name that has a negative
\* dentry, the only names create is called with, is in the table
NeverExistsAlready ==
  \A n \in Names : dcache[n] = Negative => SlotsNamed(table, n) = {}
=============================================================================
