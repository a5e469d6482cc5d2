------------------------------ MODULE SfsRace ------------------------------
(***************************************************************************)
(* The handlers of real_sfs.c step by step.  Each reads an entry, changes  *)
(* its copy and the tracker, and writes the whole entry back; only the     *)
(* tracker has a lock (info->lock).  The VFS keeps two writers of a file,  *)
(* and two changes of the directory, apart; it does not keep the flusher,  *)
(* which calls sfs_write_inode, apart from them.  Entries are written to   *)
(* buffers that reach the disk later, in any order, unless the machine     *)
(* crashes first; reading or writing a buffer can fail.                    *)
(*                                                                         *)
(* RealSfs has the caches of the VFS and whole handlers; here an inode is  *)
(* the size it will be saved with, and programs write in sequence.         *)
(***************************************************************************)
EXTENDS SfsOps, FiniteSets

CONSTANTS Tasks,     \* programs
          Flusher,   \* the thread that writes inodes back
          Scenes,    \* what happens besides: "io" errors, a "crash", or a program that "list"s
          Longest    \* bound: how many blocks programs write to a file, by scene

ASSUME TasksAssumption ==
  /\ Flusher \notin Tasks /\ Scenes \subseteq {"io", "crash", "list"}
  /\ Longest \in [Scenes -> 0..BlockCnt]

VARIABLES scene,    \* the one of this behaviour
          mounted,
          used,     \* info->used_blocks
          table,    \* the entries as the buffers have them
          disk,     \* the entries as the disk has them
          isize,    \* isize[s]: i_size of entry s's inode, or None
          dirty,    \* inodes the flusher has to write
          job,      \* job[t]: the handler t is in
          dir,      \* an open directory: f_pos, what was listed, and the names to expect
          overlap,  \* history: a handler began on an entry while another was at work on it
          lost,     \* history: an entry write that took pointers away never reached the disk,
                    \* or the tracker was rebuilt after a failed one
          failed    \* history: an entry write failed and was taken for done

vars  == <<scene, mounted, used, table, disk, isize, dirty, job, dir, overlap, lost, failed>>

All   == Tasks \cup {Flusher}
None  == -1
Idle  == [op |-> "none", at |-> "none", slot |-> 0, i |-> 0, fe |-> EmptyEntry,
          size |-> 0]
NoDir == [open |-> FALSE, pos |-> 0, got |-> {}, stayed |-> {},
          twice |-> FALSE, cut |-> FALSE, over |-> FALSE]
Ops   == {"none", "write", "update", "unlink"}

Job     == [op : Ops, at : {"none", "put", "store", "grow"}, slot : Slots \cup {0},
            i : 0..BlockCnt, fe : Entry, size : 0..MaxSize]
Listing == [open : BOOLEAN, pos : 0..(2 + EntryCount), got : SUBSET Names,
            stayed : SUBSET Names, twice : BOOLEAN, cut : BOOLEAN, over : BOOLEAN]

TypeOK ==
  /\ scene \in Scenes /\ mounted \in BOOLEAN /\ used \subseteq Blocks
  /\ table \in [Slots -> Entry] /\ disk \in [Slots -> Entry]
  /\ isize \in [Slots -> {None} \cup 0..MaxSize]
  /\ dirty \subseteq {s \in Slots : isize[s] # None}
  /\ job \in [All -> Job] /\ dir \in Listing
  /\ overlap \in BOOLEAN /\ lost \in BOOLEAN /\ failed \in BOOLEAN

Init ==
  /\ scene \in Scenes
  /\ mounted = FALSE /\ used = {} /\ dirty = {}
  /\ table = [s \in Slots |-> EmptyEntry] /\ disk = table
  /\ isize = [s \in Slots |-> None]
  /\ job = [t \in All |-> Idle]
  /\ dir = NoDir
  /\ overlap = FALSE /\ lost = FALSE /\ failed = FALSE

-----------------------------------------------------------------------------
At(t, op, at) == job[t].op = op /\ job[t].at = at

\* Everyone who could be in a handler is not
Quiet == \A t \in All : job[t] = Idle

\* The i_mutex of entry s's inode, and the one of the directory
FileLocked(s) == \E t \in Tasks : job[t].op \in {"write", "unlink"} /\ job[t].slot = s
DirLocked     == \E t \in Tasks : job[t].op = "unlink"

Done(t) == job' = [job EXCEPT ![t] = Idle]

\* read_from_real_sfs: the copy the handler works on
Copy(t, s) == [job[t] EXCEPT !.slot = s, !.fe = table[s]]

\* Another handler is at work on entry s
Busy(s) == \E t \in All : job[t] # Idle /\ job[t].slot = s

\* Blocks that handlers at work on entry s have given back already, while the
\* entry still points to them
PutAlready(s) ==
  {b \in Held(table[s]) :
     \E t \in All :
       /\ job[t].slot = s
       /\ \/ job[t].op = "unlink" /\ \E i \in Idx : i < job[t].i /\ job[t].fe.blocks[i] = b
          \/ /\ job[t].op = "update" /\ job[t].at = "put"
             /\ b \notin Held(job[t].fe)}

\* write_to_real_sfs: the whole entry, or -EIO, which the callers, testing for
\* -1, take for success
StoreEntry(s, fe) ==
  \/ /\ table' = [table EXCEPT ![s] = fe]
     /\ UNCHANGED <<lost, failed>>
  \/ /\ scene = "io"
     /\ failed' = TRUE
     /\ lost'   = (lost \/ ~(Held(table[s]) \subseteq Held(fe)))
     /\ UNCHANGED table

-----------------------------------------------------------------------------
(* A write of block i of a file: sfs_write_begin calls sfs_get_block,      *)
(* generic_write_end moves the size                                        *)

\* Variant: the block is handed out and not marked
MarkedNot(b) == used' = used

\* sfs_get_data_block marks the block it returns, under info->lock
Marked(b) == used' = used \cup {b}

\* The entry has the block, or gets one; on a full partition nothing happens (-ENOSPC)
WriteBegin(t, s, i, size) ==
  /\ mounted /\ job[t] = Idle /\ isize[s] # None /\ ~FileLocked(s)
  /\ i < Longest[scene] /\ i * BlockSize <= isize[s]
  /\ size > i * BlockSize /\ size <= (i + 1) * BlockSize
  /\ overlap' = (overlap \/ Busy(s))
  /\ LET write == [Copy(t, s) EXCEPT !.op = "write", !.size = size]
     IN \/ /\ table[s].blocks[i] # 0
           /\ job' = [job EXCEPT ![t] = [write EXCEPT !.at = "grow"]]
           /\ UNCHANGED used
        \/ /\ table[s].blocks[i] = 0
           /\ \E b \in FreeBlocks(used) :
                /\ IsFirst(b, FreeBlocks(used))
                /\ Marked(b)
                /\ job' = [job EXCEPT ![t] = [write EXCEPT !.at = "store", !.fe.blocks[i] = b]]
  /\ UNCHANGED <<scene, mounted, table, disk, isize, dirty, lost, failed, dir>>

WriteStore(t) ==
  /\ At(t, "write", "store")
  /\ StoreEntry(job[t].slot, job[t].fe)
  /\ job' = [job EXCEPT ![t].at = "grow"]
  /\ UNCHANGED <<scene, mounted, used, disk, isize, dirty, overlap, dir>>

WriteGrow(t) ==
  /\ At(t, "write", "grow")
  /\ LET s == job[t].slot
     IN /\ isize' = [isize EXCEPT ![s] = IF job[t].size > @ THEN job[t].size ELSE @]
        /\ dirty' = dirty \cup {s}
  /\ Done(t)
  /\ UNCHANGED <<scene, mounted, used, table, disk, overlap, lost, failed, dir>>

\* simple_setsize: only the inode changes
Truncate(t, s, size) ==
  /\ mounted /\ job[t] = Idle /\ isize[s] # None /\ ~FileLocked(s)
  /\ size < isize[s]
  /\ isize' = [isize EXCEPT ![s] = size] /\ dirty' = dirty \cup {s}
  /\ UNCHANGED <<scene, mounted, used, table, disk, job, overlap, lost, failed, dir>>

-----------------------------------------------------------------------------
(* The flusher: sfs_write_inode calls sfs_update                           *)

UpdateBegin(s) ==
  /\ mounted /\ job[Flusher] = Idle /\ s \in dirty
  /\ dirty' = dirty \ {s}
  /\ overlap' = (overlap \/ Busy(s))
  /\ job' = [job EXCEPT ![Flusher] =
               [Copy(Flusher, s) EXCEPT !.op = "update", !.at = "put",
                                        !.size = isize[s], !.fe.size = isize[s]]]
  /\ UNCHANGED <<scene, mounted, used, table, disk, isize, lost, failed, dir>>

\* The entry cannot be read: sfs_update gives up, and the size is not saved
UpdateFails(s) ==
  /\ scene = "io" /\ mounted /\ job[Flusher] = Idle /\ s \in dirty
  /\ dirty' = dirty \ {s}
  /\ UNCHANGED <<scene, mounted, used, table, disk, isize, job, overlap, lost, failed, dir>>

\* The pointers past the size that are left
PastSize == {i \in Idx : i >= BlocksNeeded(job[Flusher].size) /\ job[Flusher].fe.blocks[i] # 0}

\* sfs_put_data_block of the next of them
UpdatePut ==
  /\ At(Flusher, "update", "put")
  /\ \E i \in Idx :
       /\ IsFirst(i, PastSize)
       /\ used' = used \ {job[Flusher].fe.blocks[i]}
       /\ job'  = [job EXCEPT ![Flusher].fe.blocks[i] = 0]
  /\ UNCHANGED <<scene, mounted, table, disk, isize, dirty, overlap, lost, failed, dir>>

UpdateStore ==
  /\ At(Flusher, "update", "put") /\ PastSize = {}
  /\ StoreEntry(job[Flusher].slot, job[Flusher].fe)
  /\ Done(Flusher)
  /\ UNCHANGED <<scene, mounted, used, disk, isize, dirty, overlap, dir>>

-----------------------------------------------------------------------------
(* sfs_inode_unlink calls sfs_remove                                       *)

UnlinkBegin(t, fn) ==
  /\ mounted /\ job[t] = Idle /\ ~DirLocked
  /\ \E s \in Slots :
       /\ IsFirst(s, SlotsNamed(table, fn)) /\ ~FileLocked(s)
       /\ overlap' = (overlap \/ Busy(s))
       /\ job' = [job EXCEPT ![t] = [Copy(t, s) EXCEPT !.op = "unlink", !.at = "put"]]
  /\ UNCHANGED <<scene, mounted, used, table, disk, isize, dirty, lost, failed, dir>>

\* Variant: the loop stops one block short
LeftShort(t) == job[t].i + 1 < BlockCnt /\ job[t].fe.blocks[job[t].i] # 0

\* There is another pointer before the first null one
Left(t) == job[t].i < BlockCnt /\ job[t].fe.blocks[job[t].i] # 0

\* sfs_put_data_block of it
UnlinkPut(t) ==
  /\ At(t, "unlink", "put") /\ Left(t)
  /\ used' = used \ {job[t].fe.blocks[job[t].i]}
  /\ job'  = [job EXCEPT ![t].i = @ + 1]
  /\ UNCHANGED <<scene, mounted, table, disk, isize, dirty, overlap, lost, failed, dir>>

\* The entry is cleared; the inode, which nobody has open, goes
UnlinkStore(t) ==
  /\ At(t, "unlink", "put") /\ ~Left(t)
  /\ StoreEntry(job[t].slot, EmptyEntry)
  /\ isize' = [isize EXCEPT ![job[t].slot] = None]
  /\ dirty' = dirty \ {job[t].slot}
  /\ dir' = [dir EXCEPT !.stayed = @ \ {job[t].fe.name}]
  /\ Done(t)
  /\ UNCHANGED <<scene, mounted, used, disk, overlap>>

-----------------------------------------------------------------------------
(* sfs_inode_create calls sfs_create                                       *)

Create(t, fn) ==
  /\ mounted /\ job[t] = Idle /\ ~DirLocked
  /\ SlotsNamed(table, fn) = {}
  /\ \E s \in Slots :
       /\ IsFirst(s, FreeSlots(table))
       /\ overlap' = (overlap \/ Busy(s))
       /\ StoreEntry(s, NewEntry(fn))
       /\ isize' = [isize EXCEPT ![s] = 0]
  /\ UNCHANGED <<scene, mounted, used, disk, dirty, job, dir>>

-----------------------------------------------------------------------------
(* sfs_readdir, with the directory's i_mutex *)

OpenDir ==
  /\ scene = "list" /\ mounted /\ ~dir.open
  /\ dir' = [NoDir EXCEPT !.open = TRUE,
                          !.stayed = {table[s].name : s \in LiveSlots(table)}]
  /\ UNCHANGED <<scene, mounted, used, table, disk, isize, dirty, job, overlap, lost, failed>>

\* sfs_list: the live entries before s
Before(s) == {r \in LiveSlots(table) : r < s}

\* Variant: f_pos is not moved for the names
MovedForDots(pos, listed) == pos

\* sfs_list moves f_pos by one for each name
Moved(pos, listed) == pos + Cardinality(listed)

\* A call whose buffer takes room names: "." at position 0, ".." at 1, and, only
\* at 2, as many of the entries as fit.  A call that returns nothing is the end.
ReadDir(room) ==
  /\ scene = "list" /\ mounted /\ dir.open /\ ~dir.over /\ ~DirLocked
  /\ LET pos    == IF dir.pos >= 2 THEN dir.pos ELSE IF dir.pos + room > 2 THEN 2 ELSE dir.pos + room
         left   == room - (pos - dir.pos)
         slots  == IF pos = 2 THEN {s \in LiveSlots(table) : Cardinality(Before(s)) < left} ELSE {}
         listed == {table[s].name : s \in slots}
     IN dir' = [dir EXCEPT
          !.pos   = Moved(pos, listed),
          !.got   = @ \cup listed,
          !.twice = @ \/ listed \cap dir.got # {},
          !.cut   = @ \/ (slots # {} /\ slots # LiveSlots(table)),
          !.over  = (pos = dir.pos /\ slots = {})]
  /\ UNCHANGED <<scene, mounted, used, table, disk, isize, dirty, job, overlap, lost, failed>>

CloseDir ==
  /\ dir.open /\ dir' = NoDir
  /\ UNCHANGED <<scene, mounted, used, table, disk, isize, dirty, job, overlap, lost, failed>>

-----------------------------------------------------------------------------
(* The disk *)

\* A buffer is written out, which only a crash makes visible
Flush(s) ==
  /\ scene = "crash" /\ disk[s] # table[s]
  /\ disk' = [disk EXCEPT ![s] = table[s]]
  /\ UNCHANGED <<scene, mounted, used, table, isize, dirty, job, overlap, lost, failed, dir>>

\* The disk, or a handler, still has pointers of entry s that were taken away
ReleasePending(s) ==
  \/ ~(Held(disk[s]) \subseteq Held(table[s]))
  \/ \E t \in All : /\ job[t].op \in {"update", "unlink"} /\ job[t].slot = s
                    /\ job[t].at = "put"

Crash ==
  /\ scene = "crash" /\ mounted
  /\ mounted' = FALSE /\ table' = disk
  /\ used' = {} /\ dirty' = {}
  /\ isize' = [s \in Slots |-> None]
  /\ job' = [t \in All |-> Idle]
  /\ lost' = (lost \/ \E s \in Slots : ReleasePending(s))
  /\ UNCHANGED <<scene, disk, overlap, failed, dir>>

\* init_browsing; the inodes are looked up as programs need them.  A failed
\* write that was taken for done may have left a hole, past which it marks nothing.
Mount ==
  /\ ~mounted /\ mounted' = TRUE
  /\ used' = MarkedBlocks(table)
  /\ isize' = [s \in Slots |-> IF Live(table[s]) THEN table[s].size ELSE None]
  /\ lost' = (lost \/ failed)
  /\ UNCHANGED <<scene, table, disk, dirty, job, overlap, failed, dir>>

\* sfs_kill_sb has freed info when kill_block_super writes inodes: each unsaved
\* size was saved before (UpdateBegin and what follows), as RealSfs says, or is lost.
\* Then the buffers are written.
Unmount ==
  /\ mounted /\ Quiet /\ ~dir.open
  /\ mounted' = FALSE /\ used' = {} /\ disk' = IF scene = "crash" THEN table ELSE disk
  /\ isize' = [s \in Slots |-> None] /\ dirty' = {}
  /\ UNCHANGED <<scene, table, job, overlap, lost, failed, dir>>

Next ==
  \/ \E t \in Tasks :
       \/ \E s \in Slots :
            \/ \E i \in Idx, size \in 1..MaxSize : WriteBegin(t, s, i, size)
            \/ \E size \in 0..MaxSize : Truncate(t, s, size)
       \/ WriteStore(t) \/ WriteGrow(t)
       \/ \E fn \in Names : UnlinkBegin(t, fn) \/ Create(t, fn)
       \/ UnlinkPut(t) \/ UnlinkStore(t)
  \/ \E s \in Slots : UpdateBegin(s) \/ UpdateFails(s) \/ Flush(s)
  \/ UpdatePut \/ UpdateStore
  \/ OpenDir \/ CloseDir \/ \E room \in 1..(EntryCount + 2) : ReadDir(room)
  \/ Crash \/ Mount \/ Unmount

Spec == Init /\ [][Next]_vars

-----------------------------------------------------------------------------
\* Unless a handler worked with a copy that was out of date, or an entry that
\* gives blocks up was lost, two files never point to one block, but for a block
\* that a removal or a truncation in progress has given back before clearing the pointer.
NoTwoOwners ==
  ~overlap /\ ~lost =>
    \A s, t \in LiveSlots(table) :
      s # t => Held(table[s]) \cap Held(table[t]) \subseteq PutAlready(s) \cup PutAlready(t)

\* The same of what a crash would leave on the disk: entries that share a block
\* there do so because one of them has an older, larger entry still to be overwritten.
DiskSharesOnlyPending ==
  ~overlap /\ ~lost =>
    \A s, t \in LiveSlots(disk) :
      s # t => \/ Held(disk[s]) \cap Held(disk[t]) = {}
               \/ ReleasePending(s) \/ ReleasePending(t)

\* When every handler has returned the tracker is what a mount would make of the
\* table, whatever interleaving, crash or remount came before.
TrackerExactAtRest ==
  mounted /\ Quiet /\ ~overlap /\ ~lost /\ ~failed => used = MarkedBlocks(table)

\* A program that reads a directory to the end sees no name twice, and every name
\* that was there all the time, unless one call got part of the names (then
\* sfs_readdir, which lists at position 2 only, returns nothing for the rest) or
\* a handler wrote an entry back that was out of date.
ListingWhole ==
  /\ ~dir.twice
  /\ ~overlap /\ dir.over /\ ~dir.cut => dir.stayed \subseteq dir.got

=============================================================================
