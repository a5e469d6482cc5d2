------------------------ MODULE RealSfsRefineProofs -------------------------
(***************************************************************************)
(* RealSfs implements BlockPool while programs and the flusher do the      *)
(* plainest only: blocks move between free and the files, never from one to*)
(* another.  It implements FileStore in every workload that removes no open*)
(* file and can read the table: programs see the names and sizes they made,*)
(* and after unmounting the last sizes that were saved.                    *)
(***************************************************************************)
EXTENDS RealSfsProofs

-----------------------------------------------------------------------------
\* A block is free, mounted or not, when no entry points to it
FreeIsUnheld ==
  \A b : b \in FreeBlocks(IF mounted THEN used ELSE MarkedBlocks(table))
           <=> b \in DataBlocks /\ \A s \in Slots : b \notin Held(table[s])

\* The tracker, or the tracker a mount would build, says so
LEMMA FreeExact ==
  ASSUME TypeOK, AccountInv
  PROVE  FreeIsUnheld
<1> DEFINE held == UNION {Held(table[s]) : s \in Slots}
<1>1. (IF mounted THEN used ELSE MarkedBlocks(table)) = MetaBlocks \cup held
  BY MarkedExact DEF AccountInv, AccountingExact
<1>2. \A b \in DataBlocks : b \notin MetaBlocks
  BY LayoutAssumption DEF DataBlocks, MetaBlocks
<1>3. \A b : b \in held <=> \E s \in Slots : b \in Held(table[s])
  BY Zenon
<1> HIDE DEF held
<1> QED
  BY <1>1, <1>2, <1>3 DEF FreeIsUnheld, FreeBlocks

\* The blocks of a table's entries
HeldBy(t) == [s \in Slots |-> Held(t[s])]

\* Entries lose pointers: a release
LEMMA ReleaseStep ==
  ASSUME TypeOK, TypeOK', AccountInv, FreeIsUnheld, FreeIsUnheld',
         \A s \in Slots : Fewer(table[s], table'[s])
  PROVE  Pool!Release
<1> DEFINE all == UNION {HeldBy(table)[s] : s \in Slots}
           B == {b \in all : \A s \in Slots : b \notin Held(table'[s])}
           free == FreeBlocks(IF mounted THEN used ELSE MarkedBlocks(table))
<1>1. \A b : b \in all <=> \E s \in Slots : b \in Held(table[s])
  BY Zenon DEF HeldBy
<1>2. \A s \in Slots : Held(table'[s]) \subseteq Held(table[s]) /\ Held(table[s]) \subseteq DataBlocks
  BY DEF Fewer, Held, TypeOK, Entry, Pointers
<1>3. \A s, t \in Slots : s # t => Held(table[s]) \cap Held(table[t]) = {}
  BY DEF AccountInv, NoCrossLink, Held
<1> HIDE DEF all
<1>4. \A b : b \in B <=> /\ \E s \in Slots : b \in Held(table[s])
                         /\ \A s \in Slots : b \notin Held(table'[s])
  BY <1>1
<1>5. B \in SUBSET all
  OBVIOUS
<1> HIDE DEF B
<1>6. ASSUME NEW s \in Slots PROVE Held(table'[s]) = HeldBy(table)[s] \ B
  <2>1. \A b : b \in Held(table'[s]) => b \in Held(table[s]) /\ b \notin B
    BY <1>2, <1>4
  <2>2. \A b : b \in Held(table[s]) /\ b \notin B => b \in Held(table'[s])
    BY <1>2, <1>3, <1>4
  <2> QED
    BY <2>1, <2>2 DEF HeldBy
<1>7. HeldBy(table') = [s \in Slots |-> HeldBy(table)[s] \ B]
  BY <1>6 DEF HeldBy
<1> HIDE DEF free
<1>8. \A b : b \in free' <=> b \in free \cup B
  <2>1. \A b : b \in free <=> b \in DataBlocks /\ \A s \in Slots : b \notin Held(table[s])
    BY DEF FreeIsUnheld, free
  <2>2. \A b : b \in free' <=> b \in DataBlocks /\ \A s \in Slots : b \notin Held(table'[s])
    BY DEF FreeIsUnheld, free
  <2> QED
    BY <1>2, <1>4, <2>1, <2>2
<1>9. free' = free \cup B
  BY <1>8
<1> QED
  BY <1>5, <1>7, <1>9 DEF Pool!Release, HeldBy, free, all

\* get_block finds a block, or takes a free one
LEMMA TakeStep ==
  ASSUME TypeOK, AccountInv, mounted, FreeIsUnheld, FreeIsUnheld',
         NEW o \in Objs, IsInode(o), NEW i \in Idx, NEW b \in Reachable(o), GetBlock(o, i, b)
  PROVE  UNCHANGED table \/ \E s \in Slots : Pool!Take(s)
<1> DEFINE s == inodes[o].slot
           free == FreeBlocks(IF mounted THEN used ELSE MarkedBlocks(table))
<1>1. s \in Slots
  BY DEF TypeOK, IsInode, Inode
<1>2. CASE UNCHANGED <<table, used>>
  BY <1>2
<1>3. CASE /\ table[s].blocks[i] = 0 /\ b \in FreeBlocks(used)
           /\ table' = [table EXCEPT ![s].blocks[i] = b]
  <2>1. /\ \A t \in Slots \ {s} : table'[t] = table[t]
        /\ table'[s].blocks[i] = b
        /\ \A k \in Idx \ {i} : table'[s].blocks[k] = table[s].blocks[k]
    BY <1>1, <1>3 DEF TypeOK, Entry
  <2>2. b # 0 /\ b \in free
    BY <1>3, LayoutAssumption DEF FreeBlocks, DataBlocks
  <2>3. Held(table'[s]) = Held(table[s]) \cup {b}
    BY <1>3, <2>1, <2>2 DEF Held
  <2>4. \A t \in Slots : Held(table'[t]) = IF t = s THEN Held(table[s]) \cup {b} ELSE Held(table[t])
    BY <2>1, <2>3
  <2>5. HeldBy(table') = [HeldBy(table) EXCEPT ![s] = @ \cup {b}]
    BY <2>4 DEF HeldBy
  <2> HIDE DEF free
  <2>6. \A c : c \in free' <=> c \in free \ {b}
    <3>1. \A c : c \in free <=> c \in DataBlocks /\ \A t \in Slots : c \notin Held(table[t])
      BY DEF FreeIsUnheld, free
    <3>2. \A c : c \in free' <=> c \in DataBlocks /\ \A t \in Slots : c \notin Held(table'[t])
      BY DEF FreeIsUnheld, free
    <3> QED
      BY <1>1, <2>4, <3>1, <3>2
  <2>7. free' = free \ {b}
    BY <2>6
  <2>8. Pool!Take(s)
    BY <2>2, <2>5, <2>7 DEF Pool!Take, HeldBy, free
  <2> QED
    BY <1>1, <2>8
<1> QED
  BY <1>2, <1>3 DEF GetBlock, IsFirst

\* If the table stays so do the blocks of its entries and the free ones
LEMMA StutterStep ==
  ASSUME FreeIsUnheld, FreeIsUnheld', UNCHANGED table
  PROVE  UNCHANGED <<[s \in Slots |-> Held(table[s])],
                     FreeBlocks(IF mounted THEN used ELSE MarkedBlocks(table))>>
<1> DEFINE free == FreeBlocks(IF mounted THEN used ELSE MarkedBlocks(table))
<1>1. \A c : c \in free' <=> c \in free
  BY DEF FreeIsUnheld
<1> HIDE DEF free
<1>2. free' = free
  BY <1>1
<1> QED
  BY <1>2 DEF free

\* The tracker, the table and their callers implement a pool of blocks: mounting
\* moves none, removal, write-back and unmounting release blocks, a write takes a
\* free one
THEOREM ImplementsBlockPool ==
  ASSUME Plain
  PROVE  Spec => PoolSpec
<1>1. Init => Pool!Init
  <2> SUFFICES ASSUME Init PROVE Pool!Init
    OBVIOUS
  <2>1. \A s \in Slots : Held(table[s]) = {} /\ ~Live(table[s])
    BY DEF Init, EmptyEntry, NoBlocks, Held, Live
  <2>2. MarkedBlocks(table) = MetaBlocks /\ ~mounted
    BY <2>1 DEF MarkedBlocks, LiveSlots, Init
  <2>3. FreeBlocks(MetaBlocks) = DataBlocks
    BY LayoutAssumption DEF FreeBlocks, MetaBlocks, DataBlocks
  <2> QED
    BY <2>1, <2>2, <2>3 DEF Pool!Init
<1>2. TypeOK /\ AccountInv => FreeIsUnheld
  BY FreeExact
<1>3. /\ TypeOK /\ TypeOK' /\ AccountInv /\ FreeIsUnheld /\ FreeIsUnheld' /\ [Next]_vars
      => [Pool!Next]_<<[s \in Slots |-> Held(table[s])],
                       FreeBlocks(IF mounted THEN used ELSE MarkedBlocks(table))>>
  <2> DEFINE view == <<[s \in Slots |-> Held(table[s])],
                       FreeBlocks(IF mounted THEN used ELSE MarkedBlocks(table))>>
  <2> SUFFICES ASSUME TypeOK, TypeOK', AccountInv, FreeIsUnheld, FreeIsUnheld', [Next]_vars
               PROVE  Pool!Next \/ UNCHANGED view
    OBVIOUS
  <2>1. UNCHANGED table => UNCHANGED view
    BY StutterStep
  <2> HIDE DEF view
  <2>2. ASSUME NEW s \in Slots, NEW f \in Entry, table' = [table EXCEPT ![s] = f],
               Fewer(table[s], f)
        PROVE  Pool!Next
    <3>1. \A t \in Slots : Fewer(table[t], table'[t])
      BY <2>2 DEF TypeOK, Fewer
    <3> QED
      BY <3>1, ReleaseStep DEF Pool!Next
  <2>3. ASSUME NEW n \in Names, Create(n) \/ CreateUndone(n) \/ Unlink(n) PROVE Pool!Next
    <3>1. PICK s \in Slots, f \in {EmptyEntry, NewEntry(n)} : table' = [table EXCEPT ![s] = f]
      BY <2>3 DEF Create, CreateUndone, Unlink
    <3>2. f \in Entry /\ Fewer(table[s], f)
      BY EmptyEntryType, NewEntryType DEF Fewer, EmptyEntry, NewEntry, NoBlocks
    <3> QED
      BY <2>2, <3>1, <3>2
  <2>4. ASSUME NEW o \in Objs, NEW i \in Idx, WriteBegin(o, i) \/ WriteFails(o, i)
        PROVE  Pool!Next \/ UNCHANGED table
    <3>1. IsInode(o) /\ mounted
      BY <2>4 DEF WriteBegin, WriteFails, CanWrite, TypeOK
    <3>2. UNCHANGED table \/ \E b \in Reachable(o) : GetBlock(o, i, b)
      BY <2>4 DEF WriteBegin, WriteFails
    <3> QED
      BY <3>1, <3>2, TakeStep DEF Pool!Next
  <2>5. ASSUME NEW o \in Objs, WriteInode(o) PROVE Pool!Next \/ UNCHANGED table
    <3>1. /\ inodes[o].slot \in Slots /\ inodes[o].size \in 0..MaxSize
          /\ table[inodes[o].slot] \in Entry
      BY <2>5 DEF WriteInode, TypeOK, IsInode, Inode
    <3>2. \A e \in Entry : \A size : Fewer(e, Resized(e, size))
      BY DEF Fewer, Resized, Entry
    <3>3. Resized(table[inodes[o].slot], inodes[o].size) \in Entry
      BY <3>1, ResizedType
    <3>4. \/ table' = [table EXCEPT ![inodes[o].slot] = Resized(@, inodes[o].size)]
          \/ UNCHANGED table
      BY <2>5 DEF WriteInode
    <3> QED
      BY <2>2, <3>1, <3>2, <3>3, <3>4
  <2>6. ASSUME Unmount PROVE Pool!Next
    BY <2>6, LeftoverSound, ReleaseStep DEF Pool!Next
  <2> QED
    BY <2>1, <2>3, <2>4, <2>5, <2>6 DEF Next, Directory, FileIO, Background, vars, Mount, Lookup,
       Open, ReclaimDentry, Close, WriteRefused, WriteEnd, ReadBlock, Truncate, DropPages, EvictInode
<1>4. Spec => [](TypeOK /\ AccountInv)
  BY TypeCorrect, AccountInvariant, PTL
<1> QED
  BY <1>1, <1>2, <1>3, <1>4, PTL DEF Spec, PoolSpec, Pool!Spec

-----------------------------------------------------------------------------
(* The store of names and sizes *)

\* The size that a program sees of the file in entry s
SizeIs(s, z) ==
  IF HashedAt(s) = {} THEN z = table[s].size ELSE \E o \in HashedAt(s) : z = inodes[o].size

\* A name's size is that of the one entry with that name
SeenTruth ==
  \A n \in Names :
    /\ SlotsNamed(table, n) = {} => SeenSize(n) = Negative
    /\ \A s \in SlotsNamed(table, n) : \A z : SizeIs(s, z) => SeenSize(n) = z

\* A file that is open has a dentry, by which it was opened
OpenNamed ==
  \A o \in Objs : IsInode(o) /\ inodes[o].open => \E n \in Names : dcache[n] = o

\* Names and inodes are unique, so the choices in SeenSize have one outcome
LEMMA SeenFacts ==
  ASSUME Before, InodesKept
  PROVE  SeenTruth
<1> SUFFICES ASSUME NEW n \in Names
             PROVE  /\ SlotsNamed(table, n) = {} => SeenSize(n) = Negative
                    /\ \A s \in SlotsNamed(table, n) : \A z : SizeIs(s, z) => SeenSize(n) = z
  BY DEF SeenTruth
<1>1. SlotsNamed(table, n) = {} => SeenSize(n) = Negative
  BY DEF SeenSize
<1>2. ASSUME NEW s \in SlotsNamed(table, n), NEW z, SizeIs(s, z) PROVE SeenSize(n) = z
  <2>1. s \in Slots /\ s \in Int /\ SlotsNamed(table, n) = {s}
    BY DEF SlotsNamed, Before, NamesOnce, Slots
  <2>2. SlotOf(n) = s
    <3>1. \A t \in Slots : IsFirst(t, SlotsNamed(table, n)) <=> t = s
      BY <2>1 DEF IsFirst
    <3> QED
      BY <2>1, <3>1 DEF SlotOf
  <2>3. SeenSize(n) = IF HashedAt(s) = {} THEN table[s].size ELSE inodes[InodeOf(s)].size
    BY <2>1, <2>2 DEF SeenSize
  <2>4. ASSUME HashedAt(s) # {} PROVE inodes[InodeOf(s)].size = z
    <3>1. PICK o \in HashedAt(s) : z = inodes[o].size
      BY <1>2, <2>4 DEF SizeIs
    <3>2. \A p \in HashedAt(s) : p \in Objs /\ p = o
      BY DEF HashedAt, Before, OneInodePerFile
    <3>3. InodeOf(s) = o
      BY <3>1, <3>2 DEF InodeOf
    <3> QED
      BY <3>1, <3>3
  <2> QED
    BY <1>2, <2>3, <2>4 DEF SizeIs
<1> QED
  BY <1>1, <1>2

\* An entry has a size
LEMMA SizeExists ==
  ASSUME TypeOK, NEW s \in Slots
  PROVE  \E z \in 0..MaxSize : SizeIs(s, z)
<1>1. table[s].size \in 0..MaxSize
  BY DEF TypeOK, Entry
<1>2. \A o \in HashedAt(s) : inodes[o].size \in 0..MaxSize
  BY DEF TypeOK, HashedAt, IsInode, Inode
<1> QED
  BY <1>1, <1>2 DEF SizeIs

\* A name whose entry stays, with its size, looks the same after a step
LEMMA SeenKept ==
  ASSUME TypeOK, SeenTruth, SeenTruth', NEW n \in Names,
         SlotsNamed(table', n) = SlotsNamed(table, n),
         \A s \in SlotsNamed(table, n) : \A z : SizeIs(s, z) => SizeIs(s, z)'
  PROVE  SeenSize(n)' = SeenSize(n)
<1>1. CASE SlotsNamed(table, n) = {}
  BY <1>1 DEF SeenTruth
<1>2. ASSUME NEW s \in SlotsNamed(table, n) PROVE SeenSize(n)' = SeenSize(n)
  <2>1. PICK z : SizeIs(s, z)
    BY SizeExists DEF SlotsNamed
  <2>2. SizeIs(s, z)'
    BY <2>1
  <2>3. SeenSize(n)' = z
    BY <2>2 DEF SeenTruth
  <2>4. SeenSize(n) = z
    BY <2>1 DEF SeenTruth
  <2> QED
    BY <2>3, <2>4
<1> QED
  BY <1>1, <1>2

\* The files that are open
OpenFiles == {n \in Names : dcache[n] \in Objs /\ inodes[dcache[n]].open}

\* What programs see of the files, and what the partition has of them
Sees  == [n \in Names |-> SeenSize(n)]
Saved == [n \in Names |-> KeptSize(n)]
View  == <<Sees, Saved, OpenFiles>>

\* The only entry with a name is the first
LEMMA OnlyIsFirst ==
  ASSUME NEW t, NEW n, NEW s \in SlotsNamed(t, n), \A r \in SlotsNamed(t, n) : r = s
  PROVE  SlotsNamed(t, n) = {s} /\ (CHOOSE r \in Slots : IsFirst(r, SlotsNamed(t, n))) = s
<1>1. s \in Slots /\ s \in Int /\ SlotsNamed(t, n) = {s}
  BY DEF SlotsNamed, Slots
<1>2. \A r \in Slots : IsFirst(r, SlotsNamed(t, n)) <=> r = s
  BY <1>1 DEF IsFirst
<1> QED
  BY <1>1, <1>2

\* The size that the partition has for a name is that of its one entry, before a
\* step and after it
LEMMA SavedIs ==
  ASSUME NEW n \in Names
  PROVE  /\ SlotsNamed(table, n) = {} => KeptSize(n) = Negative
         /\ SlotsNamed(table', n) = {} => KeptSize(n)' = Negative
         /\ NamesOnce => \A s \in SlotsNamed(table, n) :
              SlotsNamed(table, n) = {s} /\ KeptSize(n) = table[s].size
         /\ NamesOnce' => \A s \in SlotsNamed(table', n) :
              SlotsNamed(table', n) = {s} /\ KeptSize(n)' = table'[s].size
<1>1. ASSUME NamesOnce, NEW s \in SlotsNamed(table, n)
      PROVE  SlotsNamed(table, n) = {s} /\ KeptSize(n) = table[s].size
  <2>1. \A r \in SlotsNamed(table, n) : r = s
    BY <1>1 DEF NamesOnce, SlotsNamed
  <2> QED
    BY <2>1, OnlyIsFirst DEF KeptSize, SlotOf
<1>2. ASSUME NamesOnce', NEW s \in SlotsNamed(table', n)
      PROVE  SlotsNamed(table', n) = {s} /\ KeptSize(n)' = table'[s].size
  <2>1. \A r \in SlotsNamed(table', n) : r = s
    BY <1>2 DEF NamesOnce, SlotsNamed
  <2> QED
    BY <2>1, OnlyIsFirst DEF KeptSize, SlotOf
<1> QED
  BY <1>1, <1>2 DEF KeptSize

\* A name that keeps its entry, with its size, keeps the size on the partition
LEMMA SavedKept ==
  ASSUME Before, Before', NEW n \in Names, SlotsNamed(table', n) = SlotsNamed(table, n),
         \A s \in SlotsNamed(table, n) : table'[s].size = table[s].size
  PROVE  KeptSize(n)' = KeptSize(n)
<1>1. NamesOnce /\ NamesOnce'
  BY DEF Before
<1>2. CASE SlotsNamed(table, n) = {}
  BY <1>2 DEF KeptSize
<1>3. ASSUME NEW s \in SlotsNamed(table, n) PROVE KeptSize(n)' = KeptSize(n)
  <2>1. KeptSize(n) = table[s].size
    BY <1>1, <1>3, SavedIs
  <2>2. KeptSize(n)' = table'[s].size
    BY <1>1, <1>3, SavedIs
  <2> QED
    BY <1>3, <2>1, <2>2
<1> QED
  BY <1>2, <1>3

\* A step that changes no name and no size on the partition
LEMMA SavedStays ==
  ASSUME Before, Before', NamesKept, \A s \in Slots : table'[s].size = table[s].size
  PROVE  Saved' = Saved
<1>1. \A n \in Names : SlotsNamed(table', n) = SlotsNamed(table, n)
  BY ScanKept
<1>2. \A n \in Names : KeptSize(n)' = KeptSize(n)
  BY <1>1, SavedKept DEF SlotsNamed
<1> QED
  BY <1>2 DEF Saved

\* Only one name has a dentry for an inode
LEMMA DentryUnique ==
  ASSUME Before, NEW m \in Names, NEW n \in Names, dcache[m] \in Objs, dcache[n] = dcache[m]
  PROVE  m = n
<1>1. SlotsNamed(table, m) = {inodes[dcache[m]].slot} /\ SlotsNamed(table, n) = {inodes[dcache[m]].slot}
  BY DEF Before, PositiveTruth
<1> QED
  BY <1>1 DEF SlotsNamed

\* All inodes can be found by their numbers, and one is its entry's
LEMMA HashedIs ==
  ASSUME Before, InodesKept, NEW o \in Objs, IsInode(o), NEW s, s = inodes[o].slot
  PROVE  /\ s \in Slots /\ HashedAt(s) = {o} /\ inodes[o] \in Inode /\ Live(table[s])
         /\ \A z : SizeIs(s, z) <=> z = inodes[o].size
<1>1. inodes[o].hashed /\ inodes[o] \in Inode /\ s \in Slots /\ Live(table[s])
  BY DEF Before, TypeOK, IsInode, Inode, InodesKept, InodeKept
<1>2. HashedAt(s) = {o}
  BY <1>1 DEF Before, OneInodePerFile, HashedAt
<1> QED
  BY <1>1, <1>2 DEF SizeIs

\* The object that a name's dentry is of
LEMMA NamedIs ==
  ASSUME Before, NEW n \in Names, NEW o \in Objs, dcache[n] = o
  PROVE  IsInode(o) /\ inodes[o].slot \in Slots /\ SlotsNamed(table, n) = {inodes[o].slot}
         /\ \A m \in Names \ {n} : inodes[o].slot \notin SlotsNamed(table, m) /\ dcache[m] # o
<1>1. IsInode(o) /\ inodes[o].slot \in Slots /\ SlotsNamed(table, n) = {inodes[o].slot}
  BY DEF Before, PositiveTruth, TypeOK, IsInode, Inode
<1>2. \A m \in Names \ {n} : inodes[o].slot \notin SlotsNamed(table, m)
  BY <1>1 DEF SlotsNamed
<1> QED
  BY <1>1, <1>2, DentryUnique

\* If only one name's size changes, and the open files stay, that is what shows
LEMMA SeesOne ==
  ASSUME NEW n \in Names, \A m \in Names \ {n} : SeenSize(m)' = SeenSize(m)
  PROVE  Sees' = [Sees EXCEPT ![n] = SeenSize(n)']
BY DEF Sees

\* The inode of a file is given another value, of the same entry
LEMMA RewriteKeeps ==
  ASSUME Before, InodesKept, NEW o \in Objs, IsInode(o), NEW v \in Inode,
         inodes' = [inodes EXCEPT ![o] = v],
         v.slot = inodes[o].slot, v.hashed = inodes[o].hashed,
         NamesKept, \A t \in Slots \ {v.slot} : table'[t].size = table[t].size
  PROVE  /\ \A t \in Slots \ {v.slot} : \A z : SizeIs(t, z) => SizeIs(t, z)'
         /\ \A z : SizeIs(v.slot, z)' <=> z = v.size
<1>1. inodes'[o] = v /\ v # NoInode /\ \A p \in Objs \ {o} : inodes'[p] = inodes[p]
  BY ValuesAssumption DEF Before, TypeOK
<1>2. \A t \in Slots : HashedAt(t)' = HashedAt(t)
  BY <1>1 DEF HashedAt, IsInode
<1>3. v.slot \in Slots /\ HashedAt(v.slot) = {o}
  BY HashedIs
<1>4. \A t \in Slots \ {v.slot} : o \notin HashedAt(t) /\ \A p \in HashedAt(t) : inodes'[p] = inodes[p]
  BY <1>1 DEF HashedAt
<1> QED
  BY <1>1, <1>2, <1>3, <1>4 DEF SizeIs

\* A step that changes an inode's size is a resize of a file that is open, and
\* one that changes other things of it does not show
LEMMA InodeRewritten ==
  ASSUME Before, InodesKept, OpenNamed, SeenTruth, SeenTruth',
         NEW o \in Objs, IsInode(o), NEW v \in Inode, inodes' = [inodes EXCEPT ![o] = v],
         v.slot = inodes[o].slot, v.hashed = inodes[o].hashed, v.open = inodes[o].open,
         NamesKept, \A t \in Slots \ {v.slot} : table'[t].size = table[t].size,
         UNCHANGED dcache,
         v.size # inodes[o].size => inodes[o].open
  PROVE  /\ OpenFiles' = OpenFiles
         /\ v.size = inodes[o].size => Sees' = Sees
         /\ Saved' = Saved => Store!Next \/ UNCHANGED View
<1>1. /\ \A t \in Slots \ {v.slot} : \A z : SizeIs(t, z) => SizeIs(t, z)'
      /\ \A z : SizeIs(v.slot, z)' <=> z = v.size
  BY RewriteKeeps
<1>2. inodes'[o] = v /\ \A p \in Objs \ {o} : inodes'[p] = inodes[p]
  BY DEF Before, TypeOK
<1>3. OpenFiles' = OpenFiles
  BY <1>2 DEF OpenFiles
<1>4. \A n \in Names : SlotsNamed(table', n) = SlotsNamed(table, n)
  BY ScanKept
<1>5. TypeOK
  BY DEF Before
<1>6. \A n \in Names : v.slot \notin SlotsNamed(table, n) => SeenSize(n)' = SeenSize(n)
  <2> SUFFICES ASSUME NEW n \in Names, v.slot \notin SlotsNamed(table, n)
               PROVE  SeenSize(n)' = SeenSize(n)
    OBVIOUS
  <2>1. SlotsNamed(table, n) \subseteq Slots \ {v.slot}
    BY DEF SlotsNamed
  <2> QED
    BY <1>1, <1>4, <1>5, <2>1, SeenKept
<1>7. CASE v.size = inodes[o].size
  <2>1. \A z : SizeIs(v.slot, z) => SizeIs(v.slot, z)'
    <3>1. \A z : SizeIs(v.slot, z) <=> z = inodes[o].size
      BY HashedIs
    <3> QED
      BY <1>1, <1>7, <3>1
  <2>2. ASSUME NEW n \in Names PROVE SeenSize(n)' = SeenSize(n)
    <3>1. \A s \in SlotsNamed(table, n) : \A z : SizeIs(s, z) => SizeIs(s, z)'
      BY <1>1, <2>1 DEF SlotsNamed
    <3> QED
      BY <1>4, <1>5, <3>1, SeenKept
  <2>3. Sees' = Sees
    BY <2>2 DEF Sees
  <2> QED
    BY <1>3, <1>7, <2>3 DEF View
<1>8. CASE v.size # inodes[o].size
  <2>1. PICK n \in Names : dcache[n] = o
    BY <1>8 DEF OpenNamed
  <2>2. n \in OpenFiles
    BY <1>8, <2>1 DEF OpenFiles
  <2>3. v.slot \in SlotsNamed(table, n) /\ \A m \in Names \ {n} : v.slot \notin SlotsNamed(table, m)
    BY <2>1, NamedIs
  <2>4. SeenSize(n)' = v.size
    <3>1. SizeIs(v.slot, v.size)'
      BY <1>1
    <3> QED
      BY <1>4, <2>3, <3>1 DEF SeenTruth
  <2>5. Sees' = [Sees EXCEPT ![n] = v.size]
    BY <1>6, <2>3, <2>4, SeesOne
  <2>6. v.size \in 0..MaxSize
    BY DEF Inode
  <2>7. Saved' = Saved => Store!Resize(n)
    BY <1>3, <2>2, <2>5, <2>6 DEF Store!Resize, Sees, Saved, OpenFiles
  <2> QED
    BY <1>3, <1>8, <2>7 DEF Store!Next
<1> QED
  BY <1>7, <1>8

\* Opening and closing a file are what they are
LEMMA OpenCloseStep ==
  ASSUME Before, Before', InodesKept, InodesKept', SeenTruth, SeenTruth', OpenNamed,
         (\E n \in Names : Open(n)) \/ (\E o \in Objs : Close(o))
  PROVE  Store!Next
<1>0. PICK n \in Names, o \in Objs, open \in BOOLEAN :
        /\ dcache[n] = o /\ IsInode(o) /\ inodes[o].open = ~open /\ inodes[o] \in Inode
        /\ inodes' = [inodes EXCEPT ![o] = [inodes[o] EXCEPT !.open = open]]
        /\ UNCHANGED <<table, dcache>>
  <2>1. ASSUME NEW n \in Names, Open(n)
        PROVE  \E o \in Objs, open \in BOOLEAN :
                 /\ dcache[n] = o /\ IsInode(o) /\ inodes[o].open = ~open /\ inodes[o] \in Inode
                 /\ inodes' = [inodes EXCEPT ![o] = [inodes[o] EXCEPT !.open = open]]
                 /\ UNCHANGED <<table, dcache>>
    <3>1. dcache[n] \in Objs /\ IsInode(dcache[n]) /\ inodes[dcache[n]] \in Inode
      BY <2>1 DEF Open, Before, TypeOK, IsInode
    <3>2. /\ inodes' = [inodes EXCEPT ![dcache[n]] = [inodes[dcache[n]] EXCEPT !.open = TRUE]]
          /\ UNCHANGED <<table, dcache>>
      BY <2>1 DEF Open
    <3>3. inodes[dcache[n]].open = FALSE
      BY <2>1, <3>1 DEF Open, Inode
    <3> QED
      BY <3>1, <3>2, <3>3
  <2>2. ASSUME NEW o \in Objs, Close(o)
        PROVE  \E n \in Names, open \in BOOLEAN :
                 /\ dcache[n] = o /\ IsInode(o) /\ inodes[o].open = ~open /\ inodes[o] \in Inode
                 /\ inodes' = [inodes EXCEPT ![o] = [inodes[o] EXCEPT !.open = open]]
                 /\ UNCHANGED <<table, dcache>>
    <3>1. IsInode(o) /\ inodes[o] \in Inode /\ inodes[o].open /\ inodes[o].open = TRUE
      BY <2>2 DEF Close, Before, TypeOK, IsInode, Inode
    <3>2. PICK n \in Names : dcache[n] = o
      BY <3>1 DEF OpenNamed
    <3>3. [inodes[o] EXCEPT !.open = FALSE] \in Inode
      BY <3>1 DEF Inode
    <3>4. Dropped([inodes[o] EXCEPT !.open = FALSE], o, dcache) = [inodes[o] EXCEPT !.open = FALSE]
      BY <3>2, <3>3, DroppedType
    <3>5. /\ inodes' = [inodes EXCEPT ![o] = [inodes[o] EXCEPT !.open = FALSE]]
          /\ UNCHANGED <<table, dcache>>
      BY <2>2, <3>4 DEF Close
    <3> QED
      BY <3>1, <3>2, <3>5
  <2> QED
    BY <2>1, <2>2
<1>a. PICK v : v = [inodes[o] EXCEPT !.open = open]
  OBVIOUS
<1>1. /\ v \in Inode /\ v.slot = inodes[o].slot /\ v.hashed = inodes[o].hashed
      /\ v.size = inodes[o].size /\ v.open = open
  BY <1>0, <1>a DEF Inode
<1>2. inodes' = [inodes EXCEPT ![o] = v]
  BY <1>0, <1>a
<1>3. NamesKept /\ \A t \in Slots : table'[t].size = table[t].size
  BY <1>0 DEF NamesKept
<1>4. /\ \A t \in Slots \ {v.slot} : \A z : SizeIs(t, z) => SizeIs(t, z)'
      /\ \A z : SizeIs(v.slot, z)' <=> z = v.size
  BY <1>0, <1>1, <1>2, <1>3, RewriteKeeps
<1>5. \A z : SizeIs(v.slot, z) => SizeIs(v.slot, z)'
  <2>1. \A z : SizeIs(v.slot, z) <=> z = inodes[o].size
    BY <1>0, <1>1, HashedIs
  <2> QED
    BY <1>1, <1>4, <2>1
<1>6. ASSUME NEW m \in Names PROVE SeenSize(m)' = SeenSize(m)
  <2>1. SlotsNamed(table', m) = SlotsNamed(table, m)
    BY <1>3, ScanKept
  <2>2. \A s \in SlotsNamed(table, m) : \A z : SizeIs(s, z) => SizeIs(s, z)'
    BY <1>4, <1>5 DEF SlotsNamed
  <2> QED
    BY <2>1, <2>2, SeenKept DEF Before
<1>7. Sees' = Sees /\ Saved' = Saved
  BY <1>3, <1>6, SavedStays DEF Sees
<1>8. inodes'[o] = v /\ \A p \in Objs \ {o} : inodes'[p] = inodes[p]
  BY <1>2 DEF Before, TypeOK
<1>9. \A m \in Names \ {n} : dcache[m] # o
  BY <1>0, NamedIs
<1>10. \A m \in Names \ {n} : m \in OpenFiles' <=> m \in OpenFiles
  BY <1>0, <1>8, <1>9 DEF OpenFiles
<1>11. (n \in OpenFiles' <=> open) /\ (n \in OpenFiles <=> ~open)
  BY <1>0, <1>1, <1>8 DEF OpenFiles
<1>12. CASE open
  <2>1. OpenFiles' = OpenFiles \cup {n}
    BY <1>10, <1>11, <1>12 DEF OpenFiles
  <2>2. Sees[n] # Negative
    <3>1. v.slot \in SlotsNamed(table, n) /\ SizeIs(v.slot, inodes[o].size)
      BY <1>0, <1>1, NamedIs, HashedIs
    <3>2. SeenSize(n) = inodes[o].size /\ inodes[o].size \in 0..MaxSize
      BY <1>0, <3>1 DEF SeenTruth, Inode
    <3> QED
      BY <3>2, NegativeAssumption DEF Sees
  <2>3. Store!Use(n)
    BY <1>7, <1>11, <1>12, <2>1, <2>2 DEF Store!Use, Sees, Saved, OpenFiles
  <2> QED
    BY <2>3 DEF Store!Next
<1>13. CASE ~open
  <2>1. OpenFiles' = OpenFiles \ {n}
    BY <1>10, <1>11, <1>13 DEF OpenFiles
  <2>3. Store!Leave(n)
    BY <1>7, <1>11, <1>13, <2>1 DEF Store!Leave, Sees, Saved, OpenFiles
  <2> QED
    BY <2>3 DEF Store!Next
<1> QED
  BY <1>12, <1>13

\* What the file handlers and the flusher make of an inode: it is of the same
\* entry, open as it was, and has another size only if it is open
Rewrites(o, v) ==
  /\ v \in Inode /\ inodes' = [inodes EXCEPT ![o] = v]
  /\ v.slot = inodes[o].slot /\ v.hashed = inodes[o].hashed /\ v.open = inodes[o].open
  /\ v.size # inodes[o].size => inodes[o].open

\* mark_inode_dirty, mapping a buffer and a new size are of that kind
LEMMA RewriteShapes ==
  ASSUME NEW ino \in Inode
  PROVE  /\ \A d \in {ino, Dirtied(ino)} :
              /\ d \in Inode /\ d.slot = ino.slot /\ d.hashed = ino.hashed
              /\ d.open = ino.open /\ d.size = ino.size
         /\ \A m \in [Idx -> Pointers] :
              LET w == [ino EXCEPT !.mapped = m]
              IN /\ w \in Inode /\ w.slot = ino.slot /\ w.hashed = ino.hashed
                 /\ w.open = ino.open /\ w.size = ino.size
         /\ \A z \in 0..MaxSize :
              LET w == [ino EXCEPT !.size = z]
              IN /\ w \in Inode /\ w.slot = ino.slot /\ w.hashed = ino.hashed
                 /\ w.open = ino.open
<1>1. Dirtied(ino) \in Inode
  BY DirtiedType
<1> QED
  BY <1>1 DEF Inode, Dirtied

\* sfs_write_begin, done or failed
LEMMA WriteRewrites ==
  ASSUME TypeOK, NEW o \in Objs, NEW i \in Idx, WriteBegin(o, i) \/ WriteFails(o, i)
  PROVE  /\ IsInode(o) /\ \E v : Rewrites(o, v)
         /\ \A t \in Slots : table'[t].size = table[t].size
<1>1. IsInode(o) /\ inodes[o] \in Inode
  BY DEF WriteBegin, WriteFails, CanWrite, TypeOK, IsInode
<1>2. \A ino \in Touched(o) : /\ ino \in Inode /\ ino.slot = inodes[o].slot
                              /\ ino.hashed = inodes[o].hashed /\ ino.open = inodes[o].open
                              /\ ino.size = inodes[o].size
  BY <1>1, RewriteShapes DEF Touched
<1>3. ASSUME NEW ino \in Touched(o), inodes' = [inodes EXCEPT ![o] = ino]
      PROVE  Rewrites(o, ino)
  BY <1>2, <1>3 DEF Rewrites
<1>4. ASSUME NEW ino \in Touched(o), NEW m \in [Idx -> Pointers],
             inodes' = [inodes EXCEPT ![o] = [ino EXCEPT !.mapped = m]]
      PROVE  \E v : Rewrites(o, v)
  <2>1. PICK v : v = [ino EXCEPT !.mapped = m]
    OBVIOUS
  <2>2. /\ v \in Inode /\ v.slot = ino.slot /\ v.hashed = ino.hashed
        /\ v.open = ino.open /\ v.size = ino.size
    BY <1>2, <2>1, RewriteShapes
  <2>3. Rewrites(o, v)
    BY <1>2, <1>4, <2>1, <2>2 DEF Rewrites
  <2> QED
    BY <2>3
<1>5. ASSUME NEW ino \in Touched(o), NEW b \in Reachable(o)
      PROVE  /\ [ino.mapped EXCEPT ![i] = b] \in [Idx -> Pointers]
             /\ UnmapPast([ino.mapped EXCEPT ![i] = b], ino.size) \in [Idx -> Pointers]
  BY <1>1, <1>2, ReachableType, UnmapPastType DEF Inode, Pointers
<1>6. \A b \in Reachable(o) : GetBlock(o, i, b) => \A t \in Slots : table'[t].size = table[t].size
  <2> SUFFICES ASSUME NEW b \in Reachable(o), GetBlock(o, i, b), NEW t \in Slots
               PROVE  table'[t].size = table[t].size
    OBVIOUS
  <2>1. inodes[o].slot \in Slots /\ table[inodes[o].slot] \in Entry
    BY <1>1 DEF TypeOK, Inode
  <2>2. CASE table' = [table EXCEPT ![inodes[o].slot].blocks[i] = b]
    <3>1. CASE t = inodes[o].slot
      BY <2>1, <2>2, <3>1 DEF TypeOK, Entry
    <3>2. CASE t # inodes[o].slot
      BY <2>1, <2>2, <3>2 DEF TypeOK
    <3> QED
      BY <3>1, <3>2
  <2> QED
    BY <2>2 DEF GetBlock
<1>7. CASE WriteBegin(o, i)
  <2>1. PICK ino \in Touched(o) :
          \/ inodes' = [inodes EXCEPT ![o] = ino] /\ UNCHANGED table
          \/ \E b \in Reachable(o) :
               /\ GetBlock(o, i, b)
               /\ inodes' = [inodes EXCEPT ![o] = [ino EXCEPT !.mapped[i] = b]]
    BY <1>7, Zenon DEF WriteBegin
  <2>2. ASSUME NEW b \in Reachable(o),
               inodes' = [inodes EXCEPT ![o] = [ino EXCEPT !.mapped[i] = b]]
        PROVE  \E v : Rewrites(o, v)
    <3>1. [ino EXCEPT !.mapped[i] = b] = [ino EXCEPT !.mapped = [ino.mapped EXCEPT ![i] = b]]
      BY <1>2 DEF Inode
    <3> QED
      BY <1>4, <1>5, <2>2, <3>1
  <2> QED
    BY <1>1, <1>3, <1>6, <2>1, <2>2
<1>8. CASE WriteFails(o, i)
  <2>1. PICK b \in Reachable(o), ino \in Touched(o) :
          /\ GetBlock(o, i, b)
          /\ inodes' = [inodes EXCEPT
               ![o] = [ino EXCEPT !.mapped = UnmapPast([@ EXCEPT ![i] = b], ino.size)]]
    BY <1>8, Zenon DEF WriteFails
  <2>2. [ino EXCEPT !.mapped = UnmapPast([@ EXCEPT ![i] = b], ino.size)]
          = [ino EXCEPT !.mapped = UnmapPast([ino.mapped EXCEPT ![i] = b], ino.size)]
    BY <1>2 DEF Inode
  <2> QED
    BY <1>1, <1>4, <1>5, <1>6, <2>1, <2>2
<1> QED
  BY <1>7, <1>8

\* The other handlers of a file
LEMMA FileRewrites ==
  ASSUME TypeOK, TypeOK', NEW o \in Objs,
         \/ \E r \in 0..BlockSize : WriteEnd(o, r)
         \/ \E i \in Idx : ReadBlock(o, i)
         \/ \E i \in 0..BlockCnt : WriteRefused(o, i)
         \/ \E size \in 0..MaxSize : Truncate(o, size)
         \/ DropPages(o)
  PROVE  IsInode(o) /\ \E v : Rewrites(o, v)
<1>1. IsInode(o) /\ inodes[o] \in Inode /\ (writing[o] # NoWrite => inodes[o].open /\ writing[o] \in Idx)
  BY DEF WriteEnd, ReadBlock, WriteRefused, CanWrite, Truncate, DropPages, TypeOK, IsInode
<1>2. ASSUME NEW v, inodes' = [inodes EXCEPT ![o] = v],
             v = inodes[o] \/ \E z \in 0..MaxSize, m \in [Idx -> Pointers], d \in {inodes[o], Dirtied(inodes[o])} :
               /\ v = [d EXCEPT !.size = z, !.mapped = m]
               /\ z # d.size => d.open
      PROVE  \E w : Rewrites(o, w)
  <2>1. CASE v = inodes[o]
    BY <1>1, <1>2, <2>1 DEF Rewrites
  <2>2. ASSUME NEW z \in 0..MaxSize, NEW m \in [Idx -> Pointers], NEW d \in {inodes[o], Dirtied(inodes[o])},
               v = [d EXCEPT !.size = z, !.mapped = m], z # d.size => d.open
        PROVE  Rewrites(o, v)
    <3>1. /\ d \in Inode /\ d.slot = inodes[o].slot /\ d.hashed = inodes[o].hashed
          /\ d.open = inodes[o].open /\ d.size = inodes[o].size
      BY <1>1, <2>2, RewriteShapes
    <3>2. /\ v \in Inode /\ v.slot = d.slot /\ v.hashed = d.hashed /\ v.open = d.open /\ v.size = z
      BY <2>2, <3>1 DEF Inode
    <3> QED
      BY <1>2, <2>2, <3>1, <3>2 DEF Rewrites
  <2> QED
    BY <1>2, <2>1, <2>2
<1>3. \A d \in {inodes[o], Dirtied(inodes[o])} :
        /\ d \in Inode /\ d.mapped \in [Idx -> Pointers] /\ d.size \in 0..MaxSize
        /\ d.open = inodes[o].open /\ d.size = inodes[o].size
  BY <1>1, RewriteShapes DEF Inode
<1>4. ASSUME NEW r \in 0..BlockSize, WriteEnd(o, r) PROVE \E w : Rewrites(o, w)
  <2>1. writing[o] \in Idx /\ inodes[o].open
    BY <1>1, <1>4 DEF WriteEnd
  <2>2. PICK end : end = writing[o] * BlockSize + r
    OBVIOUS
  <2>3. end \in 0..MaxSize
    BY <2>1, <2>2, WriteEndSize
  <2>4. \/ inodes' = [inodes EXCEPT ![o] = inodes[o]]
        \/ inodes' = [inodes EXCEPT ![o] = [Dirtied(inodes[o]) EXCEPT !.size = end]]
    BY <1>4, <2>2 DEF WriteEnd
  <2>5. [Dirtied(inodes[o]) EXCEPT !.size = end]
          = [Dirtied(inodes[o]) EXCEPT !.size = end, !.mapped = Dirtied(inodes[o]).mapped]
    BY <1>3 DEF Inode
  <2> QED
    BY <1>2, <1>3, <2>1, <2>3, <2>4, <2>5
<1>5. ASSUME NEW i \in Idx, ReadBlock(o, i) PROVE \E w : Rewrites(o, w)
  <2>1. PICK m : m = [inodes[o].mapped EXCEPT ![i] = table[inodes[o].slot].blocks[i]]
    OBVIOUS
  <2>2. m \in [Idx -> Pointers]
    <3>1. table[inodes[o].slot].blocks[i] \in Pointers
      BY <1>1 DEF TypeOK, Inode, Entry
    <3> QED
      BY <1>3, <2>1, <3>1
  <2>3. inodes' = [inodes EXCEPT ![o] = [inodes[o] EXCEPT !.mapped = m]]
    BY <1>5, <2>1 DEF ReadBlock
  <2>4. [inodes[o] EXCEPT !.mapped = m] = [inodes[o] EXCEPT !.size = inodes[o].size, !.mapped = m]
    BY <1>1 DEF Inode
  <2> QED
    BY <1>2, <1>3, <2>2, <2>3, <2>4
<1>6. ASSUME NEW size \in 0..MaxSize, Truncate(o, size) PROVE \E w : Rewrites(o, w)
  <2>1. PICK m : m = UnmapPast(inodes[o].mapped, size)
    OBVIOUS
  <2>2. m \in [Idx -> Pointers]
    BY <1>3, <2>1, UnmapPastType
  <2>3. inodes' = [inodes EXCEPT ![o] = [Dirtied(inodes[o]) EXCEPT !.size = size, !.mapped = m]]
        /\ inodes[o].open
    BY <1>6, <2>1 DEF Truncate
  <2> QED
    BY <1>2, <1>3, <2>2, <2>3
<1>7. ASSUME DropPages(o) PROVE \E w : Rewrites(o, w)
  <2>1. NoBlocks \in [Idx -> Pointers]
    BY DEF NoBlocks, Pointers
  <2>2. inodes' = [inodes EXCEPT ![o] = [inodes[o] EXCEPT !.mapped = NoBlocks]]
    BY <1>7 DEF DropPages
  <2>3. [inodes[o] EXCEPT !.mapped = NoBlocks]
          = [inodes[o] EXCEPT !.size = inodes[o].size, !.mapped = NoBlocks]
    BY <1>1 DEF Inode
  <2> QED
    BY <1>2, <1>3, <2>1, <2>2, <2>3
<1>8. ASSUME NEW i \in 0..BlockCnt, WriteRefused(o, i) PROVE \E w : Rewrites(o, w)
  <2>1. PICK d \in {inodes[o], Dirtied(inodes[o])} :
          inodes' = [inodes EXCEPT ![o] = [d EXCEPT !.mapped = UnmapPast(@, d.size)]]
    BY <1>8, RefusedIs DEF Touched
  <2>2. PICK m : m = UnmapPast(d.mapped, d.size)
    OBVIOUS
  <2>3. m \in [Idx -> Pointers]
    BY <1>3, <2>2, UnmapPastType
  <2>4. [d EXCEPT !.mapped = UnmapPast(@, d.size)] = [d EXCEPT !.size = d.size, !.mapped = m]
    BY <1>3, <2>2 DEF Inode
  <2> QED
    BY <1>2, <1>3, <2>1, <2>3, <2>4
<1> QED
  BY <1>1, <1>4, <1>5, <1>6, <1>7, <1>8

\* sfs_write_inode
LEMMA FlushRewrites ==
  ASSUME Tame, TypeOK, NEW o \in Objs, WriteInode(o)
  PROVE  /\ IsInode(o) /\ \E v : Rewrites(o, v) /\ v.size = inodes[o].size
         /\ table'[inodes[o].slot].size = inodes[o].size
         /\ \A t \in Slots \ {inodes[o].slot} : table'[t].size = table[t].size
<1>1. IsInode(o) /\ inodes[o] \in Inode /\ inodes[o].slot \in Slots
  BY DEF WriteInode, TypeOK, IsInode, Inode
<1>2. PICK v : v = [inodes[o] EXCEPT !.dirty = FALSE]
  OBVIOUS
<1>3. /\ v \in Inode /\ v.slot = inodes[o].slot /\ v.hashed = inodes[o].hashed
      /\ v.open = inodes[o].open /\ v.size = inodes[o].size
  BY <1>1, <1>2 DEF Inode
<1>4. Rewrites(o, v)
  BY <1>2, <1>3 DEF WriteInode, Rewrites
<1>5. table' = [table EXCEPT ![inodes[o].slot] = Resized(@, inodes[o].size)]
  BY DEF WriteInode, Tame
<1>6. \A e \in Entry : \A z : Resized(e, z).size = z
  BY DEF Entry, Resized
<1> QED
  BY <1>1, <1>3, <1>4, <1>5, <1>6 DEF TypeOK

\* Writing an inode back saves the size of the file it is of
LEMMA FlushStep ==
  ASSUME Tame, Before, Before', InodesKept, OpenNamed, SeenTruth, SeenTruth', NEW o \in Objs,
         WriteInode(o), NamesKept
  PROVE  Store!Next
<1>1. TypeOK /\ NamesOnce /\ NamesOnce'
  BY DEF Before
<1>2. PICK s \in Slots : s = inodes[o].slot
  BY <1>1 DEF WriteInode, TypeOK, IsInode, Inode
<1>3. /\ IsInode(o) /\ table'[s].size = inodes[o].size
      /\ \A t \in Slots \ {s} : table'[t].size = table[t].size
  BY <1>1, <1>2, FlushRewrites
<1>4. PICK v : Rewrites(o, v) /\ v.size = inodes[o].size
  BY <1>1, FlushRewrites
<1>5. OpenFiles' = OpenFiles /\ Sees' = Sees
  BY <1>2, <1>3, <1>4, InodeRewritten DEF Rewrites, WriteInode
<1>6. Live(table[s]) /\ SizeIs(s, inodes[o].size)
  BY <1>2, <1>3, HashedIs
<1>7. PICK n \in Names : n = table[s].name
  BY <1>1, <1>6 DEF TypeOK, Entry, Live
<1>8. s \in SlotsNamed(table, n) /\ \A m \in Names \ {n} : s \notin SlotsNamed(table, m)
  BY <1>6, <1>7 DEF SlotsNamed
<1>9. \A m \in Names : SlotsNamed(table', m) = SlotsNamed(table, m)
  BY ScanKept
<1>10. SeenSize(n) = inodes[o].size
  BY <1>6, <1>8 DEF SeenTruth
<1>11. KeptSize(n)' = inodes[o].size
  BY <1>1, <1>3, <1>8, <1>9, SavedIs
<1>12. ASSUME NEW m \in Names \ {n} PROVE KeptSize(m)' = KeptSize(m)
  <2>1. \A t \in SlotsNamed(table, m) : table'[t].size = table[t].size
    BY <1>3, <1>8 DEF SlotsNamed
  <2> QED
    BY <1>9, <2>1, SavedKept
<1>13. Saved' = [Saved EXCEPT ![n] = Sees[n]]
  BY <1>10, <1>11, <1>12 DEF Saved, Sees
<1> QED
  BY <1>5, <1>13 DEF Store!Next, Store!Save, Saved, Sees, OpenFiles

-----------------------------------------------------------------------------
\* Looking a name up, dropping a dentry, evicting an inode and mounting do not
\* show: the inode that comes or goes has the size that the entry has
LEMMA CacheStep ==
  ASSUME Tame, Before, Before', InodesKept, InodesKept', OpenNamed, SeenTruth, SeenTruth',
         \/ Mount \/ (\E n \in Names : Lookup(n) \/ ReclaimDentry(n))
         \/ \E o \in Objs : EvictInode(o)
  PROVE  UNCHANGED View
<1>1. UNCHANGED table /\ NamesKept
  BY DEF Mount, Lookup, ReclaimDentry, EvictInode, NamesKept
<1>a. Saved' = Saved
  BY <1>1, SavedStays
<1>2. ASSUME \A s \in Slots : \A z : SizeIs(s, z) => SizeIs(s, z)' PROVE Sees' = Sees
  <2>1. ASSUME NEW n \in Names PROVE SeenSize(n)' = SeenSize(n)
    <3>1. SlotsNamed(table', n) = SlotsNamed(table, n) /\ SlotsNamed(table, n) \subseteq Slots
      BY <1>1 DEF SlotsNamed
    <3> QED
      BY <1>2, <3>1, SeenKept DEF Before
  <2> QED
    BY <2>1 DEF Sees
<1>3. \A n \in Names : dcache[n] \in Objs => IsInode(dcache[n])
  BY DEF Before, TypeOK
<1>4. CASE UNCHANGED inodes
  <2>1. \A s \in Slots : HashedAt(s)' = HashedAt(s)
    BY <1>4 DEF HashedAt, IsInode
  <2>2. Sees' = Sees
    BY <1>1, <1>2, <1>4, <2>1 DEF SizeIs
  <2>3. CASE UNCHANGED dcache
    BY <1>a, <1>4, <2>2, <2>3 DEF View, OpenFiles
  <2>4. ASSUME NEW n \in Names, Lookup(n) PROVE OpenFiles' = OpenFiles
    <3>1. /\ dcache[n] = Uncached /\ \A m \in Names \ {n} : dcache'[m] = dcache[m]
      BY <2>4 DEF Lookup, Before, TypeOK
    <3>2. ASSUME dcache'[n] \in Objs, inodes[dcache'[n]].open PROVE FALSE
      <4>1. IsInode(dcache'[n])
        BY <1>4, <3>2 DEF Before, TypeOK, IsInode
      <4>2. PICK m \in Names : dcache[m] = dcache'[n]
        BY <3>2, <4>1 DEF OpenNamed
      <4>3. m # n
        BY <3>1, <3>2, <4>2, ValuesAssumption
      <4>4. SlotsNamed(table, m) = {inodes[dcache'[n]].slot}
        BY <3>2, <4>2 DEF Before, PositiveTruth
      <4>5. SlotsNamed(table', n) = {inodes'[dcache'[n]].slot}
        BY <3>2 DEF Before, PositiveTruth
      <4>6. SlotsNamed(table, n) = {inodes[dcache'[n]].slot}
        BY <1>1, <1>4, <4>5
      <4> QED
        BY <4>3, <4>4, <4>6 DEF SlotsNamed
    <3>3. n \notin OpenFiles /\ n \notin OpenFiles'
      BY <1>4, <3>1, <3>2, ValuesAssumption DEF OpenFiles
    <3>4. \A m \in Names \ {n} : m \in OpenFiles <=> m \in OpenFiles'
      BY <1>4, <3>1 DEF OpenFiles
    <3> QED
      BY <3>3, <3>4 DEF OpenFiles
  <2>5. ASSUME NEW n \in Names, ReclaimDentry(n) PROVE OpenFiles' = OpenFiles
    <3>1. /\ \A m \in Names \ {n} : dcache'[m] = dcache[m]
          /\ dcache'[n] = Uncached /\ n \notin OpenFiles
      BY <2>5, ValuesAssumption DEF ReclaimDentry, Before, TypeOK, OpenFiles
    <3>2. n \notin OpenFiles'
      BY <3>1, ValuesAssumption DEF OpenFiles
    <3>4. \A m \in Names \ {n} : m \in OpenFiles <=> m \in OpenFiles'
      BY <1>4, <3>1 DEF OpenFiles
    <3> QED
      BY <3>1, <3>2, <3>4 DEF OpenFiles
  <2> QED
    BY <1>a, <2>2, <2>3, <2>4, <2>5 DEF View, Mount, EvictInode
<1>5. ASSUME NEW n \in Names, Lookup(n), ~UNCHANGED inodes PROVE UNCHANGED View
  <2>1. PICK s \in Slots, o \in Objs :
          /\ IsFirst(s, SlotsNamed(table, n)) /\ HashedAt(s) = {} /\ ~IsInode(o)
          /\ inodes' = [inodes EXCEPT ![o] = NewInode(s, table[s].size, TRUE)]
          /\ dcache' = [dcache EXCEPT ![n] = o] /\ dcache[n] = Uncached
    BY <1>5 DEF Lookup
  <2>2. PICK v : v = NewInode(s, table[s].size, TRUE)
    OBVIOUS
  <2>3. v \in Inode /\ v # NoInode /\ v.slot = s /\ v.size = table[s].size /\ v.hashed /\ ~v.open
    <3>1. table[s].size \in 0..MaxSize
      BY DEF Before, TypeOK, Entry
    <3> QED
      BY <2>2, <3>1, NewInodeType, ValuesAssumption DEF NewInode
  <2>4. inodes'[o] = v /\ \A p \in Objs \ {o} : inodes'[p] = inodes[p]
    BY <2>1, <2>2 DEF Before, TypeOK
  <2>5. \A t \in Slots : HashedAt(t)' = IF t = s THEN {o} ELSE HashedAt(t)
    <3>1. \A t \in Slots, p \in Objs \ {o} : p \in HashedAt(t)' <=> p \in HashedAt(t)
      BY <2>4 DEF HashedAt, IsInode
    <3>2. \A t \in Slots : o \notin HashedAt(t) /\ (o \in HashedAt(t)' <=> t = s)
      BY <2>1, <2>3, <2>4 DEF HashedAt, IsInode
    <3>3. \A t \in Slots : HashedAt(t) \subseteq Objs /\ HashedAt(t)' \subseteq Objs
      BY DEF HashedAt
    <3>4. HashedAt(s)' = {o}
      BY <2>1, <3>1, <3>2, <3>3
    <3>5. \A t \in Slots \ {s} : HashedAt(t)' = HashedAt(t)
      BY <3>1, <3>2, <3>3
    <3> QED
      BY <3>4, <3>5
  <2>6. \A t \in Slots \ {s} : \A p \in HashedAt(t) : inodes'[p] = inodes[p]
    BY <2>1, <2>4 DEF HashedAt
  <2>7. Sees' = Sees
    <3>1. \A z : SizeIs(s, z) => SizeIs(s, z)'
      BY <2>1, <2>3, <2>4, <2>5 DEF SizeIs
    <3>2. \A t \in Slots \ {s} : \A z : SizeIs(t, z) => SizeIs(t, z)'
      BY <1>1, <2>5, <2>6 DEF SizeIs
    <3> QED
      BY <1>2, <3>1, <3>2
  <2>8. n \notin OpenFiles /\ n \notin OpenFiles'
    BY <2>1, <2>3, <2>4, ValuesAssumption DEF OpenFiles, Before, TypeOK
  <2>9. \A m \in Names \ {n} : m \in OpenFiles <=> m \in OpenFiles'
    BY <1>3, <2>1, <2>4 DEF OpenFiles, Before, TypeOK
  <2>10. OpenFiles' = OpenFiles
    BY <2>8, <2>9 DEF OpenFiles
  <2> QED
    BY <1>a, <2>7, <2>10 DEF View
<1>6. ASSUME \A o \in Objs : inodes'[o] \in {inodes[o], NoInode},
             \A o \in Objs : inodes'[o] # inodes[o] => ~inodes[o].dirty
      PROVE  Sees' = Sees
  <2>1. ASSUME NEW s \in Slots, NEW z, SizeIs(s, z) PROVE SizeIs(s, z)'
    <3>1. CASE HashedAt(s)' = {}
      <4>1. \A o \in HashedAt(s) : inodes[o].size = table[s].size
        <5> SUFFICES ASSUME NEW o \in HashedAt(s) PROVE inodes[o].size = table[s].size
          OBVIOUS
        <5>1. o \in Objs /\ IsInode(o) /\ inodes[o].slot = s
          BY DEF HashedAt
        <5>2. inodes'[o] # inodes[o]
          BY <3>1, <5>1 DEF HashedAt, IsInode
        <5> QED
          BY <1>6, <5>1, <5>2 DEF InodesKept, InodeKept
      <4> QED
        BY <1>1, <2>1, <3>1, <4>1 DEF SizeIs
    <3>2. ASSUME NEW o \in HashedAt(s)' PROVE SizeIs(s, z)'
      <4>1. o \in HashedAt(s) /\ inodes'[o] = inodes[o] /\ o \in Objs
        BY <1>6, <3>2 DEF HashedAt, IsInode
      <4>2. z = inodes[o].size
        BY <2>1, <4>1, HashedIs DEF HashedAt
      <4> QED
        BY <3>2, <4>1, <4>2 DEF SizeIs
    <3> QED
      BY <3>1, <3>2
  <2> QED
    BY <1>2, <2>1
<1>8. ASSUME NEW o \in Objs, EvictInode(o) PROVE UNCHANGED View
  <2>1. \A p \in Objs : inodes'[p] = IF p = o THEN NoInode ELSE inodes[p]
    BY <1>8 DEF EvictInode, Before, TypeOK
  <2>2. ~inodes[o].dirty /\ UNCHANGED dcache /\ \A n \in Names : dcache[n] # o
    BY <1>8 DEF EvictInode
  <2>3. Sees' = Sees
    BY <1>6, <2>1, <2>2
  <2>4. OpenFiles' = OpenFiles
    BY <2>1, <2>2 DEF OpenFiles
  <2> QED
    BY <1>a, <2>3, <2>4 DEF View
<1>9. ASSUME NEW n \in Names, ReclaimDentry(n) PROVE UNCHANGED inodes
  <2> DEFINE dc == [dcache EXCEPT ![n] = Uncached]
  <2>1. \A o \in Objs : IsInode(o) => Dropped(inodes[o], o, dc) = inodes[o]
    BY DEF Dropped, InodesKept, InodeKept
  <2>2. \A o \in Objs : o = dcache[n] => IsInode(o)
    BY <1>3
  <2>3. inodes' = [o \in Objs |-> IF o = dcache[n] THEN Dropped(inodes[o], o, dc) ELSE inodes[o]]
    BY <1>9 DEF ReclaimDentry
  <2> HIDE DEF dc
  <2>4. \A o \in Objs : inodes'[o] = inodes[o]
    BY <2>1, <2>2, <2>3
  <2>5. inodes \in [Objs -> Inode \cup {NoInode}]
    BY DEF Before, TypeOK
  <2> QED
    BY <2>3, <2>4, <2>5
<1> QED
  BY <1>4, <1>5, <1>8, <1>9 DEF Mount

\* Unmounting takes some sizes back to the last ones saved: those of the inodes
\* that sfs_write_inode did not get to
LEMMA UnmountStep ==
  ASSUME Before, Before', InodesKept, SeenTruth, SeenTruth', NamesKept, Unmount
  PROVE  Store!Detach
<1>1. /\ TypeOK /\ NamesOnce /\ NamesOnce'
      /\ \A s \in Slots : table'[s] \in Leftover(s)
      /\ \A o \in Objs : inodes'[o] = NoInode
      /\ \A n \in Names : dcache'[n] = Uncached
  BY UnmountIs DEF Before
<1>2. OpenFiles = {} /\ OpenFiles' = {}
  BY <1>1, ValuesAssumption DEF Unmount, OpenFiles, TypeOK
<1>3. \A n \in Names : SlotsNamed(table', n) = SlotsNamed(table, n)
  BY ScanKept
<1>4. \A s \in Slots : SizeIs(s, table[s].size)'
  BY <1>1 DEF SizeIs, HashedAt, IsInode
<1>5. ASSUME NEW n \in Names
      PROVE  KeptSize(n)' = SeenSize(n)' /\ SeenSize(n)' \in {SeenSize(n), KeptSize(n)}
  <2>1. CASE SlotsNamed(table, n) = {}
    BY <1>1, <1>3, <2>1, SavedIs DEF SeenTruth
  <2>2. ASSUME NEW s \in SlotsNamed(table, n)
        PROVE  KeptSize(n)' = SeenSize(n)' /\ SeenSize(n)' \in {SeenSize(n), KeptSize(n)}
    <3>1. s \in Slots /\ s \in SlotsNamed(table', n)
      BY <1>3, <2>2 DEF SlotsNamed
    <3>2. SeenSize(n)' = table'[s].size
      BY <1>4, <3>1 DEF SeenTruth
    <3>3. KeptSize(n)' = table'[s].size
      BY <1>1, <3>1, SavedIs
    <3>4. KeptSize(n) = table[s].size
      BY <1>1, <2>2, SavedIs
    <3>5. ASSUME NEW o \in Objs, IsInode(o), inodes[o].slot = s,
                 table'[s] = Resized(table[s], inodes[o].size)
          PROVE  table'[s].size = SeenSize(n)
      <4>1. SizeIs(s, inodes[o].size)
        BY <3>5, HashedIs
      <4>2. SeenSize(n) = inodes[o].size
        BY <2>2, <4>1 DEF SeenTruth
      <4>3. Resized(table[s], inodes[o].size).size = inodes[o].size
        BY <1>1, <3>1 DEF Resized, TypeOK, Entry
      <4> QED
        BY <3>5, <4>2, <4>3
    <3>6. table'[s].size \in {SeenSize(n), table[s].size}
      BY <1>1, <3>1, <3>5 DEF Leftover
    <3> QED
      BY <3>2, <3>3, <3>4, <3>6
  <2> QED
    BY <2>1, <2>2
<1>6. PICK lost \in SUBSET Names : lost = {n \in Names : SeenSize(n)' = KeptSize(n)}
  OBVIOUS
<1>7. Sees' = [n \in Names |-> IF n \in lost THEN Saved[n] ELSE Sees[n]]
  BY <1>5, <1>6 DEF Sees, Saved
<1>8. Saved' = Sees'
  BY <1>5 DEF Sees, Saved
<1> QED
  BY <1>2, <1>7, <1>8 DEF Store!Detach, Sees, Saved, OpenFiles

-----------------------------------------------------------------------------
\* Creating a file makes its name, empty; creating one and taking it back does
\* not show
LEMMA CreateStep ==
  ASSUME Tame, Before, Before', InodesKept, InodesKept', SeenTruth, SeenTruth', NEW n \in Names,
         Create(n) \/ CreateUndone(n)
  PROVE  Store!Next \/ UNCHANGED View
<1>0. /\ Stored[n] = n /\ n # NoName /\ SlotsNamed(table, n) = {} /\ TypeOK
      /\ dcache[n] = Negative /\ ~ReadFails
  BY NamesAssumption DEF Tame, Before, Create, CreateUndone, NotThere
<1>1. PICK s \in FreeSlots(table), f \in {EmptyEntry, NewEntry(n)} :
        /\ table' = [table EXCEPT ![s] = f]
        /\ CreateUndone(n) => f = EmptyEntry
        /\ Create(n) => f = NewEntry(n)
        /\ Create(n) => \E o \in Objs :
             /\ ~IsInode(o)
             /\ inodes' = [inodes EXCEPT ![o] = NewInode(s, 0, HashedAt(s) = {})]
             /\ dcache' = [dcache EXCEPT ![n] = o]
  <2>1. CASE Create(n)
    <3>1. PICK s \in Slots, o \in Objs :
            /\ IsFirst(s, FreeSlots(table)) /\ ~IsInode(o)
            /\ table' = [table EXCEPT ![s] = NewEntry(n)]
            /\ inodes' = [inodes EXCEPT ![o] = NewInode(s, 0, HashedAt(s) = {})]
            /\ dcache' = [dcache EXCEPT ![n] = o]
      BY <2>1 DEF Create
    <3>2. s \in FreeSlots(table)
      BY <3>1 DEF IsFirst
    <3>3. CASE ~CreateUndone(n)
      BY <2>1, <3>1, <3>2, <3>3
    <3>4. CASE CreateUndone(n)
      BY <3>1, <3>4, ValuesAssumption DEF CreateUndone, Before, TypeOK
    <3> QED
      BY <3>3, <3>4
  <2>2. CASE CreateUndone(n) /\ ~Create(n)
    BY <1>0, <2>2 DEF CreateUndone, IsFirst
  <2> QED
    BY <2>1, <2>2
<1>2. s \in Slots /\ ~Live(table[s]) /\ table'[s] = f /\ \A t \in Slots \ {s} : table'[t] = table[t]
  BY <1>0, <1>1 DEF FreeSlots, TypeOK
<1>3. HashedAt(s) = {} /\ \A m \in Names : s \notin SlotsNamed(table, m)
  BY <1>2 DEF InodesKept, InodeKept, HashedAt, SlotsNamed
<1>4. \A m \in Names : (f = NewEntry(n) => m # n) => SlotsNamed(table', m) = SlotsNamed(table, m)
  <2>1. f = NewEntry(n) => f.name = n
    BY <1>0 DEF NewEntry
  <2>2. f = EmptyEntry => ~Live(f)
    BY DEF EmptyEntry, Live
  <2> QED
    BY <1>2, <2>1, <2>2, <1>1 DEF SlotsNamed
<1>5. ASSUME \A t \in Slots \ {s} : HashedAt(t)' = HashedAt(t),
             \A t \in Slots \ {s} : \A p \in HashedAt(t) : inodes'[p] = inodes[p],
             NEW m \in Names, f = NewEntry(n) => m # n
      PROVE  SeenSize(m)' = SeenSize(m)
  <2>1. SlotsNamed(table, m) \subseteq Slots \ {s}
    BY <1>3 DEF SlotsNamed
  <2>2. \A t \in Slots \ {s} : \A z : SizeIs(t, z) => SizeIs(t, z)'
    BY <1>2, <1>5 DEF SizeIs
  <2>3. SlotsNamed(table', m) = SlotsNamed(table, m)
    BY <1>4, <1>5
  <2> QED
    BY <1>0, <2>1, <2>2, <2>3, SeenKept
<1>b. ASSUME NEW m \in Names, f = NewEntry(n) => m # n PROVE KeptSize(m)' = KeptSize(m)
  <2>1. SlotsNamed(table', m) = SlotsNamed(table, m)
    BY <1>b, <1>4
  <2>2. \A t \in SlotsNamed(table, m) : table'[t].size = table[t].size
    BY <1>2, <1>3 DEF SlotsNamed
  <2> QED
    BY <2>1, <2>2, SavedKept
<1>6. CASE CreateUndone(n)
  <2>1. UNCHANGED <<dcache, inodes>> /\ f = EmptyEntry /\ f # NewEntry(n)
    <3>1. EmptyEntry.name # NewEntry(n).name
      BY <1>0 DEF EmptyEntry, NewEntry
    <3> QED
      BY <1>1, <1>6, <3>1 DEF CreateUndone
  <2>2. \A t \in Slots : HashedAt(t)' = HashedAt(t)
    BY <2>1 DEF HashedAt, IsInode
  <2>3. \A m \in Names : SeenSize(m)' = SeenSize(m)
    BY <1>5, <2>1, <2>2
  <2>4. Sees' = Sees /\ Saved' = Saved /\ OpenFiles' = OpenFiles
    BY <1>b, <2>1, <2>3 DEF Sees, Saved, OpenFiles
  <2> QED
    BY <2>4 DEF View
<1>7. CASE Create(n)
  <2>1. PICK o \in Objs : /\ ~IsInode(o)
                          /\ inodes' = [inodes EXCEPT ![o] = NewInode(s, 0, HashedAt(s) = {})]
                          /\ dcache' = [dcache EXCEPT ![n] = o]
    BY <1>1, <1>7
  <2>2. PICK v : v = NewInode(s, 0, TRUE)
    OBVIOUS
  <2>3. v \in Inode /\ v # NoInode /\ v.slot = s /\ v.size = 0 /\ v.hashed /\ ~v.open
    <3>1. 0 \in 0..MaxSize
      BY LayoutAssumption DEF MaxSize
    <3> QED
      BY <1>2, <2>2, <3>1, NewInodeType, ValuesAssumption DEF NewInode
  <2>4. inodes'[o] = v /\ \A p \in Objs \ {o} : inodes'[p] = inodes[p]
    <3>1. (HashedAt(s) = {}) = TRUE
      BY <1>3
    <3> QED
      BY <1>0, <2>1, <2>2, <3>1 DEF TypeOK
  <2>5. \A t \in Slots, p \in Objs \ {o} : p \in HashedAt(t)' <=> p \in HashedAt(t)
    BY <2>4 DEF HashedAt, IsInode
  <2>6. \A t \in Slots : o \notin HashedAt(t) /\ (o \in HashedAt(t)' <=> t = s)
    BY <2>1, <2>3, <2>4 DEF HashedAt, IsInode
  <2>7. \A t \in Slots : HashedAt(t) \subseteq Objs /\ HashedAt(t)' \subseteq Objs
    BY DEF HashedAt
  <2>8. HashedAt(s)' = {o}
    BY <1>2, <1>3, <2>1, <2>5, <2>6, <2>7
  <2>9. \A t \in Slots \ {s} : HashedAt(t)' = HashedAt(t)
    BY <2>5, <2>6, <2>7
  <2>10. \A t \in Slots \ {s} : \A p \in HashedAt(t) : inodes'[p] = inodes[p]
    BY <2>4, <2>6, <2>7
  <2>11. SeenSize(n)' = 0
    <3>1. s \in SlotsNamed(table', n)
      <4>1. f.name = n
        BY <1>0, <1>1, <1>7 DEF NewEntry
      <4> QED
        BY <1>0, <1>2, <4>1 DEF SlotsNamed, Live
    <3>2. SizeIs(s, 0)'
      BY <2>3, <2>4, <2>8 DEF SizeIs
    <3> QED
      BY <3>1, <3>2 DEF SeenTruth
  <2>12. Sees' = [Sees EXCEPT ![n] = 0]
    <3>1. \A m \in Names \ {n} : SeenSize(m)' = SeenSize(m)
      BY <1>5, <2>9, <2>10
    <3> QED
      BY <2>11, <3>1, SeesOne
  <2>16. Saved' = [Saved EXCEPT ![n] = 0]
    <3>1. f = NewEntry(n) /\ f.size = 0 /\ f.name = n
      BY <1>0, <1>1, <1>7 DEF NewEntry
    <3>2. s \in SlotsNamed(table', n) /\ NamesOnce'
      BY <1>0, <1>2, <3>1 DEF SlotsNamed, Live, Before
    <3>3. KeptSize(n)' = 0
      BY <1>2, <3>1, <3>2, SavedIs
    <3>4. \A m \in Names \ {n} : KeptSize(m)' = KeptSize(m)
      BY <1>b
    <3> QED
      BY <3>3, <3>4 DEF Saved
  <2>13. Sees[n] = Negative
    BY <1>0 DEF Sees, SeenTruth
  <2>14. OpenFiles' = OpenFiles
    <3>1. n \notin OpenFiles /\ n \notin OpenFiles'
      BY <1>0, <2>1, <2>3, <2>4, ValuesAssumption DEF OpenFiles, TypeOK
    <3>2. \A m \in Names \ {n} : m \in OpenFiles <=> m \in OpenFiles'
      BY <1>0, <2>1, <2>4 DEF OpenFiles, TypeOK
    <3> QED
      BY <3>1, <3>2 DEF OpenFiles
  <2>15. Store!Make(n)
    BY <2>12, <2>13, <2>14, <2>16 DEF Store!Make, Sees, Saved, OpenFiles
  <2> QED
    BY <2>15 DEF Store!Next
<1> QED
  BY <1>6, <1>7

\* Removing a file that nobody has open erases its name
LEMMA UnlinkStep ==
  ASSUME Tame, Before, Before', InodesKept, InodesKept', SeenTruth, SeenTruth', NEW n \in Names, Unlink(n)
  PROVE  Store!Next
<1>0. TypeOK
  BY DEF Before
<1>1. PICK o \in Objs : o = dcache[n]
  BY DEF Unlink
<1>2. ~inodes[o].open /\ IsInode(o)
  BY <1>1 DEF Unlink, Tame, Before, TypeOK
<1>3. PICK s \in Slots : s = inodes[o].slot /\ SlotsNamed(table, n) = {s}
  BY <1>1, NamedIs
<1>4. /\ inodes[o].size \in 0..MaxSize /\ SizeIs(s, inodes[o].size) /\ HashedAt(s) = {o}
      /\ \A m \in Names \ {n} : s \notin SlotsNamed(table, m) /\ dcache[m] # o
  BY <1>1, <1>2, <1>3, HashedIs, NamedIs DEF Inode
<1>5. /\ table'[s] = EmptyEntry /\ \A t \in Slots \ {s} : table'[t] = table[t]
  BY <1>0, <1>3 DEF Unlink, IsFirst, TypeOK
<1>6. /\ dcache'[n] = Negative /\ \A m \in Names \ {n} : dcache'[m] = dcache[m]
      /\ \A p \in Objs \ {o} : inodes'[p] = inodes[p]
  BY <1>0, <1>1, <1>2 DEF Unlink, TypeOK
<1>7. \A m \in Names \ {n} : SlotsNamed(table', m) = SlotsNamed(table, m)
  BY <1>4, <1>5 DEF SlotsNamed, EmptyEntry, Live
<1>8. SlotsNamed(table', n) = {}
  BY <1>3, <1>5 DEF SlotsNamed, EmptyEntry, Live
<1>9. \A t \in Slots \ {s} : o \notin HashedAt(t) /\ o \notin HashedAt(t)'
  <2>1. \A p \in Objs : inodes'[p] # NoInode => Live(table'[inodes'[p].slot])
    BY DEF InodesKept, InodeKept, IsInode
  <2>2. inodes'[o] # NoInode => inodes'[o].slot = s
    <3> DEFINE d == [Dirtied(inodes[o]) EXCEPT !.linked = FALSE]
    <3>1. d \in Inode /\ d.slot = s
      <4>1. inodes[o] \in Inode
        BY <1>0, <1>2 DEF TypeOK, IsInode
      <4> QED
        BY <1>3, <4>1, DirtiedType, DirtiedKeeps DEF Inode
    <3> DEFINE dc == [dcache EXCEPT ![n] = IF inodes[o].open THEN Uncached ELSE Negative]
    <3>2. inodes' = [inodes EXCEPT ![o] = Dropped(d, o, dc)]
      BY <1>1 DEF Unlink
    <3> HIDE DEF d, dc
    <3>3. inodes'[o] = Dropped(d, o, dc)
      BY <1>0, <3>2 DEF TypeOK
    <3> QED
      BY <3>1, <3>3, DroppedType
  <2> QED
    BY <1>3, <2>2 DEF HashedAt, IsInode
<1>10. \A t \in Slots \ {s} : HashedAt(t)' = HashedAt(t)
  <2>1. \A t \in Slots, p \in Objs \ {o} : p \in HashedAt(t)' <=> p \in HashedAt(t)
    BY <1>6 DEF HashedAt, IsInode
  <2>2. \A t \in Slots : HashedAt(t) \subseteq Objs /\ HashedAt(t)' \subseteq Objs
    BY DEF HashedAt
  <2> QED
    BY <1>9, <2>1, <2>2
<1>11. \A t \in Slots \ {s} : \A z : SizeIs(t, z) => SizeIs(t, z)'
  <2>1. \A t \in Slots \ {s} : \A p \in HashedAt(t) : inodes'[p] = inodes[p]
    BY <1>6, <1>9 DEF HashedAt
  <2> QED
    BY <1>5, <1>10, <2>1 DEF SizeIs
<1>12. ASSUME NEW m \in Names \ {n} PROVE SeenSize(m)' = SeenSize(m)
  <2>1. SlotsNamed(table, m) \subseteq Slots \ {s}
    BY <1>4 DEF SlotsNamed
  <2> QED
    BY <1>0, <1>7, <1>11, <2>1, SeenKept
<1>13. SeenSize(n)' = Negative
  BY <1>8 DEF SeenTruth
<1>14. Sees' = [Sees EXCEPT ![n] = Negative]
  BY <1>12, <1>13, SeesOne
<1>a. Saved' = [Saved EXCEPT ![n] = Negative]
  <2>1. KeptSize(n)' = Negative
    BY <1>8, SavedIs DEF Before
  <2>2. \A m \in Names \ {n} : KeptSize(m)' = KeptSize(m)
    <3> SUFFICES ASSUME NEW m \in Names \ {n} PROVE KeptSize(m)' = KeptSize(m)
      OBVIOUS
    <3>1. \A t \in SlotsNamed(table, m) : table'[t].size = table[t].size
      BY <1>4, <1>5 DEF SlotsNamed
    <3> QED
      BY <1>7, <3>1, SavedKept
  <2> QED
    BY <2>1, <2>2 DEF Saved
<1>15. Sees[n] # Negative
  BY <1>3, <1>4, NegativeAssumption DEF Sees, SeenTruth
<1>16. n \notin OpenFiles
  BY <1>1, <1>2 DEF OpenFiles
<1>17. OpenFiles' = OpenFiles
  <2>1. n \notin OpenFiles'
    BY <1>6, ValuesAssumption DEF OpenFiles
  <2>2. \A m \in Names \ {n} : m \in OpenFiles <=> m \in OpenFiles'
    BY <1>4, <1>6 DEF OpenFiles
  <2> QED
    BY <1>16, <2>1, <2>2 DEF OpenFiles
<1>18. Store!Erase(n)
  BY <1>a, <1>14, <1>15, <1>16, <1>17 DEF Store!Erase, Sees, Saved, OpenFiles
<1> QED
  BY <1>18 DEF Store!Next

-----------------------------------------------------------------------------
\* Dentries of open files are not dropped, and files are not removed while open
LEMMA OpenNamedStep ==
  ASSUME Tame, Before, Before', InodesKept, InodesKept', OpenNamed, [Next]_vars
  PROVE  OpenNamed'
<1>0. TypeOK /\ TypeOK'
  BY DEF Before
<1>1. ASSUME UNCHANGED dcache,
             \A o \in Objs : inodes'[o] # NoInode /\ inodes'[o].open => IsInode(o) /\ inodes[o].open
      PROVE  OpenNamed'
  BY <1>1 DEF OpenNamed, IsInode
<1>2. CASE UNCHANGED <<inodes, dcache>>
  BY <1>1, <1>2 DEF IsInode
<1>3. CASE Unmount
  BY <1>3 DEF Unmount, OpenNamed, IsInode
<1>4. ASSUME NEW n \in Names, Lookup(n) \/ Create(n) PROVE OpenNamed'
  <2>1. dcache[n] \notin Objs /\ \A m \in Names \ {n} : dcache'[m] = dcache[m]
    <3>1. \E d : dcache' = [dcache EXCEPT ![n] = d]
      BY <1>4 DEF Lookup, Create
    <3>2. dcache[n] \in {Uncached, Negative}
      BY <1>4 DEF Lookup, Create
    <3> QED
      BY <1>0, <3>1, <3>2, ValuesAssumption DEF TypeOK
  <2>2. \A o \in Objs : inodes'[o] # NoInode /\ inodes'[o].open => IsInode(o) /\ inodes[o].open
    BY <1>0, <1>4 DEF Lookup, Create, TypeOK, IsInode, NewInode
  <2> QED
    BY <2>1, <2>2 DEF OpenNamed, IsInode
<1>5. ASSUME NEW n \in Names, Unlink(n) \/ ReclaimDentry(n) PROVE OpenNamed'
  <2>1. /\ \A m \in Names \ {n} : dcache'[m] = dcache[m]
        /\ dcache[n] \in Objs => ~inodes[dcache[n]].open
    BY <1>0, <1>5, ValuesAssumption DEF Unlink, ReclaimDentry, Tame, TypeOK
  <2>2. \A o \in Objs \ {dcache[n]} : inodes'[o] = inodes[o]
    BY <1>0, <1>5 DEF Unlink, ReclaimDentry, TypeOK
  <2>3. dcache[n] \in Objs /\ inodes'[dcache[n]] # NoInode => ~inodes'[dcache[n]].open
    <3> SUFFICES ASSUME NEW o \in Objs, o = dcache[n], inodes'[o] # NoInode PROVE ~inodes'[o].open
      OBVIOUS
    <3>1. inodes[o] \in Inode /\ ~inodes[o].open
      BY <1>0, <2>1 DEF TypeOK, IsInode
    <3>2. CASE Unlink(n)
      <4> DEFINE d == [Dirtied(inodes[o]) EXCEPT !.linked = FALSE]
                 dc == [dcache EXCEPT ![n] = IF inodes[o].open THEN Uncached ELSE Negative]
      <4>1. d \in Inode /\ d.open = inodes[o].open
        BY <3>1, DirtiedType DEF Inode
      <4>2. inodes' = [inodes EXCEPT ![o] = Dropped(d, o, dc)]
        BY <3>2 DEF Unlink
      <4> HIDE DEF d, dc
      <4>3. inodes'[o] = Dropped(d, o, dc)
        BY <1>0, <4>2 DEF TypeOK
      <4> QED
        BY <3>1, <4>1, <4>3, DroppedType
    <3>3. CASE ReclaimDentry(n)
      <4> DEFINE dc == [dcache EXCEPT ![n] = Uncached]
      <4>1. inodes'[o] = Dropped(inodes[o], o, dc)
        BY <3>3 DEF ReclaimDentry
      <4> HIDE DEF dc
      <4> QED
        BY <3>1, <4>1, DroppedType
    <3> QED
      BY <1>5, <3>2, <3>3
  <2>4. \A o \in Objs : inodes'[o] # NoInode /\ inodes'[o].open
                          => IsInode(o) /\ inodes[o].open /\ o # dcache[n]
    BY <2>2, <2>3 DEF IsInode
  <2> QED
    BY <2>1, <2>4 DEF OpenNamed, IsInode
<1>6. ASSUME NEW n \in Names, Open(n) PROVE OpenNamed'
  <2>1. UNCHANGED dcache /\ \A o \in Objs \ {dcache[n]} : inodes'[o] = inodes[o]
    BY <1>0, <1>6 DEF Open, TypeOK
  <2> QED
    BY <2>1 DEF OpenNamed, IsInode
<1>7. ASSUME NEW o \in Objs, Close(o) \/ EvictInode(o) PROVE OpenNamed'
  <2>1. UNCHANGED dcache /\ \A p \in Objs \ {o} : inodes'[p] = inodes[p]
    BY <1>0, <1>7 DEF Close, EvictInode, TypeOK
  <2>2. inodes'[o] # NoInode => ~inodes'[o].open
    <3>1. CASE EvictInode(o)
      BY <1>0, <3>1 DEF EvictInode, TypeOK
    <3>2. CASE Close(o)
      <4> DEFINE d == [inodes[o] EXCEPT !.open = FALSE]
      <4>0. inodes[o] \in Inode
        BY <1>0, <3>2 DEF Close, TypeOK, IsInode
      <4>1. d \in Inode /\ ~d.open
        BY <4>0 DEF Inode
      <4>2. inodes' = [inodes EXCEPT ![o] = Dropped(d, o, dcache)]
        BY <3>2 DEF Close
      <4> HIDE DEF d
      <4>3. inodes'[o] = Dropped(d, o, dcache)
        BY <1>0, <4>2 DEF TypeOK
      <4> QED
        BY <4>1, <4>3, DroppedType
    <3> QED
      BY <1>7, <3>1, <3>2
  <2> QED
    BY <1>1, <2>1, <2>2 DEF IsInode
<1>8. ASSUME NEW o \in Objs, NEW v, IsInode(o), Rewrites(o, v), UNCHANGED dcache PROVE OpenNamed'
  <2>1. inodes'[o] = v /\ \A p \in Objs \ {o} : inodes'[p] = inodes[p]
    BY <1>0, <1>8 DEF Rewrites, TypeOK
  <2> QED
    BY <1>1, <1>8, <2>1 DEF Rewrites, IsInode
<1>9. ASSUME NEW o \in Objs, NEW i \in Idx, WriteBegin(o, i) \/ WriteFails(o, i) PROVE OpenNamed'
  <2>1. UNCHANGED dcache
    BY <1>9 DEF WriteBegin, WriteFails
  <2> QED
    BY <1>0, <1>8, <1>9, <2>1, WriteRewrites
<1>10. ASSUME NEW o \in Objs,
              \/ \E r \in 0..BlockSize : WriteEnd(o, r)
              \/ \E i \in Idx : ReadBlock(o, i)
              \/ \E i \in 0..BlockCnt : WriteRefused(o, i)
              \/ \E size \in 0..MaxSize : Truncate(o, size)
              \/ DropPages(o)
       PROVE OpenNamed'
  <2>1. UNCHANGED dcache
    BY <1>10 DEF WriteEnd, ReadBlock, WriteRefused, Truncate, DropPages
  <2> QED
    BY <1>0, <1>8, <1>10, <2>1, FileRewrites
<1>11. ASSUME NEW o \in Objs, WriteInode(o) PROVE OpenNamed'
  <2>1. UNCHANGED dcache
    BY <1>11 DEF WriteInode
  <2> QED
    BY <1>0, <1>8, <1>11, <2>1, FlushRewrites
<1>12. CASE Mount \/ (\E n \in Names : CreateUndone(n)) \/ UNCHANGED vars
  BY <1>2, <1>12 DEF Mount, CreateUndone, vars
<1> QED
  BY <1>3, <1>4, <1>5, <1>6, <1>7, <1>9, <1>10, <1>11, <1>12 DEF Next, Directory, FileIO, Background

\* Every step is one of the store, or does not show
LEMMA StoreStep ==
  ASSUME Tame, Before, Before', InodesKept, InodesKept', OpenNamed, SeenTruth, SeenTruth', [Next]_vars
  PROVE  Store!Next \/ UNCHANGED View
<1>0. TypeOK /\ TypeOK'
  BY DEF Before
<1>1. ASSUME NEW o \in Objs, NEW v, IsInode(o), Rewrites(o, v), UNCHANGED dcache, NamesKept,
             \A t \in Slots : table'[t].size = table[t].size
      PROVE  Store!Next \/ UNCHANGED View
  <2>1. Saved' = Saved
    BY <1>1, SavedStays
  <2> QED
    BY <1>1, <2>1, InodeRewritten DEF Rewrites
<1>3. CASE UNCHANGED vars
  <2>1. \A n \in Names : SeenSize(n)' = SeenSize(n)
    BY <1>3 DEF vars, SeenSize, SlotOf, InodeOf, HashedAt, IsInode
  <2>2. NamesKept /\ Saved' = Saved
    BY <1>3, SavedStays DEF vars, NamesKept
  <2> QED
    BY <1>3, <2>1, <2>2 DEF View, Sees, OpenFiles, vars
<1>a. CASE Unmount /\ \A n \in Names : ~Create(n) /\ ~CreateUndone(n) /\ ~Unlink(n)
  BY <1>0, <1>a, UnmountStep, FileStepsKeepNames DEF Store!Next
<1>4. CASE \/ Mount \/ (\E n \in Names : Lookup(n) \/ ReclaimDentry(n))
           \/ \E o \in Objs : EvictInode(o)
  BY <1>4, CacheStep
<1>5. ASSUME NEW n \in Names, Create(n) \/ CreateUndone(n) PROVE Store!Next \/ UNCHANGED View
  BY <1>5, CreateStep
<1>6. ASSUME NEW n \in Names, Unlink(n) PROVE Store!Next
  BY <1>6, UnlinkStep
<1>7. CASE (\E n \in Names : Open(n)) \/ (\E o \in Objs : Close(o))
  BY <1>7, OpenCloseStep
<1>8. ASSUME NEW o \in Objs, NEW i \in Idx, WriteBegin(o, i) \/ WriteFails(o, i),
             \A n \in Names : ~Create(n) /\ ~CreateUndone(n) /\ ~Unlink(n)
      PROVE  Store!Next \/ UNCHANGED View
  <2>1. UNCHANGED dcache /\ NamesKept
    BY <1>0, <1>8, FileStepsKeepNames DEF WriteBegin, WriteFails
  <2> QED
    BY <1>0, <1>1, <1>8, <2>1, WriteRewrites
<1>9. ASSUME NEW o \in Objs,
             \/ \E r \in 0..BlockSize : WriteEnd(o, r)
             \/ \E i \in Idx : ReadBlock(o, i)
             \/ \E i \in 0..BlockCnt : WriteRefused(o, i)
             \/ \E size \in 0..MaxSize : Truncate(o, size)
             \/ DropPages(o)
      PROVE  Store!Next \/ UNCHANGED View
  <2>1. UNCHANGED <<table, dcache>> /\ NamesKept
    BY <1>9 DEF WriteEnd, ReadBlock, WriteRefused, Truncate, DropPages, NamesKept
  <2> QED
    BY <1>0, <1>1, <1>9, <2>1, FileRewrites
<1>10. ASSUME NEW o \in Objs, WriteInode(o),
              \A n \in Names : ~Create(n) /\ ~CreateUndone(n) /\ ~Unlink(n)
       PROVE  Store!Next \/ UNCHANGED View
  <2>1. NamesKept
    BY <1>0, <1>10, FileStepsKeepNames
  <2> QED
    BY <1>10, <2>1, FlushStep
<1> QED
  BY <1>a, <1>3, <1>4, <1>5, <1>6, <1>7, <1>8, <1>9, <1>10 DEF Next, Directory, FileIO, Background

\* While names are stored whole, the table can be read and no file is removed
\* while it is open, the file system with its caches, flusher, evictions and
\* remounts implements the store of FileStore: programs see names come and go by
\* create and unlink, and sizes change by writes and truncations of files they
\* have open; and unmounting, which may not save them, takes sizes back only to
\* the last that sfs_write_inode wrote.  Holes, writing back in the middle of a
\* write and failing copies do not show in names and sizes
THEOREM ImplementsFileStore ==
  ASSUME Tame
  PROVE  Spec => StoreSpec
<1>1. Init => Store!Init
  <2> SUFFICES ASSUME Init PROVE Store!Init
    OBVIOUS
  <2>1. \A n \in Names : SlotsNamed(table, n) = {}
    BY DEF Init, SlotsNamed, EmptyEntry, Live
  <2>2. \A n \in Names : SeenSize(n) = Negative
    BY <2>1 DEF SeenSize
  <2>3. \A n \in Names : dcache[n] \notin Objs
    BY ValuesAssumption DEF Init
  <2>4. \A n \in Names : KeptSize(n) = Negative
    BY <2>1 DEF KeptSize
  <2> QED
    BY <2>2, <2>3, <2>4 DEF Store!Init
<1>2. Init => OpenNamed
  BY DEF Init, OpenNamed, IsInode
<1>3. Before /\ InodesKept => SeenTruth
  BY SeenFacts
<1>4. /\ Before /\ Before' /\ InodesKept /\ InodesKept' /\ OpenNamed /\ [Next]_vars => OpenNamed'
  BY OpenNamedStep
<1>5. /\ Before /\ Before' /\ InodesKept /\ InodesKept' /\ OpenNamed
      /\ SeenTruth /\ SeenTruth' /\ [Next]_vars
      => [Store!Next]_<<[n \in Names |-> SeenSize(n)], [n \in Names |-> KeptSize(n)],
                        {n \in Names : dcache[n] \in Objs /\ inodes[dcache[n]].open}>>
  BY StoreStep DEF View, Sees, Saved, OpenFiles
<1> QED
  BY <1>1, <1>2, <1>3, <1>4, <1>5, KeptInvariant, PTL DEF Spec, StoreSpec, Store!Spec
=============================================================================
