---------------------------- MODULE RealSfsProofs ----------------------------
(***************************************************************************)
(* Theorems about RealSfs for every layout, set of names and workload,     *)
(* proved with TLAPS.                                                      *)
(***************************************************************************)
EXTENDS RealSfs, SfsOpsProofs, TLAPS

-----------------------------------------------------------------------------
(* What the VFS helpers return *)

\* What sfs_get_block can return is data blocks
LEMMA ReachableType ==
  ASSUME TypeOK, NEW o \in Objs, IsInode(o)
  PROVE  Reachable(o) \subseteq DataBlocks
<1>1. table[inodes[o].slot] \in Entry
  BY DEF TypeOK, IsInode, Inode
<1> QED
  BY <1>1 DEF Reachable, FreeBlocks, Held, Entry, Pointers

\* sfs_get_block's table is a table, and its block a data block
LEMMA GetBlockType ==
  ASSUME TypeOK, NEW o \in Objs, IsInode(o), NEW i \in Idx, NEW b \in DataBlocks,
         GetBlock(o, i, b)
  PROVE  /\ table' \in [Slots -> Entry] /\ used' \in SUBSET Blocks
<1>1. inodes[o] \in Inode
  BY DEF TypeOK, IsInode
<1>2. inodes[o].slot \in Slots
  BY <1>1 DEF Inode
<1>3. b \in Pointers /\ b \in Blocks
  BY LayoutAssumption DEF DataBlocks, Pointers, Blocks
<1>4. CASE UNCHANGED <<table, used>>
  BY <1>4 DEF TypeOK
<1>5. CASE /\ table' = [table EXCEPT ![inodes[o].slot].blocks[i] = b]
           /\ used' = used \cup {b}
  BY <1>2, <1>3, <1>5 DEF TypeOK, Entry
<1> QED
  BY <1>4, <1>5 DEF GetBlock

\* A failed write leaves buffers of data blocks or unmapped
LEMMA UnmapPastType ==
  ASSUME NEW m \in [Idx -> Pointers], NEW size
  PROVE  UnmapPast(m, size) \in [Idx -> Pointers]
BY DEF UnmapPast, Pointers

\* The inode that lookup and create make
LEMMA NewInodeType ==
  ASSUME NEW s \in Slots, NEW size \in 0..MaxSize, NEW hashed \in BOOLEAN
  PROVE  NewInode(s, size, hashed) \in Inode
BY DEF NewInode, Inode, NoBlocks, Pointers

\* mark_inode_dirty keeps an inode an inode, open or not
LEMMA DirtiedType ==
  ASSUME NEW ino \in Inode
  PROVE  Dirtied(ino) \in Inode /\ Dirtied(ino).open = ino.open
BY DEF Dirtied, Inode

\* What unmounting leaves is entries
LEMMA LeftoverType ==
  ASSUME TypeOK, NEW s \in Slots
  PROVE  Leftover(s) \subseteq Entry
<1>1. table[s] \in Entry
  BY DEF TypeOK
<1>2. ASSUME NEW o \in Objs, IsInode(o)
      PROVE  Resized(table[s], inodes[o].size) \in Entry
  <2>1. inodes[o].size \in 0..MaxSize
    BY <1>2 DEF TypeOK, IsInode, Inode
  <2> QED
    BY <1>1, <2>1, ResizedType
<1> QED
  BY <1>1, <1>2 DEF Leftover

LEMMA UnmountIs ==
  ASSUME TypeOK, Unmount
  PROVE  /\ table' \in [Slots -> Entry]
         /\ \A s \in Slots : table'[s] \in Leftover(s)
         /\ \A o \in Objs : writing'[o] = NoWrite /\ inodes'[o] = NoInode
         /\ \A n \in Names : dcache'[n] = Uncached
         /\ mounted /\ mounted' = FALSE /\ used' = {}
<1> DEFINE L == UNION {Leftover(s) : s \in Slots}
<1>1. table' \in [Slots -> L] /\ \A s \in Slots : table'[s] \in Leftover(s)
  BY DEF Unmount
<1>2. L \subseteq Entry
  BY LeftoverType
<1> HIDE DEF L
<1>3. table' \in [Slots -> Entry]
  BY <1>1, <1>2
<1>4. \A o \in Objs : writing'[o] = NoWrite /\ inodes'[o] = NoInode
  BY DEF Unmount, TypeOK
<1> QED
  BY <1>1, <1>3, <1>4 DEF Unmount

\* What a write that is refused at its first block does
LEMMA RefusedIs ==
  ASSUME TypeOK, NEW o \in Objs, NEW i \in 0..BlockCnt, WriteRefused(o, i)
  PROVE  /\ IsInode(o) /\ inodes[o] \in Inode /\ inodes[o].open /\ writing[o] = NoWrite
         /\ mounted /\ UNCHANGED <<table, used, mounted, dcache, writing>>
         /\ \E ino \in Touched(o) :
              inodes' = [inodes EXCEPT ![o] = [ino EXCEPT !.mapped = UnmapPast(@, ino.size)]]
BY DEF WriteRefused, CanWrite, TypeOK, IsInode

\* iput discards only what is closed and has no dentry
LEMMA DroppedType ==
  ASSUME NEW ino \in Inode, NEW o, NEW dc
  PROVE  /\ Dropped(ino, o, dc) \in {ino, NoInode}
         /\ ino.open => Dropped(ino, o, dc) = ino
         /\ (\E n \in Names : dc[n] = o) => Dropped(ino, o, dc) = ino
BY DEF Dropped, Inode
-----------------------------------------------------------------------------
(* Types, in every workload *)

\* A step that gives one object a new inode, or discards the one it has
LEMMA InodeStep ==
  ASSUME TypeOK, mounted, mounted' = mounted,
         NEW o \in Objs, NEW v \in Inode \cup {NoInode},
         inodes' = [inodes EXCEPT ![o] = v],
         table' \in [Slots -> Entry], used' \in SUBSET Blocks,
         dcache' \in [Names -> Objs \cup {Uncached, Negative}],
         \A n \in Names : dcache'[n] \in {dcache[n], o, Uncached, Negative},
         v = NoInode => \A n \in Names : dcache'[n] # o,
         writing' \in [Objs -> Idx \cup {NoWrite}],
         \A p \in Objs : writing'[p] # NoWrite =>
           IF p = o THEN v # NoInode /\ v.open ELSE writing[p] # NoWrite
  PROVE  TypeOK'
<1>1. inodes' \in [Objs -> Inode \cup {NoInode}]
  BY DEF TypeOK
<1>2. ASSUME NEW n \in Names, dcache'[n] \in Objs
      PROVE  inodes'[dcache'[n]] # NoInode
  <2>1. CASE dcache'[n] = o
    BY <1>2, <2>1 DEF TypeOK
  <2>2. CASE dcache'[n] # o
    <3>1. dcache'[n] = dcache[n]
      BY <1>2, <2>2, ValuesAssumption
    <3> QED
      BY <1>2, <2>2, <3>1 DEF TypeOK, IsInode
  <2> QED
    BY <2>1, <2>2
<1>3. \A p \in Objs : writing'[p] # NoWrite => inodes'[p] # NoInode /\ inodes'[p].open
  BY DEF TypeOK, IsInode
<1>4. mounted'
  OBVIOUS
<1> QED
  BY <1>1, <1>2, <1>3, <1>4 DEF TypeOK, IsInode

\* The table, the tracker and the caches keep their types, in particular every
\* pointer is a data block: mount leaves no inode from before, an inode in
\* use has a place in its cache, and a write in progress has its file open
THEOREM TypeCorrect == Spec => []TypeOK
<1>1. Init => TypeOK
  BY EmptyEntryType, ValuesAssumption DEF Init, TypeOK, IsInode
<1>2. TypeOK /\ [Next]_vars => TypeOK'
  <2> SUFFICES ASSUME TypeOK, [Next]_vars PROVE TypeOK'
    OBVIOUS
  <2>0. \A o \in Objs : IsInode(o) => inodes[o] \in Inode
    BY DEF TypeOK, IsInode
  <2>1. CASE Mount
    BY <2>1, LayoutAssumption DEF Mount, TypeOK, IsInode, MarkedBlocks, MetaBlocks, Chain,
       LiveSlots, Blocks, Entry, Pointers, DataBlocks
  <2>2. CASE Unmount
    <3>1. /\ mounted' \in BOOLEAN /\ used' \in SUBSET Blocks
          /\ writing' \in [Objs -> Idx \cup {NoWrite}]
          /\ dcache' \in [Names -> Objs \cup {Uncached, Negative}]
          /\ inodes' \in [Objs -> Inode \cup {NoInode}]
      BY <2>2 DEF Unmount, TypeOK
    <3>2. /\ table' \in [Slots -> Entry]
          /\ \A o \in Objs : writing'[o] = NoWrite /\ inodes'[o] = NoInode
          /\ \A n \in Names : dcache'[n] \notin Objs
      BY <2>2, UnmountIs, ValuesAssumption
    <3> QED
      BY <3>1, <3>2 DEF TypeOK, IsInode
  <2>3. ASSUME NEW n \in Names, Lookup(n) PROVE TypeOK'
    <3>1. CASE dcache' = [dcache EXCEPT ![n] = Negative] /\ UNCHANGED inodes
      BY <2>3, <3>1, ValuesAssumption DEF Lookup, TypeOK, IsInode
    <3>2. CASE \E s \in Slots : \E o \in HashedAt(s) :
                 dcache' = [dcache EXCEPT ![n] = o] /\ UNCHANGED inodes
      BY <2>3, <3>2 DEF Lookup, TypeOK, IsInode, HashedAt
    <3>3. ASSUME NEW s \in Slots, NEW o \in Objs, ~IsInode(o),
                 inodes' = [inodes EXCEPT ![o] = NewInode(s, table[s].size, TRUE)],
                 dcache' = [dcache EXCEPT ![n] = o]
          PROVE  TypeOK'
      <4>1. table[s].size \in 0..MaxSize
        BY DEF TypeOK, Entry
      <4>2. NewInode(s, table[s].size, TRUE) \in Inode
        BY <4>1, NewInodeType
      <4>3. writing[o] = NoWrite
        BY <3>3 DEF TypeOK
      <4> QED
        BY <2>3, <3>3, <4>2, <4>3, InodeStep, ValuesAssumption DEF Lookup, TypeOK
    <3> QED
      BY <2>3, <3>1, <3>2, <3>3 DEF Lookup
  <2>4. ASSUME NEW n \in Names, Create(n) PROVE TypeOK'
    <3>1. PICK s \in Slots, o \in Objs :
            /\ ~IsInode(o)
            /\ table' = [table EXCEPT ![s] = NewEntry(n)]
            /\ inodes' = [inodes EXCEPT ![o] = NewInode(s, 0, HashedAt(s) = {})]
            /\ dcache' = [dcache EXCEPT ![n] = o]
      BY <2>4 DEF Create
    <3>2. NewInode(s, 0, HashedAt(s) = {}) \in Inode
      <4>1. 0 \in 0..MaxSize /\ (HashedAt(s) = {}) \in BOOLEAN
        BY LayoutAssumption DEF MaxSize
      <4> QED
        BY <4>1, NewInodeType
    <3>3. table' \in [Slots -> Entry]
      BY <3>1, NewEntryType DEF TypeOK
    <3>4. writing[o] = NoWrite
      BY <3>1 DEF TypeOK
    <3> QED
      BY <2>4, <3>1, <3>2, <3>3, <3>4, InodeStep, ValuesAssumption DEF Create, TypeOK
  <2>5. ASSUME NEW n \in Names, CreateUndone(n) PROVE TypeOK'
    <3>1. PICK s \in Slots, e \in {EmptyEntry, NewEntry(n)} : table' = [table EXCEPT ![s] = e]
      BY <2>5 DEF CreateUndone
    <3>2. table' \in [Slots -> Entry]
      BY <3>1, EmptyEntryType, NewEntryType DEF TypeOK
    <3> QED
      BY <2>5, <3>2 DEF CreateUndone, TypeOK, IsInode
  <2>6. ASSUME NEW n \in Names, Unlink(n) PROVE TypeOK'
    <3> DEFINE o == dcache[n]
               dc == [dcache EXCEPT ![n] = IF inodes[o].open THEN Uncached ELSE Negative]
               gone == [Dirtied(inodes[o]) EXCEPT !.linked = FALSE]
    <3>1. o \in Objs /\ IsInode(o) /\ inodes[o] \in Inode
      BY <2>0, <2>6 DEF Unlink, TypeOK
    <3>2. gone \in Inode /\ gone.open = inodes[o].open
      BY <3>1, DirtiedType DEF Inode
    <3>3. /\ dcache' = dc
          /\ inodes' = [inodes EXCEPT ![o] = Dropped(gone, o, dc)]
      BY <2>6 DEF Unlink
    <3>4. table' \in [Slots -> Entry] /\ used' \in SUBSET Blocks
      BY <2>6, EmptyEntryType DEF Unlink, TypeOK
    <3>5. dc \in [Names -> Objs \cup {Uncached, Negative}]
      BY DEF TypeOK
    <3> HIDE DEF gone, dc
    <3>6. /\ Dropped(gone, o, dc) \in Inode \cup {NoInode}
          /\ Dropped(gone, o, dc) = NoInode => \A m \in Names : dc[m] # o
          /\ gone.open => Dropped(gone, o, dc) = gone
      BY <3>2, DroppedType, ValuesAssumption
    <3>7. \A m \in Names : dc[m] \in {dcache[m], Uncached, Negative}
      BY DEF dc, TypeOK
    <3>8. writing[o] # NoWrite => gone.open
      BY <3>1, <3>2 DEF TypeOK
    <3>9. \A p \in Objs : writing[p] # NoWrite =>
            IF p = o THEN Dropped(gone, o, dc) # NoInode /\ Dropped(gone, o, dc).open
                     ELSE writing[p] # NoWrite
      BY <3>2, <3>6, <3>8, ValuesAssumption
    <3>10. mounted /\ mounted' = mounted /\ writing' = writing
      BY <2>6 DEF Unlink
    <3> HIDE DEF o
    <3> QED
      BY <3>1, <3>3, <3>4, <3>5, <3>6, <3>7, <3>9, <3>10, InodeStep DEF TypeOK
  <2>7. ASSUME NEW n \in Names, Open(n) PROVE TypeOK'
    <3> DEFINE o == dcache[n]
               v == [inodes[o] EXCEPT !.open = TRUE]
    <3>1. o \in Objs /\ inodes[o] \in Inode /\ IsInode(o)
      BY <2>0, <2>7 DEF Open, TypeOK
    <3>2. v \in Inode /\ v.open
      BY <3>1 DEF Inode
    <3>3. inodes' = [inodes EXCEPT ![o] = v]
      BY <2>7 DEF Open
    <3>4. mounted /\ mounted' = mounted /\ UNCHANGED <<table, used, dcache, writing>>
      BY <2>7, <3>1 DEF Open, TypeOK
    <3> HIDE DEF v, o
    <3> QED
      BY <3>1, <3>2, <3>3, <3>4, InodeStep, ValuesAssumption DEF TypeOK
  <2>8. ASSUME NEW o \in Objs, Close(o) PROVE TypeOK'
    <3> DEFINE v == Dropped([inodes[o] EXCEPT !.open = FALSE], o, dcache)
    <3>1. inodes[o] \in Inode /\ [inodes[o] EXCEPT !.open = FALSE] \in Inode
      BY <2>0, <2>8 DEF Close, Inode
    <3>2. v \in Inode \cup {NoInode} /\ (v = NoInode => \A n \in Names : dcache[n] # o)
      BY <3>1, DroppedType, ValuesAssumption
    <3>3. mounted /\ mounted' = mounted
      BY <2>8 DEF Close, TypeOK
    <3>4. writing[o] = NoWrite /\ inodes' = [inodes EXCEPT ![o] = v]
      BY <2>8 DEF Close
    <3>5. UNCHANGED <<table, used, dcache, writing>>
      BY <2>8 DEF Close
    <3> HIDE DEF v
    <3> QED
      BY <3>2, <3>3, <3>4, <3>5, InodeStep DEF TypeOK
  <2>9. ASSUME NEW o \in Objs, NEW i \in Idx, WriteBegin(o, i) PROVE TypeOK'
    <3>1. inodes[o] \in Inode /\ IsInode(o) /\ mounted /\ mounted' = mounted
      BY <2>0, <2>9 DEF WriteBegin, CanWrite, TypeOK
    <3>2. PICK ino \in Touched(o) :
            \/ /\ inodes' = [inodes EXCEPT ![o] = ino]
               /\ UNCHANGED <<table, used>>
            \/ \E b \in Reachable(o) :
                 /\ GetBlock(o, i, b)
                 /\ inodes' = [inodes EXCEPT ![o] = [ino EXCEPT !.mapped[i] = b]]
      BY <2>9, Zenon DEF WriteBegin
    <3>3. ino \in Inode /\ ino.open
      BY <2>9, <3>1, <3>2, DirtiedType DEF Touched, WriteBegin, CanWrite
    <3>4. \A b \in Reachable(o) : [ino EXCEPT !.mapped[i] = b] \in Inode
                                /\ [ino EXCEPT !.mapped[i] = b].open
      BY <3>1, <3>3, ReachableType DEF Inode, Pointers
    <3>5. table' \in [Slots -> Entry] /\ used' \in SUBSET Blocks
      BY <3>1, <3>2, ReachableType, GetBlockType DEF TypeOK
    <3>6. \E v \in Inode : v.open /\ inodes' = [inodes EXCEPT ![o] = v]
      BY <3>2, <3>3, <3>4
    <3>7. writing' = [writing EXCEPT ![o] = i] /\ dcache' = dcache
      BY <2>9 DEF WriteBegin
    <3> QED
      BY <3>1, <3>5, <3>6, <3>7, InodeStep, ValuesAssumption DEF TypeOK
  <2>10. ASSUME NEW o \in Objs, NEW i \in Idx, WriteFails(o, i) PROVE TypeOK'
    <3>1. inodes[o] \in Inode /\ IsInode(o) /\ mounted /\ mounted' = mounted
      BY <2>0, <2>10 DEF WriteFails, CanWrite, TypeOK
    <3>2. PICK b \in Reachable(o), ino \in Touched(o) :
            /\ GetBlock(o, i, b)
            /\ inodes' = [inodes EXCEPT
                 ![o] = [ino EXCEPT !.mapped = UnmapPast([@ EXCEPT ![i] = b], ino.size)]]
      BY <2>10 DEF WriteFails
    <3>3. ino \in Inode /\ ino.open
      BY <2>10, <3>1, <3>2, DirtiedType DEF Touched, WriteFails, CanWrite
    <3>4. UnmapPast([ino.mapped EXCEPT ![i] = b], ino.size) \in [Idx -> Pointers]
      BY <3>1, <3>3, ReachableType, UnmapPastType DEF Inode, Pointers
    <3>5. table' \in [Slots -> Entry] /\ used' \in SUBSET Blocks
      BY <3>1, <3>2, ReachableType, GetBlockType
    <3>6. \E v \in Inode : v.open /\ inodes' = [inodes EXCEPT ![o] = v]
      BY <3>2, <3>3, <3>4 DEF Inode
    <3>7. writing' = writing /\ dcache' = dcache
      BY <2>10 DEF WriteFails
    <3> QED
      BY <3>1, <3>5, <3>6, <3>7, InodeStep, ValuesAssumption DEF TypeOK
  <2>11. ASSUME NEW o \in Objs, NEW r \in 0..BlockSize, WriteEnd(o, r) PROVE TypeOK'
    <3>1. inodes[o] \in Inode /\ IsInode(o) /\ mounted /\ mounted' = mounted /\ inodes[o].open
      BY <2>0, <2>11 DEF WriteEnd, TypeOK
    <3> DEFINE end == writing[o] * BlockSize + r
    <3>2. end \in 0..MaxSize
      <4>1. writing[o] \in Idx
        BY <2>11 DEF WriteEnd, TypeOK
      <4> QED
        BY <4>1, WriteEndSize
    <3> HIDE DEF end
    <3>3. [Dirtied(inodes[o]) EXCEPT !.size = end] \in Inode
          /\ [Dirtied(inodes[o]) EXCEPT !.size = end].open
      BY <3>1, <3>2, DirtiedType DEF Inode
    <3>4. \E v \in Inode : v.open /\ inodes' = [inodes EXCEPT ![o] = v]
      BY <2>11, <3>1, <3>3 DEF WriteEnd, end
    <3>5. writing' = [writing EXCEPT ![o] = NoWrite] /\ UNCHANGED <<table, used, dcache>>
      BY <2>11 DEF WriteEnd
    <3> QED
      BY <3>1, <3>4, <3>5, InodeStep, ValuesAssumption DEF TypeOK
  <2>12. ASSUME NEW o \in Objs, NEW i \in Idx, ReadBlock(o, i) PROVE TypeOK'
    <3> DEFINE v == [inodes[o] EXCEPT !.mapped[i] = table[inodes[o].slot].blocks[i]]
    <3>1. inodes[o] \in Inode /\ IsInode(o) /\ mounted /\ mounted' = mounted /\ inodes[o].open
      BY <2>0, <2>12 DEF ReadBlock, TypeOK
    <3>2. table[inodes[o].slot].blocks[i] \in Pointers
      BY <3>1 DEF TypeOK, Inode, Entry
    <3>3. v \in Inode /\ v.open
      BY <3>1, <3>2 DEF Inode
    <3>4. inodes' = [inodes EXCEPT ![o] = v] /\ UNCHANGED <<table, used, dcache, writing>>
      BY <2>12 DEF ReadBlock
    <3> HIDE DEF v
    <3> QED
      BY <3>1, <3>3, <3>4, InodeStep, ValuesAssumption DEF TypeOK
  <2>13. ASSUME NEW o \in Objs, NEW size \in 0..MaxSize, Truncate(o, size) PROVE TypeOK'
    <3> DEFINE v == [Dirtied(inodes[o]) EXCEPT !.size = size,
                                               !.mapped = UnmapPast(inodes[o].mapped, size)]
    <3>1. inodes[o] \in Inode /\ IsInode(o) /\ mounted /\ mounted' = mounted /\ inodes[o].open
      BY <2>0, <2>13 DEF Truncate, TypeOK
    <3>2. v \in Inode /\ v.open
      <4>1. UnmapPast(inodes[o].mapped, size) \in [Idx -> Pointers]
        BY <3>1, UnmapPastType DEF Inode
      <4>2. \A d \in Inode, m \in [Idx -> Pointers] :
              /\ [d EXCEPT !.size = size, !.mapped = m] \in Inode
              /\ [d EXCEPT !.size = size, !.mapped = m].open = d.open
        BY DEF Inode
      <4> QED
        BY <3>1, <4>1, <4>2, DirtiedType
    <3>3. inodes' = [inodes EXCEPT ![o] = v] /\ UNCHANGED <<table, used, dcache, writing>>
      BY <2>13 DEF Truncate
    <3> HIDE DEF v
    <3> QED
      BY <3>1, <3>2, <3>3, InodeStep, ValuesAssumption DEF TypeOK
  <2>14. ASSUME NEW o \in Objs, WriteInode(o) PROVE TypeOK'
    <3> DEFINE v == [inodes[o] EXCEPT !.dirty = FALSE]
    <3>1. inodes[o] \in Inode /\ IsInode(o) /\ mounted /\ mounted' = mounted
      BY <2>0, <2>14 DEF WriteInode, TypeOK
    <3>2. v \in Inode /\ v.open = inodes[o].open
      BY <3>1 DEF Inode
    <3>3. table' \in [Slots -> Entry] /\ used' \in SUBSET Blocks
      BY <2>14, <3>1, ResizedType DEF WriteInode, TypeOK, Inode
    <3>4. inodes' = [inodes EXCEPT ![o] = v] /\ UNCHANGED <<dcache, writing>>
      BY <2>14 DEF WriteInode
    <3> HIDE DEF v
    <3> QED
      BY <3>1, <3>2, <3>3, <3>4, InodeStep, ValuesAssumption DEF TypeOK
  <2>15. ASSUME NEW o \in Objs, DropPages(o) PROVE TypeOK'
    <3> DEFINE v == [inodes[o] EXCEPT !.mapped = NoBlocks]
    <3>1. inodes[o] \in Inode /\ IsInode(o) /\ mounted /\ mounted' = mounted
      BY <2>0, <2>15 DEF DropPages, TypeOK
    <3>2. v \in Inode /\ v.open = inodes[o].open
      BY <3>1 DEF Inode, NoBlocks, Pointers
    <3>3. inodes' = [inodes EXCEPT ![o] = v] /\ UNCHANGED <<table, used, dcache, writing>>
      BY <2>15 DEF DropPages
    <3> HIDE DEF v
    <3> QED
      BY <3>1, <3>2, <3>3, InodeStep, ValuesAssumption DEF TypeOK
  <2>16. ASSUME NEW n \in Names, ReclaimDentry(n) PROVE TypeOK'
    <3> DEFINE o == dcache[n]
               dc == [dcache EXCEPT ![n] = Uncached]
               v == Dropped(inodes[o], o, dc)
    <3>1. dc \in [Names -> Objs \cup {Uncached, Negative}]
          /\ dcache' = dc /\ UNCHANGED <<table, used, mounted, writing>>
      BY <2>16 DEF ReclaimDentry, TypeOK
    <3>2. CASE o \notin Objs
      <4>1. inodes' = inodes
        BY <2>16, <3>2 DEF ReclaimDentry, TypeOK
      <4> QED
        BY <3>1, <4>1, ValuesAssumption DEF TypeOK, IsInode
    <3>3. CASE o \in Objs
      <4>1. inodes[o] \in Inode /\ IsInode(o) /\ mounted /\ ~inodes[o].open
        BY <2>0, <2>16, <3>3, ValuesAssumption DEF ReclaimDentry, TypeOK
      <4>2. v \in Inode \cup {NoInode} /\ (v = NoInode => \A m \in Names : dc[m] # o)
        BY <4>1, DroppedType, ValuesAssumption
      <4>3. inodes' = [inodes EXCEPT ![o] = v]
        BY <2>16, <3>3 DEF ReclaimDentry, TypeOK
      <4>4. writing[o] = NoWrite
        BY <3>3, <4>1 DEF TypeOK
      <4>5. \A m \in Names : dc[m] \in {dcache[m], Uncached}
        BY DEF TypeOK
      <4> HIDE DEF v, dc, o
      <4> QED
        BY <3>1, <3>3, <4>1, <4>2, <4>3, <4>4, <4>5, InodeStep DEF TypeOK
    <3> QED
      BY <3>2, <3>3
  <2>17. ASSUME NEW o \in Objs, EvictInode(o) PROVE TypeOK'
    <3>1. IsInode(o) /\ mounted /\ mounted' = mounted /\ writing[o] = NoWrite
      BY <2>17 DEF EvictInode, TypeOK
    <3>2. /\ inodes' = [inodes EXCEPT ![o] = NoInode]
          /\ UNCHANGED <<table, used, dcache, writing>>
          /\ \A n \in Names : dcache[n] # o
      BY <2>17 DEF EvictInode
    <3> QED
      BY <3>1, <3>2, InodeStep DEF TypeOK
  <2>18. ASSUME NEW o \in Objs, NEW i \in 0..BlockCnt, WriteRefused(o, i) PROVE TypeOK'
    <3>1. /\ IsInode(o) /\ mounted /\ UNCHANGED <<table, used, mounted, dcache, writing>>
          /\ inodes[o] \in Inode /\ inodes[o].open
      BY <2>18, RefusedIs
    <3>2. PICK ino \in Touched(o) :
            inodes' = [inodes EXCEPT ![o] = [ino EXCEPT !.mapped = UnmapPast(@, ino.size)]]
      BY <2>18, RefusedIs
    <3>3. ino \in Inode /\ ino.open
      BY <3>1, DirtiedType DEF Touched
    <3>4. UnmapPast(ino.mapped, ino.size) \in [Idx -> Pointers]
      BY <3>3, UnmapPastType DEF Inode
    <3>5. \E v \in Inode : v.open /\ inodes' = [inodes EXCEPT ![o] = v]
      BY <3>2, <3>3, <3>4 DEF Inode
    <3> QED
      BY <3>1, <3>5, InodeStep, ValuesAssumption DEF TypeOK
  <2>19. CASE UNCHANGED vars
    BY <2>19 DEF vars, TypeOK, IsInode
  <2> QED
    BY <2>1, <2>2, <2>3, <2>4, <2>5, <2>6, <2>7, <2>8, <2>9, <2>10, <2>11, <2>12, <2>13,
       <2>14, <2>15, <2>16, <2>17, <2>18, <2>19 DEF Next, Directory, FileIO, Background
<1> QED
  BY <1>1, <1>2, PTL DEF Spec

-----------------------------------------------------------------------------
(* The inode cache: what a step does to the inodes *)

\* A step that has not made object o an inode leaves it the entry's it was, in
\* the inode cache if it was there, or discards it
Keeps(o) ==
  inodes'[o] # NoInode =>
    /\ IsInode(o)
    /\ inodes'[o].slot = inodes[o].slot
    /\ inodes'[o].hashed = inodes[o].hashed

\* mark_inode_dirty and iput keep the number and the hashing
LEMMA DirtiedKeeps ==
  ASSUME NEW ino \in Inode
  PROVE  Dirtied(ino).slot = ino.slot /\ Dirtied(ino).hashed = ino.hashed
BY DEF Dirtied, Inode

\* A step that gives one object another inode of the same entry keeps all
LEMMA OneKept ==
  ASSUME TypeOK, NEW o \in Objs, IsInode(o), NEW v \in Inode \cup {NoInode},
         inodes' = [inodes EXCEPT ![o] = v],
         v # NoInode => v.slot = inodes[o].slot /\ v.hashed = inodes[o].hashed
  PROVE  \A p \in Objs : Keeps(p)
BY DEF Keeps, IsInode, TypeOK

\* Only lookup and create make inodes, and one that is hashed only where the
\* entry has none
LEMMA InodeLife ==
  ASSUME TypeOK, [Next]_vars
  PROVE  \/ \A o \in Objs : Keeps(o)
         \/ /\ \E n \in Names : Lookup(n) \/ Create(n)
            /\ \E s \in Slots, o \in Objs, size \in 0..MaxSize, hashed \in BOOLEAN :
                 /\ ~IsInode(o)
                 /\ inodes' = [inodes EXCEPT ![o] = NewInode(s, size, hashed)]
                 /\ hashed => HashedAt(s) = {}
<1>0. \A o \in Objs : IsInode(o) => inodes[o] \in Inode
  BY DEF TypeOK, IsInode
<1>1. CASE UNCHANGED inodes
  BY <1>1 DEF Keeps, IsInode
<1>2. CASE Unmount
  BY <1>2 DEF Unmount, Keeps
<1>3. ASSUME NEW n \in Names, Lookup(n), ~UNCHANGED inodes
      PROVE  \E s \in Slots, o \in Objs, size \in 0..MaxSize, hashed \in BOOLEAN :
               /\ ~IsInode(o)
               /\ inodes' = [inodes EXCEPT ![o] = NewInode(s, size, hashed)]
               /\ hashed => HashedAt(s) = {}
  <2>1. PICK s \in Slots, o \in Objs :
          /\ HashedAt(s) = {} /\ ~IsInode(o)
          /\ inodes' = [inodes EXCEPT ![o] = NewInode(s, table[s].size, TRUE)]
    BY <1>3 DEF Lookup
  <2>2. table[s].size \in 0..MaxSize
    BY DEF TypeOK, Entry
  <2> QED
    BY <2>1, <2>2
<1>4. ASSUME NEW n \in Names, Create(n)
      PROVE  \E s \in Slots, o \in Objs, size \in 0..MaxSize, hashed \in BOOLEAN :
               /\ ~IsInode(o)
               /\ inodes' = [inodes EXCEPT ![o] = NewInode(s, size, hashed)]
               /\ hashed => HashedAt(s) = {}
  <2>1. PICK s \in Slots, o \in Objs :
          /\ ~IsInode(o)
          /\ inodes' = [inodes EXCEPT ![o] = NewInode(s, 0, HashedAt(s) = {})]
    BY <1>4 DEF Create
  <2>2. 0 \in 0..MaxSize /\ (HashedAt(s) = {}) \in BOOLEAN
    BY LayoutAssumption DEF MaxSize
  <2> QED
    BY <2>1, <2>2
<1>5. ASSUME NEW n \in Names, Unlink(n) PROVE \A o \in Objs : Keeps(o)
  <2> DEFINE o == dcache[n]
             dc == [dcache EXCEPT ![n] = IF inodes[o].open THEN Uncached ELSE Negative]
             gone == [Dirtied(inodes[o]) EXCEPT !.linked = FALSE]
  <2>1. o \in Objs /\ IsInode(o) /\ inodes[o] \in Inode
    BY <1>0, <1>5 DEF Unlink, TypeOK
  <2>2. gone \in Inode /\ gone.slot = inodes[o].slot /\ gone.hashed = inodes[o].hashed
    BY <2>1, DirtiedType, DirtiedKeeps DEF Inode
  <2>3. inodes' = [inodes EXCEPT ![o] = Dropped(gone, o, dc)]
    BY <1>5 DEF Unlink
  <2> HIDE DEF gone, dc, o
  <2>4. Dropped(gone, o, dc) \in {gone, NoInode}
    BY <2>2, DroppedType
  <2> QED
    BY <2>1, <2>2, <2>3, <2>4, OneKept
<1>6. ASSUME NEW n \in Names, Open(n) PROVE \A o \in Objs : Keeps(o)
  <2>1. dcache[n] \in Objs /\ IsInode(dcache[n]) /\ inodes[dcache[n]] \in Inode
    BY <1>0, <1>6 DEF Open, TypeOK
  <2>2. \A d \in Inode : /\ [d EXCEPT !.open = TRUE] \in Inode
                         /\ [d EXCEPT !.open = TRUE].slot = d.slot
                         /\ [d EXCEPT !.open = TRUE].hashed = d.hashed
    BY DEF Inode
  <2>3. inodes' = [inodes EXCEPT ![dcache[n]] = [inodes[dcache[n]] EXCEPT !.open = TRUE]]
    BY <1>6 DEF Open
  <2> QED
    BY <2>1, <2>2, <2>3, OneKept
<1>7. ASSUME NEW o \in Objs, Close(o) PROVE \A p \in Objs : Keeps(p)
  <2> DEFINE shut == [inodes[o] EXCEPT !.open = FALSE]
  <2>1. IsInode(o) /\ shut \in Inode /\ shut.slot = inodes[o].slot /\ shut.hashed = inodes[o].hashed
    BY <1>0, <1>7 DEF Close, Inode
  <2>2. inodes' = [inodes EXCEPT ![o] = Dropped(shut, o, dcache)]
    BY <1>7 DEF Close
  <2> HIDE DEF shut
  <2>3. Dropped(shut, o, dcache) \in {shut, NoInode}
    BY <2>1, DroppedType
  <2> QED
    BY <2>1, <2>2, <2>3, OneKept
<1>8. ASSUME NEW o \in Objs, NEW i \in Idx, WriteBegin(o, i) \/ WriteFails(o, i)
      PROVE  \A p \in Objs : Keeps(p)
  <2>1. IsInode(o) /\ inodes[o] \in Inode
    BY <1>0, <1>8 DEF WriteBegin, WriteFails, CanWrite
  <2>2. \A ino \in Touched(o) : /\ ino \in Inode /\ ino.slot = inodes[o].slot
                                /\ ino.hashed = inodes[o].hashed
    BY <2>1, DirtiedType, DirtiedKeeps DEF Touched
  <2>3. \A d \in Inode, m \in [Idx -> Pointers] :
          /\ [d EXCEPT !.mapped = m] \in Inode
          /\ [d EXCEPT !.mapped = m].slot = d.slot
          /\ [d EXCEPT !.mapped = m].hashed = d.hashed
    BY DEF Inode
  <2>4. ASSUME NEW ino \in Touched(o), NEW b \in Reachable(o)
        PROVE  /\ [ino.mapped EXCEPT ![i] = b] \in [Idx -> Pointers]
               /\ UnmapPast([ino.mapped EXCEPT ![i] = b], ino.size) \in [Idx -> Pointers]
    BY <2>1, <2>2, ReachableType, UnmapPastType DEF Inode, Pointers
  <2>5. CASE WriteBegin(o, i)
    <3>1. PICK ino \in Touched(o) :
            \/ inodes' = [inodes EXCEPT ![o] = ino]
            \/ \E b \in Reachable(o) :
                 inodes' = [inodes EXCEPT ![o] = [ino EXCEPT !.mapped[i] = b]]
      BY <2>5, Zenon DEF WriteBegin
    <3>2. CASE inodes' = [inodes EXCEPT ![o] = ino]
      BY <2>1, <2>2, <3>2, OneKept
    <3>3. ASSUME NEW b \in Reachable(o),
                 inodes' = [inodes EXCEPT ![o] = [ino EXCEPT !.mapped[i] = b]]
          PROVE  \A p \in Objs : Keeps(p)
      <4>1. [ino EXCEPT !.mapped[i] = b] = [ino EXCEPT !.mapped = [ino.mapped EXCEPT ![i] = b]]
        BY <2>2 DEF Inode
      <4> QED
        BY <2>1, <2>2, <2>3, <2>4, <3>3, <4>1, OneKept
    <3> QED
      BY <3>1, <3>2, <3>3
  <2>6. CASE WriteFails(o, i)
    <3>1. PICK b \in Reachable(o), ino \in Touched(o) :
            inodes' = [inodes EXCEPT
              ![o] = [ino EXCEPT !.mapped = UnmapPast([@ EXCEPT ![i] = b], ino.size)]]
      BY <2>6 DEF WriteFails
    <3> QED
      BY <2>1, <2>2, <2>3, <2>4, <3>1, OneKept
  <2> QED
    BY <1>8, <2>5, <2>6
<1>9. ASSUME NEW o \in Objs, NEW r \in 0..BlockSize, WriteEnd(o, r) PROVE \A p \in Objs : Keeps(p)
  <2> DEFINE end == writing[o] * BlockSize + r
  <2>1. IsInode(o) /\ inodes[o] \in Inode
    BY <1>0, <1>9 DEF WriteEnd, TypeOK
  <2>2. end \in 0..MaxSize
    <3>1. writing[o] \in Idx
      BY <1>9 DEF WriteEnd, TypeOK
    <3> QED
      BY <3>1, WriteEndSize
  <2>3. inodes' = [inodes EXCEPT
          ![o] = IF r > 0 /\ end > @.size THEN [Dirtied(@) EXCEPT !.size = end] ELSE @]
    BY <1>9 DEF WriteEnd
  <2> HIDE DEF end
  <2>4. LET w == [Dirtied(inodes[o]) EXCEPT !.size = end]
        IN  w \in Inode /\ w.slot = inodes[o].slot /\ w.hashed = inodes[o].hashed
    BY <2>1, <2>2, DirtiedType, DirtiedKeeps DEF Inode
  <2> QED
    BY <2>1, <2>3, <2>4, OneKept
<1>10. ASSUME NEW o \in Objs, NEW i \in Idx, ReadBlock(o, i) PROVE \A p \in Objs : Keeps(p)
  <2> DEFINE v == [inodes[o] EXCEPT !.mapped[i] = table[inodes[o].slot].blocks[i]]
  <2>1. IsInode(o) /\ inodes[o] \in Inode
    BY <1>0, <1>10 DEF ReadBlock
  <2>2. table[inodes[o].slot].blocks[i] \in Pointers
    BY <2>1 DEF TypeOK, Inode, Entry
  <2>3. v \in Inode /\ v.slot = inodes[o].slot /\ v.hashed = inodes[o].hashed
    BY <2>1, <2>2 DEF Inode
  <2>4. inodes' = [inodes EXCEPT ![o] = v]
    BY <1>10 DEF ReadBlock
  <2> HIDE DEF v
  <2> QED
    BY <2>1, <2>3, <2>4, OneKept
<1>11. ASSUME NEW o \in Objs, NEW size \in 0..MaxSize, Truncate(o, size)
       PROVE  \A p \in Objs : Keeps(p)
  <2> DEFINE m == UnmapPast(inodes[o].mapped, size)
             v == [Dirtied(inodes[o]) EXCEPT !.size = size, !.mapped = m]
  <2>1. IsInode(o) /\ inodes[o] \in Inode
    BY <1>0, <1>11 DEF Truncate
  <2>2. m \in [Idx -> Pointers]
    BY <2>1, UnmapPastType DEF Inode
  <2>3. inodes' = [inodes EXCEPT ![o] = v]
    BY <1>11 DEF Truncate
  <2> HIDE DEF m
  <2>4. \A d \in Inode : LET w == [d EXCEPT !.size = size, !.mapped = m]
                         IN  w \in Inode /\ w.slot = d.slot /\ w.hashed = d.hashed
    BY <2>2 DEF Inode
  <2>5. v \in Inode /\ v.slot = inodes[o].slot /\ v.hashed = inodes[o].hashed
    BY <2>1, <2>4, DirtiedType, DirtiedKeeps
  <2> HIDE DEF v
  <2> QED
    BY <2>1, <2>3, <2>5, OneKept
<1>12. ASSUME NEW o \in Objs, WriteInode(o) \/ DropPages(o) \/ EvictInode(o)
       PROVE  \A p \in Objs : Keeps(p)
  <2>1. IsInode(o) /\ inodes[o] \in Inode
    BY <1>0, <1>12 DEF WriteInode, DropPages, EvictInode
  <2>2. LET v == [inodes[o] EXCEPT !.dirty = FALSE]
            w == [inodes[o] EXCEPT !.mapped = NoBlocks]
        IN  /\ v \in Inode /\ v.slot = inodes[o].slot /\ v.hashed = inodes[o].hashed
            /\ w \in Inode /\ w.slot = inodes[o].slot /\ w.hashed = inodes[o].hashed
    BY <2>1 DEF Inode, NoBlocks, Pointers
  <2>3. \/ inodes' = [inodes EXCEPT ![o] = [inodes[o] EXCEPT !.dirty = FALSE]]
        \/ inodes' = [inodes EXCEPT ![o] = [inodes[o] EXCEPT !.mapped = NoBlocks]]
        \/ inodes' = [inodes EXCEPT ![o] = NoInode]
    BY <1>12 DEF WriteInode, DropPages, EvictInode
  <2> QED
    BY <2>1, <2>2, <2>3, OneKept
<1>13. ASSUME NEW n \in Names, ReclaimDentry(n) PROVE \A p \in Objs : Keeps(p)
  <2>1. PICK dc : inodes' = [o \in Objs |-> IF o = dcache[n] THEN Dropped(inodes[o], o, dc)
                                                             ELSE inodes[o]]
    BY <1>13 DEF ReclaimDentry
  <2>2. ASSUME NEW p \in Objs, inodes'[p] # NoInode PROVE inodes'[p] = inodes[p]
    BY <2>1, <2>2 DEF Dropped
  <2> QED
    BY <2>2 DEF Keeps, IsInode
<1>14. Mount \/ (\E n \in Names : CreateUndone(n)) => UNCHANGED inodes
  BY DEF Mount, CreateUndone
<1>15. ASSUME NEW o \in Objs, NEW i \in 0..BlockCnt, WriteRefused(o, i)
       PROVE  \A p \in Objs : Keeps(p)
  <2>1. IsInode(o) /\ inodes[o] \in Inode
    BY <1>15, RefusedIs
  <2>2. PICK ino \in Touched(o) :
          inodes' = [inodes EXCEPT ![o] = [ino EXCEPT !.mapped = UnmapPast(@, ino.size)]]
    BY <1>15, RefusedIs
  <2>3. ino \in Inode /\ ino.slot = inodes[o].slot /\ ino.hashed = inodes[o].hashed
    BY <2>1, DirtiedType, DirtiedKeeps DEF Touched
  <2>4. UnmapPast(ino.mapped, ino.size) \in [Idx -> Pointers]
    BY <2>3, UnmapPastType DEF Inode
  <2>5. \E v \in Inode : /\ v.slot = ino.slot /\ v.hashed = ino.hashed
                         /\ inodes' = [inodes EXCEPT ![o] = v]
    BY <2>2, <2>3, <2>4 DEF Inode
  <2> QED
    BY <2>1, <2>3, <2>5, OneKept
<1> QED
  BY <1>1, <1>2, <1>3, <1>4, <1>5, <1>6, <1>7, <1>8, <1>9, <1>10, <1>11, <1>12, <1>13, <1>14,
     <1>15 DEF Next, Directory, FileIO, Background, vars

-----------------------------------------------------------------------------
(* The inode cache *)

\* In every workload an entry has at most one hashed inode: lookup takes the
\* one there is, create does not hash where there is one, and nothing moves an
\* inode to another entry
THEOREM InodeCacheExact == Spec => []OneInodePerFile
<1>1. Init => OneInodePerFile
  BY DEF Init, OneInodePerFile, IsInode
<1>2. TypeOK /\ OneInodePerFile /\ [Next]_vars => OneInodePerFile'
  <2> SUFFICES ASSUME TypeOK, OneInodePerFile, [Next]_vars PROVE OneInodePerFile'
    OBVIOUS
  <2>1. CASE \A o \in Objs : Keeps(o)
    BY <2>1 DEF OneInodePerFile, IsInode, Keeps
  <2>2. ASSUME NEW s \in Slots, NEW o \in Objs, NEW size \in 0..MaxSize, NEW hashed \in BOOLEAN,
               ~IsInode(o), inodes' = [inodes EXCEPT ![o] = NewInode(s, size, hashed)],
               hashed => HashedAt(s) = {}
        PROVE  OneInodePerFile'
    <3>1. \A p \in Objs \ {o} : inodes'[p] = inodes[p]
      BY <2>2
    <3>2. inodes'[o].hashed = hashed /\ inodes'[o].slot = s
      BY <2>2 DEF NewInode, TypeOK
    <3>3. hashed => \A p \in Objs \ {o} :
                      ~(IsInode(p) /\ inodes[p].hashed /\ inodes[p].slot = s)
      BY <2>2 DEF HashedAt
    <3> QED
      BY <3>1, <3>2, <3>3 DEF OneInodePerFile, IsInode
  <2> QED
    BY <2>1, <2>2, InodeLife
<1> QED
  BY <1>1, <1>2, TypeCorrect, PTL DEF Spec

-----------------------------------------------------------------------------
(* The dentry cache *)

\* A dentry tells the truth, one that has no inode if the table can be read
DentryInv ==
  \A n \in Names :
    /\ dcache[n] = Negative => ReadFails \/ SlotsNamed(table, n) = {}
    /\ dcache[n] \in Objs => SlotsNamed(table, n) = {inodes[dcache[n]].slot}

\* An entry keeps its name, and so does whether it is free
NamesKept == \A s \in Slots : table'[s].name = table[s].name

\* If the table keeps its names a scan for a name finds what it found
LEMMA ScanKept ==
  ASSUME NamesKept
  PROVE  /\ \A n : SlotsNamed(table', n) = SlotsNamed(table, n)
         /\ NamesOnce => NamesOnce'
BY DEF NamesKept, SlotsNamed, Live, NamesOnce

\* get_block and update change sizes and pointers only
LEMMA FileStepsKeepNames ==
  ASSUME TypeOK, [Next]_vars,
         \A n \in Names : ~Create(n) /\ ~CreateUndone(n) /\ ~Unlink(n)
  PROVE  NamesKept
<1>0. \A o \in Objs : IsInode(o) => inodes[o].slot \in Slots
  BY DEF TypeOK, IsInode, Inode
<1>1. CASE UNCHANGED table
  BY <1>1 DEF NamesKept
<1>2. \A o \in Objs, i \in Idx, b \in DataBlocks : IsInode(o) /\ GetBlock(o, i, b) => NamesKept
  BY <1>0 DEF GetBlock, NamesKept, TypeOK, Entry
<1>3. ASSUME NEW o \in Objs, NEW i \in Idx, WriteBegin(o, i) \/ WriteFails(o, i) PROVE NamesKept
  BY <1>1, <1>2, <1>3, ReachableType DEF WriteBegin, WriteFails, CanWrite
<1>a. \A s \in Slots : \A size : Resized(table[s], size).name = table[s].name
  BY DEF Resized, TypeOK, Entry
<1>4. ASSUME NEW o \in Objs, WriteInode(o) PROVE NamesKept
  BY <1>0, <1>1, <1>4, <1>a DEF WriteInode, NamesKept, TypeOK
<1>5. CASE Unmount
  <2>1. \A s \in Slots : table'[s] \in Leftover(s)
    BY <1>5, UnmountIs
  <2> QED
    BY <1>a, <2>1 DEF Leftover, NamesKept
<1> QED
  BY <1>1, <1>3, <1>4, <1>5 DEF Next, Directory, FileIO, Background, vars, Mount, Lookup, Open,
     ReclaimDentry, Close, WriteRefused, WriteEnd, ReadBlock, Truncate, DropPages, EvictInode

\* If the table keeps its names and dentries are only dropped, they stay true
LEMMA DentriesKept ==
  ASSUME TypeOK, TypeOK', DentryInv, [Next]_vars, NamesKept,
         \A o \in Objs : Keeps(o),
         \A n \in Names : dcache'[n] \in {dcache[n], Uncached}
  PROVE  DentryInv'
<1> SUFFICES ASSUME NEW n \in Names
             PROVE  /\ dcache'[n] = Negative => ReadFails \/ SlotsNamed(table', n) = {}
                    /\ dcache'[n] \in Objs => SlotsNamed(table', n) = {inodes'[dcache'[n]].slot}
  BY DEF DentryInv
<1>1. SlotsNamed(table', n) = SlotsNamed(table, n)
  BY ScanKept
<1>2. dcache'[n] = dcache[n] \/ dcache'[n] \notin Objs \cup {Negative}
  BY ValuesAssumption
<1>3. ASSUME dcache'[n] \in Objs, dcache'[n] = dcache[n]
      PROVE  SlotsNamed(table, n) = {inodes'[dcache'[n]].slot}
  <2>1. inodes'[dcache'[n]] # NoInode
    BY <1>3 DEF TypeOK, IsInode
  <2> QED
    BY <1>3, <2>1 DEF DentryInv, Keeps
<1> QED
  BY <1>1, <1>2, <1>3 DEF DentryInv

\* A name's dentry is pointed at the inode of the only entry with that name
LEMMA DentrySet ==
  ASSUME TypeOK, DentryInv, NEW n \in Names, NEW o \in Objs, NEW s \in Slots,
         dcache' = [dcache EXCEPT ![n] = o],
         SlotsNamed(table', n) = {s}, inodes'[o].slot = s,
         \A m \in Names \ {n} : SlotsNamed(table', m) = SlotsNamed(table, m),
         \A p \in Objs : IsInode(p) => inodes'[p] = inodes[p]
  PROVE  DentryInv'
<1> SUFFICES ASSUME NEW m \in Names
             PROVE  /\ dcache'[m] = Negative => ReadFails \/ SlotsNamed(table', m) = {}
                    /\ dcache'[m] \in Objs => SlotsNamed(table', m) = {inodes'[dcache'[m]].slot}
  BY DEF DentryInv
<1>1. CASE m = n
  BY <1>1, ValuesAssumption DEF TypeOK
<1>2. CASE m # n
  <2>1. dcache'[m] = dcache[m]
    BY <1>2 DEF TypeOK
  <2> QED
    BY <1>2, <2>1 DEF TypeOK, DentryInv
<1> QED
  BY <1>1, <1>2

LEMMA DentryInvariant ==
  ASSUME \A n \in Names : Stored[n] = n
  PROVE  Spec => [](NamesOnce /\ DentryInv)
<1>1. Init => NamesOnce /\ DentryInv
  BY ValuesAssumption DEF Init, NamesOnce, DentryInv, Live, EmptyEntry
<1>2. TypeOK /\ TypeOK' /\ NamesOnce /\ DentryInv /\ [Next]_vars => NamesOnce' /\ DentryInv'
  <2> SUFFICES ASSUME TypeOK, TypeOK', NamesOnce, DentryInv, [Next]_vars
               PROVE  NamesOnce' /\ DentryInv'
    OBVIOUS
  <2>1. ASSUME NEW n \in Names, Lookup(n) PROVE NamesOnce' /\ DentryInv'
    <3>1. table' = table /\ (\A m : SlotsNamed(table', m) = SlotsNamed(table, m)) /\ NamesOnce'
      BY <2>1 DEF Lookup, NamesOnce
    <3>2. CASE /\ SlotsNamed(table, n) = {} \/ ReadFails
               /\ dcache' = [dcache EXCEPT ![n] = Negative] /\ UNCHANGED inodes
      BY <3>1, <3>2, ValuesAssumption DEF DentryInv, TypeOK
    <3>3. ASSUME NEW s \in Slots, s \in SlotsNamed(table, n) PROVE SlotsNamed(table, n) = {s}
      BY <3>3 DEF SlotsNamed, NamesOnce
    <3>4. ASSUME NEW s \in Slots, s \in SlotsNamed(table, n), NEW o \in HashedAt(s),
                 dcache' = [dcache EXCEPT ![n] = o], UNCHANGED inodes
          PROVE  DentryInv'
      <4>1. o \in Objs /\ inodes[o].slot = s
        BY <3>4 DEF HashedAt
      <4> QED
        BY <3>1, <3>3, <3>4, <4>1, ValuesAssumption DEF DentryInv, TypeOK
    <3>5. ASSUME NEW s \in Slots, s \in SlotsNamed(table, n), NEW o \in Objs, ~IsInode(o),
                 dcache' = [dcache EXCEPT ![n] = o],
                 inodes' = [inodes EXCEPT ![o] = NewInode(s, table[s].size, TRUE)]
          PROVE  DentryInv'
      <4>1. inodes'[o].slot = s
        BY <3>5 DEF NewInode, TypeOK
      <4>2. \A p \in Objs : IsInode(p) => inodes'[p] = inodes[p]
        BY <3>5 DEF TypeOK
      <4>3. SlotsNamed(table', n) = {s}
        BY <3>1, <3>3, <3>5
      <4> QED
        BY <3>1, <3>5, <4>1, <4>2, <4>3, DentrySet
    <3> QED
      BY <2>1, <3>1, <3>2, <3>4, <3>5 DEF Lookup, IsFirst
  <2>2. ASSUME NEW n \in Names, Create(n) PROVE NamesOnce' /\ DentryInv'
    <3>1. PICK s \in Slots, o \in Objs :
            /\ s \in FreeSlots(table) /\ ~IsInode(o)
            /\ table' = [table EXCEPT ![s] = NewEntry(n)]
            /\ inodes' = [inodes EXCEPT ![o] = NewInode(s, 0, HashedAt(s) = {})]
            /\ dcache' = [dcache EXCEPT ![n] = o]
      BY <2>2 DEF Create, IsFirst
    <3>2. table'[s].name = n /\ n # NoName /\ ~Live(table[s])
      BY <3>1, NamesAssumption DEF TypeOK, NewEntry, FreeSlots
    <3>3. \A t \in Slots \ {s} : table'[t] = table[t]
      BY <3>1 DEF TypeOK
    <3>4. SlotsNamed(table, n) = {}
      BY <2>2 DEF Create, NotThere
    <3>5. NamesOnce'
      BY <3>2, <3>3, <3>4 DEF NamesOnce, SlotsNamed, Live
    <3>6. SlotsNamed(table', n) = {s}
      BY <3>2, <3>3, <3>4 DEF SlotsNamed, Live
    <3>7. \A m \in Names \ {n} : SlotsNamed(table', m) = SlotsNamed(table, m)
      BY <3>2, <3>3 DEF SlotsNamed, Live
    <3>8. inodes'[o].slot = s /\ \A p \in Objs : IsInode(p) => inodes'[p] = inodes[p]
      BY <3>1 DEF NewInode, TypeOK
    <3> QED
      BY <3>1, <3>5, <3>6, <3>7, <3>8, DentrySet
  <2>3. ASSUME NEW n \in Names, CreateUndone(n) PROVE NamesOnce' /\ DentryInv'
    <3>1. PICK s \in Slots :
            /\ s \in FreeSlots(table)
            /\ \/ table' = [table EXCEPT ![s] = EmptyEntry]
               \/ ReadFails /\ table' = [table EXCEPT ![s] = NewEntry(n)]
      BY <2>3 DEF CreateUndone, IsFirst
    <3>2. /\ SlotsNamed(table, n) = {} /\ dcache[n] \notin Objs
          /\ UNCHANGED <<dcache, inodes>> /\ ~Live(table[s])
      BY <2>3, <3>1, ValuesAssumption DEF CreateUndone, NotThere, FreeSlots
    <3>3. \A t \in Slots \ {s} : table'[t] = table[t]
      BY <3>1 DEF TypeOK
    <3>4. \/ ~Live(table'[s])
          \/ ReadFails /\ Live(table'[s]) /\ table'[s].name = n
      BY <3>1, NamesAssumption DEF TypeOK, Live, EmptyEntry, NewEntry
    <3>5. \A m \in Names \ {n} : SlotsNamed(table', m) = SlotsNamed(table, m)
      BY <3>2, <3>3, <3>4 DEF SlotsNamed
    <3>6. ReadFails \/ SlotsNamed(table', n) = SlotsNamed(table, n)
      BY <3>2, <3>3, <3>4 DEF SlotsNamed
    <3>7. NamesOnce'
      BY <3>2, <3>3, <3>4 DEF NamesOnce, SlotsNamed
    <3>8. ASSUME NEW m \in Names
          PROVE  /\ dcache'[m] = Negative => ReadFails \/ SlotsNamed(table', m) = {}
                 /\ dcache'[m] \in Objs => SlotsNamed(table', m) = {inodes'[dcache'[m]].slot}
      <4>1. CASE m = n
        BY <3>2, <3>6, <4>1
      <4>2. CASE m # n
        BY <3>2, <3>5, <4>2 DEF DentryInv
      <4> QED
        BY <4>1, <4>2
    <3> QED
      BY <3>7, <3>8 DEF DentryInv
  <2>4. ASSUME NEW n \in Names, Unlink(n) PROVE NamesOnce' /\ DentryInv'
    <3>1. PICK s \in Slots : s \in SlotsNamed(table, n) /\ table' = [table EXCEPT ![s] = EmptyEntry]
      BY <2>4 DEF Unlink, IsFirst
    <3>2. /\ Live(table[s]) /\ table[s].name = n /\ ~Live(table'[s])
          /\ SlotsNamed(table, n) = {s}
      BY <3>1 DEF TypeOK, SlotsNamed, Live, EmptyEntry, NamesOnce
    <3>3. \A t \in Slots \ {s} : table'[t] = table[t]
      BY <3>1 DEF TypeOK
    <3>4. NamesOnce'
      BY <3>2, <3>3 DEF NamesOnce
    <3>5. /\ SlotsNamed(table', n) = {}
          /\ \A m \in Names \ {n} : SlotsNamed(table', m) = SlotsNamed(table, m)
      BY <3>2, <3>3 DEF SlotsNamed
    <3>6. /\ dcache'[n] \in {Uncached, Negative}
          /\ \A m \in Names \ {n} : dcache'[m] = dcache[m]
      BY <2>4 DEF Unlink, TypeOK
    <3>7. \A p \in Objs : Keeps(p)
      <4>1. UNCHANGED inodes \/ \E p \in Objs : IsInode(p) /\ \A q \in Objs \ {p} : inodes'[q] = inodes[q]
        BY <2>4 DEF Unlink, TypeOK
      <4>2. ~ \E o \in Objs, t \in Slots, size \in 0..MaxSize, hashed \in BOOLEAN :
                /\ ~IsInode(o)
                /\ inodes' = [inodes EXCEPT ![o] = NewInode(t, size, hashed)]
        <5>1. \A t \in Slots, size \in 0..MaxSize, hashed \in BOOLEAN :
                NewInode(t, size, hashed) # NoInode
          BY NewInodeType, ValuesAssumption
        <5> QED
          BY <4>1, <5>1 DEF TypeOK, IsInode
      <4> QED
        BY <4>2, InodeLife
    <3>8. \A m \in Names : dcache'[m] \in Objs => inodes'[dcache'[m]] # NoInode
      BY DEF TypeOK, IsInode
    <3> QED
      BY <3>4, <3>5, <3>6, <3>7, <3>8, ValuesAssumption DEF DentryInv, Keeps
  <2>5. ASSUME \A n \in Names : ~Lookup(n) /\ ~Create(n) /\ ~CreateUndone(n) /\ ~Unlink(n)
        PROVE  NamesOnce' /\ DentryInv'
    <3>1. NamesKept
      BY <2>5, FileStepsKeepNames
    <3>2. \A n \in Names : dcache'[n] \in {dcache[n], Uncached}
      <4>1. CASE UNCHANGED dcache
        BY <4>1
      <4>2. CASE Unmount
        BY <4>2 DEF Unmount
      <4>3. ASSUME NEW n \in Names, ReclaimDentry(n)
            PROVE  \A m \in Names : dcache'[m] \in {dcache[m], Uncached}
        <5>1. dcache' = [dcache EXCEPT ![n] = Uncached]
          BY <4>3 DEF ReclaimDentry
        <5> QED
          BY <5>1 DEF TypeOK
      <4>4. FileIO => UNCHANGED dcache
        BY DEF FileIO, Close, WriteBegin, WriteFails, WriteRefused, WriteEnd, ReadBlock, Truncate
      <4>5. Background => UNCHANGED dcache
        BY DEF Background, WriteInode, DropPages, EvictInode
      <4> QED
        BY <2>5, <4>1, <4>2, <4>3, <4>4, <4>5 DEF Next, Directory, Mount, Open, vars
    <3>3. \A o \in Objs : Keeps(o)
      BY <2>5, InodeLife
    <3> QED
      BY <3>1, <3>2, <3>3, ScanKept, DentriesKept
  <2> QED
    BY <2>1, <2>2, <2>3, <2>4, <2>5
<1> QED
  BY <1>1, <1>2, TypeCorrect, PTL DEF Spec

\* Whatever lookups, creations, removals, reclaim, remounts and failing reads do,
\* no name is in two entries: the test of sfs_create also stands where a lookup
\* answered wrongly.  Names longer than 15 characters, which are cut, are what the
\* assumption excludes
THEOREM NamesStoredOnce ==
  ASSUME \A n \in Names : Stored[n] = n
  PROVE  Spec => []NamesOnce
BY DentryInvariant, PTL

\* In the same circumstances a dentry with an inode has the inode of the one entry
\* with its name
THEOREM InodesOfTheirNames ==
  ASSUME \A n \in Names : Stored[n] = n
  PROVE  Spec => []PositiveTruth
<1>1. DentryInv => PositiveTruth
  BY DEF DentryInv, PositiveTruth
<1> QED
  BY <1>1, DentryInvariant, PTL

\* Both together: what a failed read in sfs_lookup cannot break
THEOREM NamesAreFound ==
  ASSUME \A n \in Names : Stored[n] = n
  PROVE  Spec => []NamesFound
BY NamesStoredOnce, InodesOfTheirNames, PTL DEF NamesFound

\* If moreover the table can always be read, a dentry without an inode is of a
\* name that is in no entry
THEOREM DentryCacheTrue ==
  ASSUME \A n \in Names : Stored[n] = n, ~ReadFails
  PROVE  Spec => []DentryTruth
<1>1. DentryInv => DentryTruth
  BY DEF DentryInv, DentryTruth
<1> QED
  BY <1>1, DentryInvariant, PTL

\* "File %s already exists. Should never happen." (sfs_create): it does not, in any
\* workload, if names are stored whole and the table can be read.  It takes both:
\* RealSfsLongNames shows the one, and the other is the Negative that Lookup makes
\* of a name that is there when ReadFails
THEOREM NeverExists ==
  ASSUME \A n \in Names : Stored[n] = n, ~ReadFails
  PROVE  Spec => []NeverExistsAlready
<1>1. DentryTruth => NeverExistsAlready
  BY DEF DentryTruth, NeverExistsAlready
<1> QED
  BY <1>1, DentryCacheTrue, PTL

-----------------------------------------------------------------------------
(***************************************************************************)
(* The accounting of blocks while programs and the flusher do the plainest *)
(* only, and names are stored whole.                                       *)
(***************************************************************************)

(* The inductive invariant *)

\* An inode of entry e, whose block w is between write_begin and write_end: it
\* can be found, its bytes have blocks, and its buffers are below its size or those
\* of block w, which it has and which adjoins the bytes before it
InodeSound(ino, e, w) ==
  /\ ino.linked /\ ino.hashed /\ Live(e)
  /\ \A i \in Idx : i * BlockSize < ino.size => e.blocks[i] # 0
  /\ \A i \in Idx : ino.mapped[i] # 0 =>
       e.blocks[i] = ino.mapped[i] /\ (i * BlockSize < ino.size \/ w = i)
  /\ w # NoWrite => e.blocks[w] # 0 /\ w * BlockSize <= ino.size

EntriesSound == \A s \in Slots : EntrySound(table[s])

InodesSound ==
  \A o \in Objs : IsInode(o) => InodeSound(inodes[o], table[inodes[o].slot], writing[o])

AccountInv == EntriesSound /\ InodesSound /\ AccountingExact /\ NoCrossLink

-----------------------------------------------------------------------------
(* Entries and the tracker *)

\* init_browsing marks what AccountingExact says
LEMMA MarkedExact ==
  ASSUME TypeOK, EntriesSound
  PROVE  MarkedBlocks(table) = MetaBlocks \cup UNION {Held(table[s]) : s \in Slots}
BY MarkedIsHeld DEF TypeOK, EntriesSound

\* f is e with more pointers
Grows(e, f) ==
  /\ f.name = e.name /\ f.size = e.size
  /\ \A i \in Idx : e.blocks[i] # 0 => f.blocks[i] = e.blocks[i]

\* More pointers do an inode no harm
LEMMA SoundGrows ==
  ASSUME NEW ino, NEW e, NEW f, NEW w \in Idx \cup {NoWrite}, Grows(e, f), InodeSound(ino, e, w)
  PROVE  InodeSound(ino, f, w)
BY DEF Grows, InodeSound, Live

\* get_block at most a block past the end of file leaves the table in order and
\* takes a block nobody has
LEMMA GetBlockSound ==
  ASSUME TypeOK, AccountInv, mounted, NEW o \in Objs, IsInode(o), NEW i \in Idx,
         i * BlockSize <= inodes[o].size,
         NEW b \in Reachable(o), GetBlock(o, i, b)
  PROVE  /\ EntriesSound' /\ NoCrossLink'
         /\ used' = MetaBlocks \cup UNION {Held(table'[s]) : s \in Slots}
         /\ \A s \in Slots : Grows(table[s], table'[s])
         /\ b # 0 /\ table'[inodes[o].slot].blocks[i] = b
<1> DEFINE s == inodes[o].slot
<1>1. s \in Slots /\ inodes[o] \in Inode /\ table[s] \in Entry
  BY DEF TypeOK, IsInode, Inode
<1>2. b \in DataBlocks /\ b # 0 /\ b \notin MetaBlocks
  BY <1>1, ReachableType, LayoutAssumption DEF DataBlocks, MetaBlocks
<1>3. used = MetaBlocks \cup UNION {Held(table[t]) : t \in Slots}
  BY DEF AccountInv, AccountingExact
<1>4. CASE b = table[s].blocks[i] /\ UNCHANGED <<table, used>>
  BY <1>2, <1>3, <1>4 DEF AccountInv, EntriesSound, NoCrossLink, Grows
<1>5. CASE /\ table[s].blocks[i] = 0 /\ b \in FreeBlocks(used)
           /\ table' = [table EXCEPT ![s].blocks[i] = b] /\ used' = used \cup {b}
  <2>1. /\ \A t \in Slots \ {s} : table'[t] = table[t]
        /\ table'[s].name = table[s].name /\ table'[s].size = table[s].size
        /\ table'[s].blocks[i] = b
        /\ \A k \in Idx \ {i} : table'[s].blocks[k] = table[s].blocks[k]
    BY <1>1, <1>5 DEF TypeOK, Entry
  <2>2. \A t \in Slots, k \in Idx : table[t].blocks[k] # b
    BY <1>2, <1>3, <1>5, PointedTo DEF FreeBlocks
  <2>3. NoCrossLink'
    <3>1. \A t \in Slots, k \in Idx :
            \/ t = s /\ k = i /\ table'[t].blocks[k] = b
            \/ table'[t].blocks[k] = table[t].blocks[k]
      BY <2>1
    <3> HIDE DEF s
    <3> QED
      BY <2>2, <3>1 DEF AccountInv, NoCrossLink
  <2>4. \A k \in Idx : k < i => table[s].blocks[k] # 0
    <3>1. ASSUME NEW k \in Idx, k < i PROVE k * BlockSize < inodes[o].size
      <4>1. k * BlockSize + BlockSize <= i * BlockSize
        BY <3>1, StartsOrdered
      <4>2. /\ k * BlockSize \in Nat /\ i * BlockSize \in Nat /\ BlockSize \in Nat \ {0}
            /\ inodes[o].size \in Nat
        BY <1>1, LayoutAssumption DEF Idx, Inode, MaxSize
      <4> QED
        BY <4>1, <4>2
    <3> QED
      BY <3>1 DEF AccountInv, InodesSound, InodeSound
  <2>5. EntrySound(table'[s])
    <3>1. Live(table[s])
      BY DEF AccountInv, InodesSound, InodeSound
    <3>2. \A j, k \in Idx : j < k /\ table'[s].blocks[k] # 0 => table'[s].blocks[j] # 0
      BY <1>1, <1>2, <2>1, <2>4 DEF AccountInv, EntriesSound, EntrySound
    <3>3. \A k \in Idx : k * BlockSize < table'[s].size => table'[s].blocks[k] # 0
      BY <1>1, <1>2, <2>1 DEF AccountInv, EntriesSound, EntrySound
    <3> QED
      BY <2>1, <3>1, <3>2, <3>3 DEF EntrySound, Live
  <2>6. EntriesSound'
    BY <2>1, <2>5 DEF AccountInv, EntriesSound
  <2>7. \A t \in Slots : Grows(table[t], table'[t])
    BY <1>5, <2>1 DEF Grows
  <2>8. \A c : (\E t \in Slots, k \in Idx : c # 0 /\ c = table'[t].blocks[k])
                 <=> c = b \/ \E t \in Slots, k \in Idx : c # 0 /\ c = table[t].blocks[k]
    BY <1>1, <1>2, <1>5, <2>1
  <2>9. UNION {Held(table'[t]) : t \in Slots} = (UNION {Held(table[t]) : t \in Slots}) \cup {b}
    <3> DEFINE new == UNION {Held(table'[t]) : t \in Slots}
               old == UNION {Held(table[t]) : t \in Slots}
    <3>1. \A c : c \in new <=> \E t \in Slots, k \in Idx : c # 0 /\ c = table'[t].blocks[k]
      BY PointedTo
    <3>2. \A c : c \in old <=> \E t \in Slots, k \in Idx : c # 0 /\ c = table[t].blocks[k]
      BY PointedTo
    <3> HIDE DEF new, old
    <3>3. new = old \cup {b}
      BY <2>8, <3>1, <3>2
    <3> QED
      BY <3>3 DEF new, old
  <2>10. used' = MetaBlocks \cup UNION {Held(table'[t]) : t \in Slots}
    BY <1>3, <1>5, <2>9
  <2> QED
    BY <1>2, <2>1, <2>3, <2>6, <2>7, <2>10
<1> QED
  BY <1>4, <1>5 DEF GetBlock, IsFirst

\* The blocks that f's pointers lost
Lost(e, f) == {e.blocks[i] : i \in {j \in Idx : f.blocks[j] = 0}} \ {0}

\* Giving back the blocks that one entry's pointers lose leaves the tracker exact
LEMMA GivingBack ==
  ASSUME TypeOK, AccountInv, mounted, NEW s \in Slots, NEW f \in Entry,
         table' = [table EXCEPT ![s] = f], Fewer(table[s], f),
         used' = used \ Lost(table[s], f)
  PROVE  NoCrossLink' /\ used' = MetaBlocks \cup UNION {Held(table'[t]) : t \in Slots}
<1> DEFINE gone == Lost(table[s], f)
<1>0. \A b : b \in gone <=> \E i \in Idx : b # 0 /\ b = table[s].blocks[i] /\ f.blocks[i] = 0
  BY DEF Lost
<1> HIDE DEF gone
<1>1. /\ \A t \in Slots \ {s} : table'[t] = table[t]
      /\ table'[s] = f
  BY DEF TypeOK
<1>2. \A t \in Slots, i \in Idx : table'[t].blocks[i] \in {0, table[t].blocks[i]}
  BY <1>1 DEF Fewer
<1>3. NoCrossLink'
  BY <1>2 DEF AccountInv, NoCrossLink
<1>4. \A t \in Slots, i \in Idx : table[t].blocks[i] # 0 => table[t].blocks[i] \notin MetaBlocks
  BY LayoutAssumption DEF TypeOK, Entry, Pointers, DataBlocks, MetaBlocks
<1>5. \A b : b \in used <=> b \in MetaBlocks \/ \E t \in Slots, i \in Idx : b # 0 /\ b = table[t].blocks[i]
  <2> DEFINE held == UNION {Held(table[t]) : t \in Slots}
  <2>1. \A b : b \in held <=> \E t \in Slots, i \in Idx : b # 0 /\ b = table[t].blocks[i]
    BY ONLY PointedTo
  <2>2. used = MetaBlocks \cup held
    BY DEF AccountInv, AccountingExact
  <2> HIDE DEF held
  <2> QED
    BY <2>1, <2>2
<1>6. ASSUME NEW b
      PROVE  b \in used' <=> b \in MetaBlocks \/ \E t \in Slots, i \in Idx : b # 0 /\ b = table'[t].blocks[i]
  <2>1. CASE b \in gone
    <3>1. PICK i \in Idx : b # 0 /\ b = table[s].blocks[i] /\ f.blocks[i] = 0
      BY <1>0, <2>1
    <3>2. ASSUME NEW t \in Slots, NEW j \in Idx, b = table[t].blocks[j] PROVE t = s /\ j = i
      <4>1. table[s].blocks[i] # 0 /\ table[s].blocks[i] = table[t].blocks[j]
        BY <3>1, <3>2
      <4> QED
        BY <4>1 DEF AccountInv, NoCrossLink
    <3>3. \A t \in Slots, j \in Idx : b # table'[t].blocks[j]
      BY <1>1, <1>2, <3>1, <3>2
    <3> QED
      BY <1>4, <2>1, <3>1, <3>3 DEF gone
  <2>2. CASE b \notin gone
    <3>1. \A t \in Slots, i \in Idx : b # 0 => (b = table[t].blocks[i] <=> b = table'[t].blocks[i])
      BY <1>0, <1>1, <1>2, <2>2
    <3> QED
      BY <1>5, <2>2, <3>1 DEF gone
  <2> QED
    BY <2>1, <2>2
<1>7. used' = MetaBlocks \cup UNION {Held(table'[t]) : t \in Slots}
  <2> DEFINE held == UNION {Held(table'[t]) : t \in Slots}
  <2>1. \A b : b \in held <=> \E t \in Slots, i \in Idx : b # 0 /\ b = table'[t].blocks[i]
    BY ONLY PointedTo
  <2> HIDE DEF held
  <2>2. \A b : b \in used \ gone <=> b \in MetaBlocks \cup held
    BY <1>6, <2>1 DEF gone
  <2>3. used \ gone = MetaBlocks \cup held
    BY <2>2
  <2> QED
    BY <2>3 DEF held, gone
<1> QED
  BY <1>3, <1>7

\* Nobody else's inode is of the entry of a sound one
LEMMA SlotOfItsOwn ==
  ASSUME TypeOK, AccountInv, OneInodePerFile,
         NEW o \in Objs, IsInode(o), NEW p \in Objs, IsInode(p), inodes[o].slot = inodes[p].slot
  PROVE  o = p
BY DEF AccountInv, InodesSound, InodeSound, OneInodePerFile

\* A step that leaves the table and the tracker alone, and gives one object a
\* sound inode or none
LEMMA InodeStepSound ==
  ASSUME TypeOK, AccountInv, UNCHANGED <<table, used, mounted>>,
         NEW o \in Objs, NEW v,
         inodes' = [inodes EXCEPT ![o] = v],
         \A p \in Objs \ {o} : writing'[p] = writing[p],
         v # NoInode => InodeSound(v, table[v.slot], writing'[o])
  PROVE  AccountInv'
<1>1. EntriesSound' /\ AccountingExact' /\ NoCrossLink'
  BY DEF AccountInv, EntriesSound, AccountingExact, NoCrossLink
<1>2. ASSUME NEW p \in Objs, inodes'[p] # NoInode
      PROVE  InodeSound(inodes'[p], table[inodes'[p].slot], writing'[p])
  BY <1>2 DEF AccountInv, InodesSound, IsInode, TypeOK
<1>3. InodesSound'
  BY <1>2 DEF InodesSound, IsInode
<1> QED
  BY <1>1, <1>3 DEF AccountInv

\* A step that changes the entry of one inode, which it leaves sound or discards
LEMMA EntryStepSound ==
  ASSUME TypeOK, AccountInv, OneInodePerFile, NEW o \in Objs, IsInode(o), NEW f, NEW v,
         table' = [table EXCEPT ![inodes[o].slot] = f],
         inodes' = [inodes EXCEPT ![o] = v],
         UNCHANGED writing,
         EntrySound(f),
         v # NoInode => v.slot = inodes[o].slot /\ InodeSound(v, f, writing[o])
  PROVE  EntriesSound' /\ InodesSound'
<1> DEFINE s == inodes[o].slot
<1>1. s \in Slots
  BY DEF TypeOK, IsInode, Inode
<1>2. table'[s] = f /\ \A t \in Slots \ {s} : table'[t] = table[t]
  BY <1>1 DEF TypeOK
<1>3. EntriesSound'
  BY <1>2 DEF AccountInv, EntriesSound
<1>4. ASSUME NEW p \in Objs, inodes'[p] # NoInode
      PROVE  InodeSound(inodes'[p], table'[inodes'[p].slot], writing'[p])
  <2>1. CASE p = o
    BY <1>2, <1>4, <2>1 DEF TypeOK
  <2>2. CASE p # o
    <3>1. inodes'[p] = inodes[p] /\ IsInode(p)
      BY <1>4, <2>2 DEF TypeOK, IsInode
    <3>2. inodes[p].slot \in Slots \ {s}
      BY <2>2, <3>1, SlotOfItsOwn DEF TypeOK, IsInode, Inode
    <3> QED
      BY <1>2, <3>1, <3>2 DEF AccountInv, InodesSound
  <2> QED
    BY <2>1, <2>2
<1>5. InodesSound'
  BY <1>4 DEF InodesSound, IsInode
<1> QED
  BY <1>3, <1>5

-----------------------------------------------------------------------------
(* The steps *)

\* The plainest workload, in which reads of the table may fail, with names stored
\* whole
Plain == Workload \subseteq {"read_error"} /\ \A n \in Names : Stored[n] = n

\* What the theorems before this one give
Before == TypeOK /\ OneInodePerFile /\ NamesOnce /\ PositiveTruth

\* open, close and mark_inode_dirty leave an inode sound
LEMMA SoundTouched ==
  ASSUME NEW ino \in Inode, NEW e, NEW w, InodeSound(ino, e, w), NEW open \in BOOLEAN
  PROVE  /\ InodeSound([ino EXCEPT !.open = open], e, w)
         /\ InodeSound(Dirtied(ino), e, w)
         /\ Dirtied(ino).size = ino.size /\ Dirtied(ino).mapped = ino.mapped
         /\ Dirtied(ino).linked = ino.linked
BY DEF Inode, InodeSound, Dirtied

\* The inode lookup makes of an entry, and create of a fresh one
LEMMA NewInodeSound ==
  ASSUME NEW s \in Slots, NEW e \in Entry, EntrySound(e), Live(e)
  PROVE  InodeSound(NewInode(s, e.size, TRUE), e, NoWrite)
BY DEF InodeSound, NewInode, EntrySound, NoBlocks

\* A free entry is given away, or cleared again
LEMMA FreeEntryStep ==
  ASSUME TypeOK, AccountInv, mounted, NEW s \in FreeSlots(table), NEW f \in Entry,
         f.size = 0, \A i \in Idx : f.blocks[i] = 0,
         table' = [table EXCEPT ![s] = f], UNCHANGED used
  PROVE  /\ EntriesSound' /\ NoCrossLink' /\ EntrySound(f)
         /\ used' = MetaBlocks \cup UNION {Held(table'[t]) : t \in Slots}
         /\ \A o \in Objs : IsInode(o) =>
              inodes[o].slot # s /\ table'[inodes[o].slot] = table[inodes[o].slot]
<1>1. s \in Slots /\ ~Live(table[s]) /\ \A i \in Idx : table[s].blocks[i] = 0
  BY DEF FreeSlots, AccountInv, EntriesSound, EntrySound
<1>2. EntrySound(f)
  <2>1. \A i \in Idx : i * BlockSize \in Nat
    BY LayoutAssumption DEF Idx
  <2>2. \A i \in Idx : ~(i * BlockSize < 0)
    BY <2>1
  <2> QED
    BY <2>2 DEF EntrySound
<1>3. EntriesSound'
  BY <1>1, <1>2 DEF AccountInv, EntriesSound, TypeOK
<1>4. NoCrossLink' /\ used' = MetaBlocks \cup UNION {Held(table'[t]) : t \in Slots}
  <2>1. Fewer(table[s], f)
    BY DEF Fewer
  <2>2. Lost(table[s], f) = {}
    BY <1>1 DEF Lost
  <2>3. used' = used \ Lost(table[s], f)
    BY <2>2
  <2> QED
    BY <1>1, <2>1, <2>3, GivingBack
<1>5. \A o \in Objs : IsInode(o) => inodes[o].slot \in Slots \ {s}
  BY <1>1 DEF AccountInv, InodesSound, InodeSound, TypeOK, IsInode, Inode
<1>6. \A t \in Slots \ {s} : table'[t] = table[t]
  BY DEF TypeOK
<1> QED
  BY <1>2, <1>3, <1>4, <1>5, <1>6

\* Directory steps keep the invariant
LEMMA DirectoryStep ==
  ASSUME Plain, Before, TypeOK', AccountInv, mounted, NEW n \in Names,
         Lookup(n) \/ Create(n) \/ CreateUndone(n) \/ Unlink(n) \/ Open(n) \/ ReclaimDentry(n)
  PROVE  AccountInv'
<1> USE DEF Before
<1>0. \A o \in Objs : IsInode(o) =>
        /\ inodes[o] \in Inode /\ inodes[o].slot \in Slots
        /\ InodeSound(inodes[o], table[inodes[o].slot], writing[o])
  BY DEF TypeOK, IsInode, Inode, AccountInv, InodesSound
<1>1. CASE UNCHANGED <<table, used, mounted, inodes, writing>>
  <2>1. EntriesSound' /\ AccountingExact' /\ NoCrossLink'
    BY <1>1 DEF AccountInv, EntriesSound, AccountingExact, NoCrossLink
  <2>2. InodesSound'
    BY <1>0, <1>1 DEF InodesSound, IsInode
  <2> QED
    BY <2>1, <2>2 DEF AccountInv
<1>2. CASE Lookup(n) /\ ~UNCHANGED inodes
  <2>1. PICK s \in Slots, o \in Objs :
          /\ s \in SlotsNamed(table, n) /\ ~IsInode(o)
          /\ inodes' = [inodes EXCEPT ![o] = NewInode(s, table[s].size, TRUE)]
    BY <1>2 DEF Lookup, IsFirst
  <2>2. table[s] \in Entry /\ EntrySound(table[s]) /\ Live(table[s])
    BY <2>1 DEF TypeOK, AccountInv, EntriesSound, SlotsNamed
  <2>3. UNCHANGED <<table, used, mounted, writing>> /\ writing[o] = NoWrite
    BY <1>2, <2>1 DEF Lookup, TypeOK
  <2>4. NewInode(s, table[s].size, TRUE).slot = s
    BY DEF NewInode
  <2> QED
    BY <2>1, <2>2, <2>3, <2>4, NewInodeSound, InodeStepSound
<1>3. CASE Create(n)
  <2>1. PICK s \in Slots, o \in Objs :
          /\ s \in FreeSlots(table) /\ ~IsInode(o)
          /\ table' = [table EXCEPT ![s] = NewEntry(n)]
          /\ inodes' = [inodes EXCEPT ![o] = NewInode(s, 0, HashedAt(s) = {})]
    BY <1>3 DEF Create, IsFirst
  <2>2. /\ NewEntry(n) \in Entry /\ NewEntry(n).size = 0 /\ Live(NewEntry(n))
        /\ \A i \in Idx : NewEntry(n).blocks[i] = 0
    BY NewEntryType, NamesAssumption DEF NewEntry, NoBlocks, Live
  <2>3. UNCHANGED <<used, mounted, writing>> /\ writing[o] = NoWrite
    BY <1>3, <2>1 DEF Create, TypeOK
  <2>4. /\ EntriesSound' /\ NoCrossLink' /\ EntrySound(NewEntry(n))
        /\ used' = MetaBlocks \cup UNION {Held(table'[t]) : t \in Slots}
        /\ \A p \in Objs : IsInode(p) =>
             inodes[p].slot # s /\ table'[inodes[p].slot] = table[inodes[p].slot]
    BY <2>1, <2>2, <2>3, FreeEntryStep
  <2>5. HashedAt(s) = {}
    BY <2>4 DEF HashedAt
  <2>6. InodeSound(NewInode(s, 0, TRUE), NewEntry(n), NoWrite)
    BY <2>2, <2>4, NewInodeSound
  <2>7. inodes'[o] = NewInode(s, 0, TRUE) /\ inodes'[o].slot = s /\ table'[s] = NewEntry(n)
    BY <2>1, <2>5 DEF TypeOK, NewInode
  <2>8. ASSUME NEW p \in Objs, inodes'[p] # NoInode
        PROVE  InodeSound(inodes'[p], table'[inodes'[p].slot], writing'[p])
    <3>1. CASE p = o
      BY <2>3, <2>6, <2>7, <3>1
    <3>2. CASE p # o
      <4>1. inodes'[p] = inodes[p] /\ IsInode(p)
        BY <2>1, <2>8, <3>2 DEF TypeOK, IsInode
      <4> QED
        BY <1>0, <2>3, <2>4, <4>1
    <3> QED
      BY <3>1, <3>2
  <2> QED
    BY <2>4, <2>8 DEF AccountInv, InodesSound, IsInode, AccountingExact
<1>4. CASE CreateUndone(n)
  <2>1. PICK s \in FreeSlots(table), f \in {EmptyEntry, NewEntry(n)} :
          table' = [table EXCEPT ![s] = f]
    BY <1>4 DEF CreateUndone, IsFirst
  <2>2. f \in Entry /\ f.size = 0 /\ \A i \in Idx : f.blocks[i] = 0
    BY EmptyEntryType, NewEntryType DEF EmptyEntry, NewEntry, NoBlocks
  <2>3. UNCHANGED <<used, mounted, inodes, writing>>
    BY <1>4 DEF CreateUndone
  <2>4. /\ EntriesSound' /\ NoCrossLink'
        /\ used' = MetaBlocks \cup UNION {Held(table'[t]) : t \in Slots}
        /\ \A o \in Objs : IsInode(o) => table'[inodes[o].slot] = table[inodes[o].slot]
    BY <2>1, <2>2, <2>3, FreeEntryStep
  <2> QED
    BY <1>0, <2>3, <2>4 DEF AccountInv, InodesSound, IsInode, AccountingExact
<1>5. CASE Unlink(n)
  <2> DEFINE o == dcache[n]
             dc == [dcache EXCEPT ![n] = IF inodes[o].open THEN Uncached ELSE Negative]
             gone == [Dirtied(inodes[o]) EXCEPT !.linked = FALSE]
             s == inodes[o].slot
  <2>1. /\ o \in Objs /\ IsInode(o) /\ s \in Slots /\ inodes[o] \in Inode
        /\ SlotsNamed(table, n) = {s} /\ ~inodes[o].open
    BY <1>0, <1>5 DEF Unlink, TypeOK, PositiveTruth, Plain
  <2>2. /\ used' = used \ Chain(table[s])
        /\ table' = [table EXCEPT ![s] = EmptyEntry]
        /\ inodes' = [inodes EXCEPT ![o] = Dropped(gone, o, dc)]
        /\ UNCHANGED <<mounted, writing>>
    BY <1>5, <2>1 DEF Unlink, IsFirst
  <2>3. \A m \in Names : dc[m] # o
    <3>1. ASSUME NEW m \in Names, m # n, dcache[m] = o PROVE FALSE
      <4>1. s \in SlotsNamed(table, m) /\ s \in SlotsNamed(table, n)
        BY <2>1, <3>1 DEF PositiveTruth
      <4> QED
        BY <3>1, <4>1 DEF SlotsNamed
    <3>2. dc[n] # o
      BY <2>1, ValuesAssumption DEF TypeOK
    <3> QED
      BY <3>1, <3>2 DEF TypeOK
  <2>4. ~gone.linked /\ ~gone.open
    BY <2>1, DirtiedType DEF Inode
  <2> HIDE DEF gone, dc
  <2>5. Dropped(gone, o, dc) = NoInode
    BY <2>3, <2>4 DEF Dropped
  <2>6. /\ EmptyEntry \in Entry /\ EmptyEntry.size = 0 /\ ~Live(EmptyEntry)
        /\ \A i \in Idx : EmptyEntry.blocks[i] = 0
    BY EmptyEntryType DEF EmptyEntry, NoBlocks, Live
  <2>7. EntrySound(EmptyEntry)
    <3>1. \A i \in Idx : i * BlockSize \in Nat
      BY LayoutAssumption DEF Idx
    <3>2. \A i \in Idx : ~(i * BlockSize < 0)
      BY <3>1
    <3> QED
      BY <2>6, <3>2 DEF EntrySound
  <2>8. Chain(table[s]) = Held(table[s])
    BY <2>1, ChainIsHeld DEF TypeOK, AccountInv, EntriesSound
  <2>9. Held(table[s]) = Lost(table[s], EmptyEntry)
    BY <2>6 DEF Held, Lost
  <2>10. used' = used \ Lost(table[s], EmptyEntry)
    BY <2>2, <2>8, <2>9
  <2> HIDE DEF o
  <2>11. EntriesSound' /\ InodesSound'
    BY <2>1, <2>2, <2>5, <2>7, EntryStepSound
  <2>12. Fewer(table[s], EmptyEntry)
    BY <2>6 DEF Fewer
  <2>13. NoCrossLink' /\ used' = MetaBlocks \cup UNION {Held(table'[t]) : t \in Slots}
    BY <2>1, <2>2, <2>6, <2>10, <2>12, GivingBack
  <2> QED
    BY <2>11, <2>13 DEF AccountInv, AccountingExact
<1>6. CASE Open(n)
  <2>1. dcache[n] \in Objs /\ IsInode(dcache[n])
    BY <1>6 DEF Open, TypeOK
  <2>2. /\ inodes' = [inodes EXCEPT ![dcache[n]] = [inodes[dcache[n]] EXCEPT !.open = TRUE]]
        /\ UNCHANGED <<table, used, mounted, writing>>
    BY <1>6 DEF Open
  <2>3. [inodes[dcache[n]] EXCEPT !.open = TRUE].slot = inodes[dcache[n]].slot
    BY <1>0, <2>1 DEF Inode
  <2> QED
    BY <1>0, <2>1, <2>2, <2>3, SoundTouched, InodeStepSound
<1>7. CASE ReclaimDentry(n)
  <2>1. CASE dcache[n] \notin Objs
    <3>1. UNCHANGED <<table, used, mounted, inodes, writing>>
      BY <1>7, <2>1 DEF ReclaimDentry, TypeOK
    <3> QED
      BY <1>1, <3>1
  <2>2. CASE dcache[n] \in Objs
    <3> DEFINE o == dcache[n]
               dc == [dcache EXCEPT ![n] = Uncached]
    <3>1. IsInode(o) /\ inodes[o] \in Inode
      BY <1>0, <2>2 DEF TypeOK
    <3>2. /\ inodes' = [inodes EXCEPT ![o] = Dropped(inodes[o], o, dc)]
          /\ UNCHANGED <<table, used, mounted, writing>>
      BY <1>7, <2>2 DEF ReclaimDentry, TypeOK
    <3> HIDE DEF dc
    <3>3. Dropped(inodes[o], o, dc) \in {inodes[o], NoInode}
      BY <3>1, DroppedType
    <3> HIDE DEF o
    <3> QED
      BY <1>0, <2>2, <3>1, <3>2, <3>3, InodeStepSound DEF o
  <2> QED
    BY <2>1, <2>2
<1>8. Lookup(n) => UNCHANGED <<table, used, mounted, writing>>
  BY DEF Lookup
<1> QED
  BY <1>1, <1>2, <1>3, <1>4, <1>5, <1>6, <1>7, <1>8

\* A step that gets a block for one inode and leaves that inode sound
LEMMA GrowStepSound ==
  ASSUME TypeOK, AccountInv, mounted, NEW o \in Objs, IsInode(o), NEW i \in Idx,
         i * BlockSize <= inodes[o].size, NEW b \in Reachable(o), GetBlock(o, i, b),
         UNCHANGED mounted, NEW v, v.slot = inodes[o].slot,
         inodes' = [inodes EXCEPT ![o] = v],
         \A p \in Objs \ {o} : writing'[p] = writing[p],
         InodeSound(v, table'[v.slot], writing'[o])
  PROVE  AccountInv'
<1>1. /\ EntriesSound' /\ NoCrossLink' /\ \A s \in Slots : Grows(table[s], table'[s])
      /\ used' = MetaBlocks \cup UNION {Held(table'[s]) : s \in Slots}
  BY GetBlockSound
<1>2. ASSUME NEW p \in Objs, inodes'[p] # NoInode
      PROVE  InodeSound(inodes'[p], table'[inodes'[p].slot], writing'[p])
  <2>1. CASE p = o
    BY <2>1 DEF TypeOK
  <2>2. CASE p # o
    <3>1. /\ inodes'[p] = inodes[p] /\ inodes[p].slot \in Slots /\ writing'[p] = writing[p]
          /\ InodeSound(inodes[p], table[inodes[p].slot], writing[p])
          /\ writing[p] \in Idx \cup {NoWrite}
      BY <1>2, <2>2 DEF TypeOK, IsInode, Inode, AccountInv, InodesSound
    <3> QED
      BY <1>1, <3>1, SoundGrows
  <2> QED
    BY <2>1, <2>2
<1> QED
  BY <1>1, <1>2 DEF AccountInv, InodesSound, IsInode, AccountingExact

\* An inode between write_begin and write_end of block i
LEMMA SoundBegun ==
  ASSUME NEW ino \in Inode, NEW e, NEW f, NEW i \in Idx, InodeSound(ino, e, NoWrite), Grows(e, f),
         f.blocks[i] # 0, i * BlockSize <= ino.size,
         NEW m \in {ino.mapped, [ino.mapped EXCEPT ![i] = f.blocks[i]]}
  PROVE  InodeSound([ino EXCEPT !.mapped = m], f, i)
<1>1. ino.mapped \in [Idx -> Pointers]
  BY DEF Inode
<1>2. \A k \in Idx : m[k] # 0 => f.blocks[k] = m[k] /\ (k * BlockSize < ino.size \/ i = k)
  BY <1>1, ValuesAssumption DEF InodeSound, Grows
<1>3. LET v == [ino EXCEPT !.mapped = m]
      IN  /\ v.mapped = m /\ v.size = ino.size /\ v.linked = ino.linked
          /\ v.hashed = ino.hashed /\ v.dirty = ino.dirty
  BY DEF Inode
<1> QED
  BY <1>2, <1>3 DEF InodeSound, Grows, Live

\* An inode whose buffers past its size are unmapped
LEMMA SoundUnmapped ==
  ASSUME NEW ino \in Inode, NEW e, NEW m \in [Idx -> Pointers], NEW size \in 0..MaxSize,
         ino.linked, ino.hashed, Live(e),
         \A k \in Idx : k * BlockSize < size => e.blocks[k] # 0,
         \A k \in Idx : m[k] # 0 => e.blocks[k] = m[k]
  PROVE  InodeSound([ino EXCEPT !.size = size, !.mapped = UnmapPast(m, size)], e, NoWrite)
<1> DEFINE u == UnmapPast(m, size)
           v == [ino EXCEPT !.size = size, !.mapped = u]
<1>1. \A k \in Idx : u[k] # 0 => m[k] = u[k] /\ k * BlockSize < size
  <2>1. \A k \in Idx : u[k] # 0 => m[k] = u[k] /\ ~(k >= BlocksNeeded(size))
    BY DEF UnmapPast
  <2>2. \A k \in Idx : k * BlockSize \in Nat /\ size \in Nat
    BY LayoutAssumption DEF Idx, MaxSize
  <2> HIDE DEF u
  <2> QED
    BY <2>1, <2>2, NeededIff
<1> HIDE DEF u
<1>2. /\ v.mapped = u /\ v.size = size /\ v.linked = ino.linked
      /\ v.hashed = ino.hashed
  BY DEF Inode
<1> HIDE DEF v
<1>3. InodeSound(v, e, NoWrite)
  BY <1>1, <1>2 DEF InodeSound
<1> QED
  BY <1>3 DEF u, v

\* generic_write_end after at least one byte of block w
LEMMA SoundWritten ==
  ASSUME NEW ino \in Inode, NEW e, NEW w \in Idx, InodeSound(ino, e, w), NEW r \in 1..BlockSize
  PROVE  IF w * BlockSize + r > ino.size
           THEN InodeSound([Dirtied(ino) EXCEPT !.size = w * BlockSize + r], e, NoWrite)
           ELSE InodeSound(ino, e, NoWrite)
<1> DEFINE to == w * BlockSize + r
<1>1. /\ ino.size \in Nat /\ w * BlockSize \in Nat /\ BlockSize \in Nat /\ r \in Nat
      /\ r > 0 /\ r <= BlockSize
  BY LayoutAssumption DEF Inode, Idx, MaxSize
<1>2. w * BlockSize <= ino.size /\ e.blocks[w] # 0
  BY ValuesAssumption DEF InodeSound
<1>3. \A k \in Idx : /\ k < w => k * BlockSize < ino.size
                     /\ k > w => k * BlockSize >= to
  <2>1. \A k \in Idx : k \in Nat /\ k * BlockSize \in Nat
    BY LayoutAssumption DEF Idx
  <2>2. \A k \in Idx : /\ k < w => k * BlockSize + BlockSize <= w * BlockSize
                       /\ k > w => w * BlockSize + BlockSize <= k * BlockSize
    BY StartsOrdered
  <2> QED
    BY <1>1, <1>2, <2>1, <2>2
<1>4. w \in Nat /\ \A k \in Idx : k \in Nat /\ k * BlockSize \in Nat /\ (k < w \/ k = w \/ k > w)
  BY LayoutAssumption DEF Idx
<1>5. CASE to > ino.size
  <2> DEFINE v == [Dirtied(ino) EXCEPT !.size = to]
  <2>1. /\ v.mapped = ino.mapped /\ v.size = to /\ v.linked = ino.linked
        /\ v.hashed = ino.hashed /\ v.dirty = ino.hashed
    BY DEF Inode, Dirtied
  <2>2. \A k \in Idx : k * BlockSize < to => e.blocks[k] # 0
    BY <1>1, <1>2, <1>3, <1>4 DEF InodeSound
  <2>3. \A k \in Idx : ino.mapped[k] # 0 => e.blocks[k] = ino.mapped[k] /\ k * BlockSize < to
    BY <1>1, <1>4, <1>5 DEF InodeSound
  <2> HIDE DEF v, to
  <2>4. InodeSound(v, e, NoWrite)
    BY <2>1, <2>2, <2>3 DEF InodeSound
  <2> QED
    BY <1>5, <2>4 DEF v, to
<1>6. CASE ~(to > ino.size)
  <2>1. \A k \in Idx : ino.mapped[k] # 0 => e.blocks[k] = ino.mapped[k] /\ k * BlockSize < ino.size
    BY <1>1, <1>4, <1>6 DEF InodeSound
  <2>2. InodeSound(ino, e, NoWrite)
    BY <2>1 DEF InodeSound
  <2> QED
    BY <1>6, <2>2
<1> QED
  BY <1>5, <1>6

\* Writes keep the invariant
LEMMA WriteStep ==
  ASSUME Plain, Before, AccountInv, NEW o \in Objs, NEW i \in Idx,
         WriteBegin(o, i) \/ WriteFails(o, i)
  PROVE  AccountInv'
<1> USE DEF Before
<1> DEFINE s == inodes[o].slot
<1>1. /\ IsInode(o) /\ mounted /\ UNCHANGED mounted /\ writing[o] = NoWrite
      /\ i * BlockSize <= inodes[o].size
  BY DEF WriteBegin, WriteFails, CanWrite, TypeOK, Plain
<1>2. inodes[o] \in Inode /\ s \in Slots /\ InodeSound(inodes[o], table[s], NoWrite)
  BY <1>1 DEF TypeOK, IsInode, Inode, AccountInv, InodesSound
<1>3. \A ino \in Touched(o) :
        /\ ino \in Inode /\ InodeSound(ino, table[s], NoWrite)
        /\ ino.slot = s /\ ino.size = inodes[o].size /\ ino.mapped = inodes[o].mapped
  BY <1>2, SoundTouched, DirtiedType, DirtiedKeeps DEF Touched
<1>4. \A b \in Reachable(o) : GetBlock(o, i, b) =>
        Grows(table[s], table'[s]) /\ b # 0 /\ table'[s].blocks[i] = b /\ b \in Pointers
  BY <1>1, <1>2, GetBlockSound, ReachableType DEF Pointers
<1>5. CASE WriteBegin(o, i)
  <2>1. writing' = [writing EXCEPT ![o] = i]
    BY <1>5 DEF WriteBegin
  <2>2. writing'[o] = i /\ \A p \in Objs \ {o} : writing'[p] = writing[p]
    BY <2>1 DEF TypeOK
  <2>3. PICK ino \in Touched(o) :
          \/ /\ inodes[o].mapped[i] # 0
             /\ inodes' = [inodes EXCEPT ![o] = ino]
             /\ UNCHANGED <<table, used>>
          \/ \E b \in Reachable(o) :
               /\ GetBlock(o, i, b)
               /\ inodes' = [inodes EXCEPT ![o] = [ino EXCEPT !.mapped[i] = b]]
    BY <1>5, Zenon DEF WriteBegin
  <2>4. CASE /\ inodes[o].mapped[i] # 0
             /\ inodes' = [inodes EXCEPT ![o] = ino]
             /\ UNCHANGED <<table, used>>
    <3>1. Grows(table[s], table[s]) /\ table[s].blocks[i] # 0
      BY <1>2, <2>4 DEF Grows, InodeSound
    <3>2. [ino EXCEPT !.mapped = ino.mapped] = ino
      BY <1>3 DEF Inode
    <3>3. InodeSound([ino EXCEPT !.mapped = ino.mapped], table[s], i)
      BY <1>1, <1>3, <3>1, SoundBegun
    <3> QED
      BY <1>1, <1>3, <2>2, <2>4, <3>2, <3>3, InodeStepSound
  <2>5. ASSUME NEW b \in Reachable(o), GetBlock(o, i, b),
               inodes' = [inodes EXCEPT ![o] = [ino EXCEPT !.mapped[i] = b]]
        PROVE  AccountInv'
    <3> DEFINE v == [ino EXCEPT !.mapped = [ino.mapped EXCEPT ![i] = b]]
    <3>1. [ino EXCEPT !.mapped[i] = b] = v /\ v.slot = s
      BY <1>3 DEF Inode
    <3>2. InodeSound(v, table'[s], i)
      BY <1>1, <1>3, <1>4, <2>5, SoundBegun
    <3>3. inodes' = [inodes EXCEPT ![o] = v]
      BY <2>5, <3>1
    <3> HIDE DEF v
    <3> QED
      BY <1>1, <2>2, <2>5, <3>1, <3>2, <3>3, GrowStepSound
  <2> QED
    BY <2>3, <2>4, <2>5
<1>6. CASE WriteFails(o, i)
  <2>1. PICK b \in Reachable(o), ino \in Touched(o) :
          /\ GetBlock(o, i, b)
          /\ inodes' = [inodes EXCEPT
               ![o] = [ino EXCEPT !.mapped = UnmapPast([@ EXCEPT ![i] = b], ino.size)]]
    BY <1>6 DEF WriteFails
  <2> DEFINE m == [ino.mapped EXCEPT ![i] = b]
             v == [ino EXCEPT !.size = ino.size, !.mapped = UnmapPast(m, ino.size)]
  <2>2. m \in [Idx -> Pointers] /\ ino.size \in 0..MaxSize
    BY <1>3, <1>4, <2>1 DEF Inode
  <2>3. \A k \in Idx : m[k] # 0 => table'[s].blocks[k] = m[k]
    BY <1>2, <1>3, <1>4, <2>1 DEF InodeSound, Grows, Inode
  <2>4. /\ ino.linked /\ ino.hashed /\ Live(table'[s])
        /\ \A k \in Idx : k * BlockSize < ino.size => table'[s].blocks[k] # 0
    BY <1>3, <1>4, <2>1 DEF InodeSound, Grows, Live
  <2>5. /\ [ino EXCEPT !.mapped = UnmapPast([@ EXCEPT ![i] = b], ino.size)] = v
        /\ v.slot = s
    BY <1>3 DEF Inode
  <2> HIDE DEF m
  <2>6. InodeSound(v, table'[s], NoWrite)
    BY <1>3, <2>2, <2>3, <2>4, SoundUnmapped
  <2>7. inodes' = [inodes EXCEPT ![o] = v] /\ writing' = writing
    BY <1>6, <2>1, <2>5 DEF WriteFails
  <2> HIDE DEF v
  <2> QED
    BY <1>1, <2>1, <2>5, <2>6, <2>7, GrowStepSound
<1> QED
  BY <1>5, <1>6

\* The other steps on a file keep the invariant
LEMMA FileStep ==
  ASSUME Plain, Before, AccountInv, NEW o \in Objs,
         \/ Close(o) \/ \E r \in 0..BlockSize : WriteEnd(o, r)
         \/ \E i \in Idx : ReadBlock(o, i)
         \/ \E i \in 0..BlockCnt : WriteRefused(o, i)
         \/ \E size \in 0..MaxSize : Truncate(o, size)
         \/ DropPages(o) \/ EvictInode(o)
  PROVE  AccountInv'
<1> USE DEF Before
<1> DEFINE ino == inodes[o]
           e == table[inodes[o].slot]
<1>1. IsInode(o) /\ UNCHANGED <<table, used, mounted>>
  BY DEF Close, WriteEnd, ReadBlock, WriteRefused, CanWrite, Truncate, DropPages, EvictInode, TypeOK
<1>2. ino \in Inode /\ InodeSound(ino, e, writing[o])
  BY <1>1 DEF TypeOK, IsInode, AccountInv, InodesSound
<1>3. CASE Close(o)
  <2> DEFINE shut == [ino EXCEPT !.open = FALSE]
  <2>1. shut \in Inode /\ shut.slot = ino.slot /\ InodeSound(shut, e, writing[o])
    BY <1>2, SoundTouched DEF Inode
  <2>2. inodes' = [inodes EXCEPT ![o] = Dropped(shut, o, dcache)] /\ writing' = writing
    BY <1>3 DEF Close
  <2> HIDE DEF shut
  <2>3. Dropped(shut, o, dcache) \in {shut, NoInode}
    BY <2>1, DroppedType
  <2> QED
    BY <1>1, <2>1, <2>2, <2>3, InodeStepSound
<1>4. ASSUME NEW r \in 0..BlockSize, WriteEnd(o, r) PROVE AccountInv'
  <2> DEFINE to == writing[o] * BlockSize + r
             more == [Dirtied(ino) EXCEPT !.size = to]
             v == IF to > ino.size THEN more ELSE ino
  <2>1. r \in 1..BlockSize /\ writing[o] \in Idx
    BY <1>4, LayoutAssumption DEF WriteEnd, Plain, TypeOK
  <2>2. InodeSound(v, e, NoWrite)
    BY <1>2, <2>1, SoundWritten
  <2>3. v.slot = ino.slot
    BY <1>2, DirtiedType, DirtiedKeeps DEF Inode
  <2>4. inodes' = [inodes EXCEPT ![o] = v]
    <3>1. inodes' = [inodes EXCEPT ![o] = IF r > 0 /\ to > ino.size THEN more ELSE ino]
      BY <1>4 DEF WriteEnd
    <3>2. r > 0
      BY <2>1, LayoutAssumption
    <3> HIDE DEF to, more
    <3>3. (IF r > 0 /\ to > ino.size THEN more ELSE ino) = v
      BY <3>2
    <3> QED
      BY <3>1, <3>3
  <2>5. writing' = [writing EXCEPT ![o] = NoWrite]
    BY <1>4 DEF WriteEnd
  <2>6. writing'[o] = NoWrite /\ \A p \in Objs \ {o} : writing'[p] = writing[p]
    BY <2>5 DEF TypeOK
  <2> HIDE DEF v
  <2> QED
    BY <1>1, <2>2, <2>3, <2>4, <2>6, InodeStepSound
<1>5. ASSUME NEW i \in Idx, ReadBlock(o, i) PROVE AccountInv'
  <2> DEFINE v == [ino EXCEPT !.mapped = [ino.mapped EXCEPT ![i] = e.blocks[i]]]
  <2>1. /\ inodes' = [inodes EXCEPT ![o] = v] /\ writing' = writing
    <3>1. [ino EXCEPT !.mapped[i] = e.blocks[i]] = v
      BY <1>2 DEF Inode
    <3> QED
      BY <1>5, <3>1 DEF ReadBlock
  <2>2. i * BlockSize < ino.size
    <3>1. i * BlockSize \in Nat /\ ino.size \in 0..MaxSize /\ ino.size \in Nat
      BY <1>2, LayoutAssumption DEF Inode, Idx, MaxSize
    <3>2. i < BlocksNeeded(ino.size) /\ BlocksNeeded(ino.size) \in Int /\ i \in Int
      BY <1>5, <3>1, LayoutAssumption DEF ReadBlock, BlocksNeeded, Idx
    <3> QED
      BY <3>1, <3>2, NeededIff
  <2>3. /\ v.slot = ino.slot /\ v.size = ino.size /\ v.linked = ino.linked
        /\ v.hashed = ino.hashed /\ v.dirty = ino.dirty
        /\ v.mapped[i] = e.blocks[i] /\ \A k \in Idx \ {i} : v.mapped[k] = ino.mapped[k]
    BY <1>2 DEF Inode
  <2> HIDE DEF v
  <2>4. InodeSound(v, e, writing[o])
    BY <1>2, <2>2, <2>3 DEF InodeSound
  <2> QED
    BY <1>1, <2>1, <2>3, <2>4, InodeStepSound
<1>6. ASSUME NEW size \in 0..MaxSize, Truncate(o, size) PROVE AccountInv'
  <2> DEFINE d == Dirtied(ino)
             v == [d EXCEPT !.size = size, !.mapped = UnmapPast(ino.mapped, size)]
  <2>1. /\ d \in Inode /\ d.slot = ino.slot /\ d.linked /\ d.hashed
        /\ ino.mapped \in [Idx -> Pointers]
    <3>1. d \in Inode /\ d.slot = ino.slot /\ d.hashed = ino.hashed
      BY <1>2, DirtiedType, DirtiedKeeps
    <3>2. d.linked = ino.linked
      BY <1>2, SoundTouched
    <3>3. ino.linked /\ ino.hashed
      BY <1>2 DEF InodeSound
    <3>4. ino.mapped \in [Idx -> Pointers]
      BY <1>2 DEF Inode
    <3> QED
      BY <3>1, <3>2, <3>3, <3>4
  <2>2. /\ inodes' = [inodes EXCEPT ![o] = v] /\ writing' = writing /\ writing[o] = NoWrite
        /\ ~(size > ino.size)
    BY <1>6 DEF Truncate, Plain
  <2>3. /\ \A k \in Idx : k * BlockSize < size => e.blocks[k] # 0
        /\ \A k \in Idx : ino.mapped[k] # 0 => e.blocks[k] = ino.mapped[k]
    <3>1. ino.size \in Nat /\ size \in Nat /\ \A k \in Idx : k * BlockSize \in Nat
      BY <1>2, LayoutAssumption DEF Inode, Idx, MaxSize
    <3> QED
      BY <1>2, <2>2, <3>1 DEF InodeSound
  <2>4. Live(e)
    BY <1>2 DEF InodeSound
  <2> HIDE DEF d
  <2>5. InodeSound(v, e, NoWrite)
    BY <2>1, <2>3, <2>4, SoundUnmapped
  <2>6. v.slot = ino.slot
    BY <2>1 DEF Inode
  <2> HIDE DEF v
  <2> QED
    BY <1>1, <2>2, <2>5, <2>6, InodeStepSound
<1>7. CASE DropPages(o)
  <2> DEFINE v == [ino EXCEPT !.mapped = NoBlocks]
  <2>1. inodes' = [inodes EXCEPT ![o] = v] /\ writing' = writing
    BY <1>7 DEF DropPages
  <2>2. v.slot = ino.slot /\ InodeSound(v, e, writing[o])
    BY <1>2 DEF Inode, InodeSound, NoBlocks
  <2> HIDE DEF v
  <2> QED
    BY <1>1, <2>1, <2>2, InodeStepSound
<1>8. CASE EvictInode(o)
  BY <1>1, <1>8, InodeStepSound DEF EvictInode
<1>9. ASSUME NEW i \in 0..BlockCnt, WriteRefused(o, i) PROVE AccountInv'
  <2>1. /\ writing[o] = NoWrite /\ writing' = writing
        /\ \E d \in Touched(o) :
             inodes' = [inodes EXCEPT ![o] = [d EXCEPT !.mapped = UnmapPast(@, d.size)]]
    BY <1>9, RefusedIs
  <2>2. PICK d \in Touched(o) :
          inodes' = [inodes EXCEPT ![o] = [d EXCEPT !.mapped = UnmapPast(@, d.size)]]
    BY <2>1
  <2>3. d \in Inode /\ InodeSound(d, e, NoWrite) /\ d.slot = ino.slot
    BY <1>2, <2>1, SoundTouched, DirtiedType, DirtiedKeeps DEF Touched
  <2> DEFINE v == [d EXCEPT !.size = d.size, !.mapped = UnmapPast(d.mapped, d.size)]
  <2>4. d.mapped \in [Idx -> Pointers] /\ d.size \in 0..MaxSize
    BY <2>3 DEF Inode
  <2>5. InodeSound(v, e, NoWrite)
    BY <2>3, <2>4, SoundUnmapped DEF InodeSound
  <2>6. inodes' = [inodes EXCEPT ![o] = v] /\ v.slot = ino.slot
    <3>1. [d EXCEPT !.mapped = UnmapPast(@, d.size)] = v /\ v.slot = d.slot
      BY <2>3 DEF Inode
    <3> QED
      BY <2>2, <2>3, <3>1
  <2> HIDE DEF v
  <2> QED
    BY <1>1, <2>1, <2>5, <2>6, InodeStepSound
<1> QED
  BY <1>3, <1>4, <1>5, <1>6, <1>7, <1>8, <1>9

\* What sfs_update makes of the entry of a sound inode: an entry in order, which
\* has lost only blocks past the size
LEMMA ResizedSound ==
  ASSUME NEW ino \in Inode, NEW e \in Entry, EntrySound(e), InodeSound(ino, e, NoWrite),
         NEW f, f = Resized(e, ino.size)
  PROVE  /\ f \in Entry /\ EntrySound(f) /\ f.name = e.name /\ f.size = ino.size
         /\ Fewer(e, f) /\ CutOff(e, ino.size) = Lost(e, f)
         /\ \A k \in Idx : k * BlockSize < ino.size => f.blocks[k] = e.blocks[k]
<1>1. ino.size \in 0..MaxSize
  BY DEF Inode
<1>2. f \in Entry
  BY <1>1, ResizedType
<1>3. /\ f.name = e.name /\ f.size = ino.size
      /\ \A k \in Idx : f.blocks[k] = IF k >= BlocksNeeded(ino.size) THEN 0 ELSE e.blocks[k]
  BY DEF Resized, Entry
<1>4. \A k \in Idx : /\ k * BlockSize < ino.size => f.blocks[k] = e.blocks[k]
                     /\ ~(k * BlockSize < ino.size) => f.blocks[k] = 0
  <2>1. ino.size \in Nat /\ \A k \in Idx : k * BlockSize \in Nat
    BY <1>1, LayoutAssumption DEF Idx, MaxSize
  <2>2. \A k \in Idx : k >= BlocksNeeded(ino.size) <=> k * BlockSize >= ino.size
    BY <1>1, NeededIff
  <2> QED
    BY <1>3, <2>1, <2>2
<1>5. Fewer(e, f) /\ CutOff(e, ino.size) = Lost(e, f)
  BY <1>3 DEF Fewer, CutOff, Lost
<1>6. EntrySound(f)
  <2>1. Live(f) /\ \A k \in Idx : k * BlockSize < ino.size => f.blocks[k] # 0
    BY <1>3, <1>4 DEF InodeSound, Live
  <2>2. ASSUME NEW j \in Idx, NEW k \in Idx, j < k, f.blocks[k] # 0 PROVE f.blocks[j] # 0
    <3>1. j * BlockSize + BlockSize <= k * BlockSize /\ k * BlockSize < ino.size
      BY <1>4, <2>2, StartsOrdered
    <3>2. /\ j * BlockSize \in Nat /\ k * BlockSize \in Nat /\ BlockSize \in Nat
          /\ ino.size \in Nat
      BY <1>1, LayoutAssumption DEF Idx, MaxSize
    <3>3. j * BlockSize < ino.size
      BY <3>1, <3>2
    <3> QED
      BY <2>1, <3>3
  <2> QED
    BY <1>3, <2>1, <2>2 DEF EntrySound
<1> QED
  BY <1>2, <1>3, <1>4, <1>5, <1>6

\* Writing an inode back keeps the invariant: what sfs_update gives back no byte
\* and no buffer is in
LEMMA WriteBackStep ==
  ASSUME Plain, Before, AccountInv, NEW o \in Objs, WriteInode(o)
  PROVE  AccountInv'
<1> USE DEF Before
<1> DEFINE ino == inodes[o]
           s == ino.slot
           e == table[s]
           f == Resized(e, ino.size)
           v == [ino EXCEPT !.dirty = FALSE]
<1>1. /\ IsInode(o) /\ mounted /\ UNCHANGED <<mounted, writing>> /\ writing[o] = NoWrite
      /\ inodes' = [inodes EXCEPT ![o] = v]
      /\ \/ table' = [table EXCEPT ![s] = f] /\ used' = used \ CutOff(e, ino.size)
         \/ UNCHANGED <<table, used>>
  BY DEF WriteInode, TypeOK, Plain
<1>2. /\ ino \in Inode /\ s \in Slots /\ e \in Entry
      /\ EntrySound(e) /\ InodeSound(ino, e, NoWrite)
  BY <1>1 DEF TypeOK, IsInode, Inode, AccountInv, InodesSound, EntriesSound
<1>3. /\ f \in Entry /\ EntrySound(f) /\ f.name = e.name /\ f.size = ino.size
      /\ Fewer(e, f) /\ CutOff(e, ino.size) = Lost(e, f)
      /\ \A k \in Idx : k * BlockSize < ino.size => f.blocks[k] = e.blocks[k]
  BY <1>2, ResizedSound
<1> HIDE DEF f
<1>4. v.slot = s /\ InodeSound(v, f, NoWrite)
  <2>1. /\ v.slot = s /\ v.size = ino.size /\ v.linked = ino.linked /\ v.hashed = ino.hashed
        /\ v.mapped = ino.mapped
    BY <1>2 DEF Inode
  <2>2. \A k \in Idx : ino.mapped[k] # 0 => k * BlockSize < ino.size /\ e.blocks[k] = ino.mapped[k]
    BY <1>2, ValuesAssumption DEF InodeSound
  <2> HIDE DEF v
  <2> QED
    BY <1>2, <1>3, <2>1, <2>2 DEF InodeSound, Live
<1>5. v.slot = s /\ InodeSound(v, e, NoWrite)
  BY <1>2 DEF Inode, InodeSound
<1> HIDE DEF v
<1>6. CASE UNCHANGED <<table, used>>
  BY <1>1, <1>5, <1>6, InodeStepSound
<1>7. CASE table' = [table EXCEPT ![s] = f] /\ used' = used \ CutOff(e, ino.size)
  <2>1. EntriesSound' /\ InodesSound'
    BY <1>1, <1>3, <1>4, <1>7, EntryStepSound
  <2>2. NoCrossLink' /\ used' = MetaBlocks \cup UNION {Held(table'[t]) : t \in Slots}
    BY <1>1, <1>2, <1>3, <1>7, GivingBack
  <2> QED
    BY <2>1, <2>2 DEF AccountInv, AccountingExact
<1> QED
  BY <1>1, <1>6, <1>7

\* What unmounting leaves is entries in order, which have lost blocks at most
LEMMA LeftoverSound ==
  ASSUME TypeOK, AccountInv, Unmount, NEW s \in Slots
  PROVE  EntrySound(table'[s]) /\ Fewer(table[s], table'[s])
<1>1. table[s] \in Entry /\ EntrySound(table[s])
  BY DEF TypeOK, AccountInv, EntriesSound
<1>2. table'[s] \in Leftover(s)
  BY UnmountIs
<1>3. CASE table'[s] = table[s]
  BY <1>1, <1>3 DEF Fewer
<1>4. ASSUME NEW o \in Objs, IsInode(o), inodes[o].slot = s,
             table'[s] = Resized(table[s], inodes[o].size)
      PROVE  EntrySound(table'[s]) /\ Fewer(table[s], table'[s])
  <2>1. inodes[o] \in Inode /\ writing[o] = NoWrite
    BY <1>4 DEF Unmount, TypeOK, IsInode
  <2>2. InodeSound(inodes[o], table[s], NoWrite)
    BY <1>4, <2>1 DEF AccountInv, InodesSound
  <2> QED
    BY <1>1, <1>4, <2>1, <2>2, ResizedSound
<1> QED
  BY <1>2, <1>3, <1>4 DEF Leftover

\* Every step keeps the invariant
LEMMA AccountStep ==
  ASSUME Plain, Before, TypeOK', AccountInv, [Next]_vars
  PROVE  AccountInv'
<1>1. CASE UNCHANGED <<table, inodes, writing>> /\ (Mount \/ UNCHANGED vars)
  <2>1. EntriesSound' /\ NoCrossLink'
    BY <1>1 DEF AccountInv, EntriesSound, NoCrossLink
  <2>2. InodesSound'
    BY <1>1 DEF AccountInv, InodesSound, IsInode
  <2>3. AccountingExact'
    BY <1>1, MarkedExact DEF Before, AccountInv, AccountingExact, Mount, vars
  <2> QED
    BY <2>1, <2>2, <2>3 DEF AccountInv
<1>2. CASE Unmount
  <2>1. EntriesSound'
    BY <1>2, LeftoverSound DEF Before, EntriesSound
  <2>2. NoCrossLink'
    BY <1>2, LeftoverSound DEF Before, AccountInv, NoCrossLink, Fewer
  <2>3. InodesSound' /\ AccountingExact'
    BY <1>2, UnmountIs DEF Before, InodesSound, AccountingExact, IsInode
  <2> QED
    BY <2>1, <2>2, <2>3 DEF AccountInv
<1>3. ASSUME NEW n \in Names,
             Lookup(n) \/ Create(n) \/ CreateUndone(n) \/ Unlink(n) \/ Open(n) \/ ReclaimDentry(n)
      PROVE  AccountInv'
  <2>1. CASE mounted
    BY <1>3, <2>1, DirectoryStep
  <2>2. CASE ~mounted
    <3>1. ReclaimDentry(n) /\ dcache[n] \notin Objs
      BY <1>3, <2>2 DEF Lookup, Create, CreateUndone, Unlink, Open, ReclaimDentry, Before, TypeOK
    <3>2. UNCHANGED <<table, used, mounted, inodes, writing>>
      BY <3>1 DEF ReclaimDentry, Before, TypeOK
    <3>3. EntriesSound' /\ NoCrossLink' /\ AccountingExact'
      BY <3>2 DEF AccountInv, EntriesSound, NoCrossLink, AccountingExact
    <3>4. InodesSound'
      BY <3>2 DEF AccountInv, InodesSound, IsInode
    <3> QED
      BY <3>3, <3>4 DEF AccountInv
  <2> QED
    BY <2>1, <2>2
<1>4. ASSUME FileIO PROVE AccountInv'
  BY <1>4, WriteStep, FileStep DEF FileIO
<1>5. ASSUME Background PROVE AccountInv'
  BY <1>5, WriteBackStep, FileStep DEF Background
<1> QED
  BY <1>1, <1>2, <1>3, <1>4, <1>5 DEF Next, Directory, Mount, vars

\* The invariant holds throughout
LEMMA AccountInvariant ==
  ASSUME Plain
  PROVE  Spec => [](Before /\ AccountInv)
<1>1. Init => AccountInv
  <2> SUFFICES ASSUME Init PROVE AccountInv
    OBVIOUS
  <2>1. \A s \in Slots : /\ table[s].size = 0 /\ ~Live(table[s])
                         /\ \A i \in Idx : table[s].blocks[i] = 0
    BY DEF Init, EmptyEntry, NoBlocks, Live
  <2>2. \A i \in Idx : ~(i * BlockSize < 0)
    <3>1. \A i \in Idx : i * BlockSize \in Nat
      BY LayoutAssumption DEF Idx
    <3> QED
      BY <3>1
  <2>3. EntriesSound
    BY <2>1, <2>2 DEF EntriesSound, EntrySound
  <2> QED
    BY <2>1, <2>3 DEF Init, AccountInv, InodesSound, IsInode, AccountingExact, NoCrossLink
<1>2. Spec => []Before
  <2>1. \A n \in Names : Stored[n] = n
    BY DEF Plain
  <2> QED
    BY <2>1, TypeCorrect, InodeCacheExact, NamesStoredOnce, InodesOfTheirNames, PTL DEF Before
<1>3. Before /\ TypeOK' /\ AccountInv /\ [Next]_vars => AccountInv'
  BY AccountStep
<1> QED
  BY <1>1, <1>2, <1>3, TypeCorrect, PTL DEF Spec

-----------------------------------------------------------------------------
(* What follows from it, while programs write where files end or below, and *)
(* remove and flush them only when nobody writes them                       *)

\* The tracker is exact: it marks each block that an entry points to and no
\* other, through allocation, truncation, removal and remounting
THEOREM AccountingCorrect == ASSUME Plain PROVE Spec => []AccountingExact
BY AccountInvariant, PTL DEF AccountInv

\* sfs_get_data_block never hands out a block that a pointer names: no block
\* belongs to two files, or twice to one
THEOREM BlocksHaveOneOwner == ASSUME Plain PROVE Spec => []NoCrossLink
BY AccountInvariant, PTL DEF AccountInv

\* init_browsing, whose loop stops at the first null pointer, would rebuild the
\* tracker that the handlers have kept: sfs_get_block and sfs_update leave no
\* null pointer before another one
THEOREM RemountIsFaithful == ASSUME Plain PROVE Spec => []RemountAgrees
<1>1. Before /\ AccountInv => RemountAgrees
  BY MarkedExact DEF Before, AccountInv, AccountingExact, RemountAgrees
<1> QED
  BY <1>1, AccountInvariant, PTL

\* sfs_get_block finds a block for every byte below i_size, whatever was
\* written, truncated and flushed before
THEOREM BytesHaveBlocks == ASSUME Plain PROVE Spec => []ReadableBelowSize
<1>1. AccountInv => ReadableBelowSize
  BY DEF AccountInv, InodesSound, InodeSound, ReadableBelowSize
<1> QED
  BY <1>1, AccountInvariant, PTL

\* "Free up all allocated blocks, if any" (sfs_remove): under the plainest workload
\* the loop that stops at the first null pointer meets all, and the tracker has
\* none of them left.  A file with a hole is the exception, as RealSfsHoleLeak shows
THEOREM RemovalFreesAll == ASSUME Plain PROVE Spec => RemoveFreesAll
<1> DEFINE Freed == \A s \in Slots :
                      mounted' /\ Live(table[s]) /\ ~Live(table'[s]) => Held(table[s]) \cap used' = {}
<1>1. Before /\ AccountInv /\ [Next]_vars => [Freed]_vars
  <2> SUFFICES ASSUME Before, AccountInv, [Next]_vars,
                      NEW s \in Slots, Live(table[s]), ~Live(table'[s])
               PROVE  Held(table[s]) \cap used' = {}
    OBVIOUS
  <2> USE DEF Before
  <2>1. CASE NamesKept
    BY <2>1 DEF NamesKept, Live
  <2>2. ASSUME NEW n \in Names, NEW t \in FreeSlots(table), NEW f, table' = [table EXCEPT ![t] = f]
        PROVE  FALSE
    <3>1. s # t
      BY DEF FreeSlots
    <3> QED
      BY <2>2, <3>1 DEF TypeOK
  <2>3. ASSUME NEW n \in Names, Create(n) \/ CreateUndone(n) PROVE FALSE
    BY <2>2, <2>3 DEF Create, CreateUndone, IsFirst
  <2>4. ASSUME NEW n \in Names, Unlink(n) PROVE Held(table[s]) \cap used' = {}
    <3>1. PICK t \in Slots : /\ used' = used \ Chain(table[t])
                             /\ table' = [table EXCEPT ![t] = EmptyEntry]
      BY <2>4 DEF Unlink, IsFirst, SlotsNamed
    <3>2. s = t
      BY <3>1 DEF TypeOK
    <3>3. Chain(table[s]) = Held(table[s])
      BY ChainIsHeld DEF TypeOK, AccountInv, EntriesSound
    <3> QED
      BY <3>1, <3>2, <3>3
  <2> QED
    BY <2>1, <2>3, <2>4, FileStepsKeepNames
<1> QED
  BY <1>1, AccountInvariant, PTL DEF Spec, RemoveFreesAll

-----------------------------------------------------------------------------
(***************************************************************************)
(* What richer workloads keep, as long as no file is removed while it is   *)
(* open, the table can be read and names are stored whole.                 *)
(***************************************************************************)

\* Files are removed when nobody has them open, the table can be read, and names
\* are stored whole
Tame == /\ "unlink_open" \notin Workload
        /\ ~ReadFails
        /\ \A n \in Names : Stored[n] = n

\* A buffer is mapped to its entry's block, below the size or in the block w that
\* is between write_begin and write_end
BuffersHeld(ino, e, w) ==
  \A i \in Idx : ino.mapped[i] # 0 =>
    e.blocks[i] = ino.mapped[i] /\ (i * BlockSize < ino.size \/ w = i)

\* An inode of entry e can be found, its size is the entry's or will be, and
\* where only sfs_update with no write in progress gives blocks back, it has
\* those its buffers are mapped to
InodeKept(ino, e, w) ==
  /\ ino.linked /\ ino.hashed /\ Live(e)
  /\ ~ino.dirty => e.size = ino.size
  /\ Workload \subseteq {"seek"} => BuffersHeld(ino, e, w)

InodesKept ==
  \A o \in Objs : IsInode(o) => InodeKept(inodes[o], table[inodes[o].slot], writing[o])

\* A step at one inode and its entry, which leaves it kept or discards it, leaves
\* all kept: no other inode is of that entry
LEMMA OneInodeStep ==
  ASSUME TypeOK, OneInodePerFile, InodesKept, NEW o \in Objs, IsInode(o), NEW f, NEW v,
         table' = [table EXCEPT ![inodes[o].slot] = f],
         inodes' = [inodes EXCEPT ![o] = v],
         \A p \in Objs \ {o} : writing'[p] = writing[p],
         v # NoInode => v.slot = inodes[o].slot /\ InodeKept(v, f, writing'[o])
  PROVE  InodesKept'
<1>1. ASSUME NEW p \in Objs, inodes'[p] # NoInode
      PROVE  InodeKept(inodes'[p], table'[inodes'[p].slot], writing'[p])
  <2>1. inodes[o].slot \in Slots
    BY DEF TypeOK, IsInode, Inode
  <2>2. CASE p = o
    BY <1>1, <2>1, <2>2 DEF TypeOK
  <2>3. CASE p # o
    <3>1. inodes'[p] = inodes[p] /\ IsInode(p) /\ writing'[p] = writing[p]
      BY <1>1, <2>3 DEF TypeOK, IsInode
    <3>2. inodes[p].slot \in Slots /\ inodes[p].slot # inodes[o].slot
      BY <2>3, <3>1 DEF InodesKept, InodeKept, OneInodePerFile, TypeOK, IsInode, Inode
    <3> QED
      BY <2>1, <3>1, <3>2 DEF InodesKept, TypeOK
  <2> QED
    BY <2>2, <2>3
<1> QED
  BY <1>1 DEF InodesKept, IsInode

\* The same of a step that leaves the table alone
LEMMA InodeOnlyStep ==
  ASSUME TypeOK, OneInodePerFile, InodesKept, NEW o \in Objs, IsInode(o), NEW v,
         table' = table, inodes' = [inodes EXCEPT ![o] = v],
         \A p \in Objs \ {o} : writing'[p] = writing[p],
         v # NoInode => /\ v.slot = inodes[o].slot
                        /\ InodeKept(v, table[inodes[o].slot], writing'[o])
  PROVE  InodesKept'
<1>1. table' = [table EXCEPT ![inodes[o].slot] = table[inodes[o].slot]]
  BY DEF TypeOK
<1> QED
  BY <1>1, OneInodeStep

\* A new inode of a live entry
LEMMA NewInodeKept ==
  ASSUME TypeOK, NEW s \in Slots, NEW o \in Objs, ~IsInode(o), NEW e, Live(e),
         inodes' = [inodes EXCEPT ![o] = NewInode(s, e.size, TRUE)],
         table'[s] = e, UNCHANGED writing,
         \A p \in Objs : IsInode(p) =>
           InodeKept(inodes[p], table'[inodes[p].slot], writing[p])
  PROVE  InodesKept'
<1>1. InodeKept(NewInode(s, e.size, TRUE), e, NoWrite) /\ NewInode(s, e.size, TRUE).slot = s
  BY DEF InodeKept, BuffersHeld, NewInode, NoBlocks
<1>2. writing[o] = NoWrite
  BY DEF TypeOK
<1>3. inodes'[o] = NewInode(s, e.size, TRUE)
  BY DEF TypeOK
<1>4. \A p \in Objs \ {o} : inodes'[p] = inodes[p]
  BY DEF TypeOK
<1>5. ASSUME NEW p \in Objs, inodes'[p] # NoInode
      PROVE  InodeKept(inodes'[p], table'[inodes'[p].slot], writing'[p])
  <2>1. CASE p = o
    BY <1>1, <1>2, <1>3, <2>1
  <2>2. CASE p # o
    BY <1>4, <1>5, <2>2 DEF IsInode
  <2> QED
    BY <2>1, <2>2
<1> QED
  BY <1>5 DEF InodesKept, IsInode

\* open, close and mark_inode_dirty keep an inode
LEMMA KeptTouched ==
  ASSUME NEW ino \in Inode, NEW e, NEW w, InodeKept(ino, e, w), NEW open \in BOOLEAN
  PROVE  /\ InodeKept([ino EXCEPT !.open = open], e, w)
         /\ InodeKept(Dirtied(ino), e, w) /\ Dirtied(ino) \in Inode
         /\ Dirtied(ino) = [ino EXCEPT !.dirty = TRUE]
BY DEF Inode, InodeKept, BuffersHeld, Dirtied

\* Directory steps keep inodes
LEMMA DirectoryKept ==
  ASSUME Tame, Before, TypeOK', InodesKept, NEW n \in Names,
         Lookup(n) \/ Create(n) \/ CreateUndone(n) \/ Unlink(n) \/ Open(n) \/ ReclaimDentry(n)
  PROVE  InodesKept'
<1> USE DEF Before
<1>0. \A o \in Objs : IsInode(o) =>
        /\ inodes[o] \in Inode /\ inodes[o].slot \in Slots
        /\ InodeKept(inodes[o], table[inodes[o].slot], writing[o])
  BY DEF TypeOK, IsInode, Inode, InodesKept
<1>1. UNCHANGED <<table, inodes, writing>> => InodesKept'
  BY DEF InodesKept, IsInode
<1>2. \A s \in FreeSlots(table) : \A o \in Objs : IsInode(o) => inodes[o].slot # s
  BY <1>0 DEF FreeSlots, InodeKept
<1>3. CASE Lookup(n)
  <2>1. CASE UNCHANGED inodes
    BY <1>1, <1>3, <2>1 DEF Lookup
  <2>2. ASSUME NEW s \in Slots, NEW o \in Objs, s \in SlotsNamed(table, n), ~IsInode(o),
               inodes' = [inodes EXCEPT ![o] = NewInode(s, table[s].size, TRUE)]
        PROVE  InodesKept'
    <3>1. Live(table[s]) /\ UNCHANGED <<table, writing>>
      BY <1>3, <2>2 DEF SlotsNamed, Lookup
    <3> QED
      BY <1>0, <2>2, <3>1, NewInodeKept
  <2> QED
    BY <1>3, <2>1, <2>2 DEF Lookup, IsFirst
<1>4. CASE Create(n)
  <2>1. PICK s \in Slots, o \in Objs :
          /\ s \in FreeSlots(table) /\ ~IsInode(o)
          /\ table' = [table EXCEPT ![s] = NewEntry(n)]
          /\ inodes' = [inodes EXCEPT ![o] = NewInode(s, 0, HashedAt(s) = {})]
    BY <1>4 DEF Create, IsFirst
  <2>2. (HashedAt(s) = {}) = TRUE
    BY <1>2, <2>1 DEF HashedAt
  <2>3. Live(NewEntry(n)) /\ NewEntry(n).size = 0
    BY NamesAssumption DEF NewEntry, Live
  <2>4. table'[s] = NewEntry(n) /\ \A t \in Slots \ {s} : table'[t] = table[t]
    BY <2>1 DEF TypeOK
  <2>5. UNCHANGED writing
    BY <1>4 DEF Create
  <2>6. inodes' = [inodes EXCEPT ![o] = NewInode(s, NewEntry(n).size, TRUE)]
    BY <2>1, <2>2, <2>3
  <2>7. \A p \in Objs : IsInode(p) => InodeKept(inodes[p], table'[inodes[p].slot], writing[p])
    BY <1>0, <1>2, <2>1, <2>4
  <2> QED
    BY <2>1, <2>3, <2>4, <2>5, <2>6, <2>7, NewInodeKept
<1>5. CASE CreateUndone(n)
  <2>1. PICK s \in FreeSlots(table) : table' = [table EXCEPT ![s] = EmptyEntry]
    BY <1>5 DEF CreateUndone, IsFirst, Tame
  <2>2. \A t \in Slots \ {s} : table'[t] = table[t]
    BY <2>1 DEF TypeOK
  <2> QED
    BY <1>0, <1>2, <1>5, <2>2 DEF CreateUndone, InodesKept, IsInode
<1>6. CASE Unlink(n)
  <2> DEFINE o == dcache[n]
             dc == [dcache EXCEPT ![n] = IF inodes[o].open THEN Uncached ELSE Negative]
             gone == [Dirtied(inodes[o]) EXCEPT !.linked = FALSE]
  <2>1. /\ o \in Objs /\ IsInode(o) /\ inodes[o] \in Inode
        /\ SlotsNamed(table, n) = {inodes[o].slot} /\ ~inodes[o].open
    BY <1>0, <1>6 DEF Unlink, TypeOK, PositiveTruth, Tame
  <2>2. /\ table' = [table EXCEPT ![inodes[o].slot] = EmptyEntry]
        /\ inodes' = [inodes EXCEPT ![o] = Dropped(gone, o, dc)]
        /\ UNCHANGED writing
    BY <1>6, <2>1 DEF Unlink, IsFirst
  <2>3. \A m \in Names : dc[m] # o
    <3>1. ASSUME NEW m \in Names, m # n, dcache[m] = o PROVE FALSE
      <4>1. inodes[o].slot \in SlotsNamed(table, m) /\ inodes[o].slot \in SlotsNamed(table, n)
        BY <2>1, <3>1 DEF PositiveTruth
      <4> QED
        BY <3>1, <4>1 DEF SlotsNamed
    <3>2. dc[n] # o
      BY <2>1, ValuesAssumption DEF TypeOK
    <3> QED
      BY <3>1, <3>2 DEF TypeOK
  <2>4. ~gone.linked /\ ~gone.open
    BY <2>1, DirtiedType DEF Inode
  <2> HIDE DEF gone, dc
  <2>5. Dropped(gone, o, dc) = NoInode
    BY <2>3, <2>4 DEF Dropped
  <2> HIDE DEF o
  <2> QED
    BY <2>1, <2>2, <2>5, OneInodeStep
<1>7. CASE Open(n)
  <2>1. dcache[n] \in Objs /\ IsInode(dcache[n])
    BY <1>7 DEF Open, TypeOK
  <2>2. /\ inodes' = [inodes EXCEPT ![dcache[n]] = [inodes[dcache[n]] EXCEPT !.open = TRUE]]
        /\ UNCHANGED <<table, writing>>
    BY <1>7 DEF Open
  <2>3. [inodes[dcache[n]] EXCEPT !.open = TRUE].slot = inodes[dcache[n]].slot
    BY <1>0, <2>1 DEF Inode
  <2> QED
    BY <1>0, <2>1, <2>2, <2>3, KeptTouched, InodeOnlyStep
<1>8. CASE ReclaimDentry(n)
  <2>1. PICK dc : inodes' = [o \in Objs |-> IF o = dcache[n] THEN Dropped(inodes[o], o, dc)
                                                             ELSE inodes[o]]
    BY <1>8 DEF ReclaimDentry
  <2>2. \A o \in Objs : inodes'[o] # NoInode => inodes'[o] = inodes[o]
    BY <2>1 DEF Dropped
  <2> QED
    BY <1>0, <1>8, <2>2 DEF ReclaimDentry, InodesKept, IsInode
<1> QED
  BY <1>3, <1>4, <1>5, <1>6, <1>7, <1>8

\* sfs_get_block gives the entry block b at index i, and changes nothing else of it
LEMMA GetBlockGrows ==
  ASSUME TypeOK, NEW o \in Objs, IsInode(o), NEW i \in Idx, NEW b \in Reachable(o), GetBlock(o, i, b)
  PROVE  \E f : /\ table' = [table EXCEPT ![inodes[o].slot] = f]
                /\ Grows(table[inodes[o].slot], f) /\ b \in Pointers \ {0} /\ f.blocks[i] = b
<1> DEFINE s == inodes[o].slot
           f == [table[s] EXCEPT !.blocks = [table[s].blocks EXCEPT ![i] = b]]
<1>1. s \in Slots /\ table[s] \in Entry
  BY DEF TypeOK, IsInode, Inode
<1>2. b \in Pointers \ {0}
  BY <1>1, ReachableType, LayoutAssumption DEF Pointers, DataBlocks
<1>3. CASE b = table[s].blocks[i] /\ UNCHANGED table
  <2>1. table' = [table EXCEPT ![s] = table[s]] /\ Grows(table[s], table[s])
    BY <1>3 DEF TypeOK, Grows
  <2> QED
    BY <1>2, <1>3, <2>1
<1>4. CASE table[s].blocks[i] = 0 /\ table' = [table EXCEPT ![s].blocks[i] = b]
  <2>1. f.blocks[i] = b /\ Grows(table[s], f)
    BY <1>1, <1>4 DEF Entry, Grows
  <2>2. table' = [table EXCEPT ![s] = f]
    BY <1>1, <1>4 DEF Entry, TypeOK
  <2> HIDE DEF f
  <2> QED
    BY <1>2, <2>1, <2>2
<1> QED
  BY <1>3, <1>4 DEF GetBlock

\* Between write_begin and write_end of block i
LEMMA KeptBegun ==
  ASSUME NEW ino \in Inode, NEW e, NEW f, NEW i \in Idx, InodeKept(ino, e, NoWrite), Grows(e, f),
         NEW m, m = ino.mapped \/ m = [ino.mapped EXCEPT ![i] = f.blocks[i]]
  PROVE  InodeKept([ino EXCEPT !.mapped = m], f, i)
<1>1. ino.mapped \in [Idx -> Pointers]
  BY DEF Inode
<1>2. BuffersHeld(ino, e, NoWrite) =>
        \A k \in Idx : m[k] # 0 => f.blocks[k] = m[k] /\ (k * BlockSize < ino.size \/ i = k)
  BY <1>1, ValuesAssumption DEF BuffersHeld, Grows
<1>3. LET v == [ino EXCEPT !.mapped = m]
      IN  /\ v.mapped = m /\ v.size = ino.size /\ v.linked = ino.linked
          /\ v.hashed = ino.hashed /\ v.dirty = ino.dirty
  BY DEF Inode
<1> QED
  BY <1>2, <1>3 DEF InodeKept, BuffersHeld, Grows, Live

\* Once the buffers past the size are unmapped
LEMMA KeptUnmapped ==
  ASSUME NEW ino \in Inode, NEW e, NEW m \in [Idx -> Pointers], NEW size \in 0..MaxSize,
         ino.linked, ino.hashed, Live(e), ino.dirty \/ e.size = size,
         Workload \subseteq {"seek"} => \A k \in Idx : m[k] # 0 => e.blocks[k] = m[k]
  PROVE  InodeKept([ino EXCEPT !.size = size, !.mapped = UnmapPast(m, size)], e, NoWrite)
<1> DEFINE u == UnmapPast(m, size)
           v == [ino EXCEPT !.size = size, !.mapped = u]
<1>1. \A k \in Idx : u[k] # 0 => m[k] = u[k] /\ k * BlockSize < size
  <2>1. \A k \in Idx : u[k] # 0 => m[k] = u[k] /\ ~(k >= BlocksNeeded(size))
    BY DEF UnmapPast
  <2>2. \A k \in Idx : k * BlockSize \in Nat /\ size \in Nat
    BY LayoutAssumption DEF Idx, MaxSize
  <2> HIDE DEF u
  <2> QED
    BY <2>1, <2>2, NeededIff
<1> HIDE DEF u
<1>2. /\ v.mapped = u /\ v.size = size /\ v.linked = ino.linked
      /\ v.hashed = ino.hashed /\ v.dirty = ino.dirty
  BY DEF Inode
<1> HIDE DEF v
<1>3. InodeKept(v, e, NoWrite)
  BY <1>1, <1>2 DEF InodeKept, BuffersHeld
<1> QED
  BY <1>3 DEF u, v

\* After generic_write_end of r bytes of block w
LEMMA KeptWritten ==
  ASSUME NEW ino \in Inode, NEW e, NEW w \in Idx, InodeKept(ino, e, w), NEW r \in 0..BlockSize,
         r = 0 => "copy_fault" \in Workload
  PROVE  InodeKept(IF r > 0 /\ w * BlockSize + r > ino.size
                     THEN [Dirtied(ino) EXCEPT !.size = w * BlockSize + r]
                     ELSE ino, e, NoWrite)
<1> DEFINE to == w * BlockSize + r
           v == [Dirtied(ino) EXCEPT !.size = to]
<1>1. /\ ino.size \in Nat /\ w * BlockSize \in Nat /\ r \in Nat /\ to \in Nat
      /\ \A k \in Idx : k * BlockSize \in Nat
  BY LayoutAssumption DEF Inode, Idx, MaxSize
<1>2. /\ v.mapped = ino.mapped /\ v.size = to /\ v.linked = ino.linked
      /\ v.hashed = ino.hashed /\ v.dirty = ino.hashed
  BY DEF Inode, Dirtied
<1> HIDE DEF v
<1>3. CASE r > 0 /\ to > ino.size
  <2>1. \A k \in Idx : k * BlockSize < ino.size \/ w = k => k * BlockSize < to
    BY <1>1, <1>3
  <2> HIDE DEF to
  <2>2. InodeKept(v, e, NoWrite)
    BY <1>2, <2>1 DEF InodeKept, BuffersHeld
  <2> QED
    BY <1>3, <2>2 DEF v, to
<1>4. CASE ~(r > 0 /\ to > ino.size)
  <2>1. ASSUME Workload \subseteq {"seek"} PROVE BuffersHeld(ino, e, NoWrite)
    <3>1. r > 0
      BY <1>1, <2>1
    <3>2. \A k \in Idx : k * BlockSize < ino.size \/ w = k => k * BlockSize < ino.size
      BY <1>1, <1>4, <3>1
    <3> QED
      BY <2>1, <3>2 DEF InodeKept, BuffersHeld
  <2>2. InodeKept(ino, e, NoWrite)
    BY <2>1 DEF InodeKept
  <2> QED
    BY <1>4, <2>2
<1> QED
  BY <1>3, <1>4

\* Writes keep inodes
LEMMA WriteKept ==
  ASSUME Before, InodesKept, NEW o \in Objs, NEW i \in Idx, WriteBegin(o, i) \/ WriteFails(o, i)
  PROVE  InodesKept'
<1> USE DEF Before
<1> DEFINE s == inodes[o].slot
<1>1. IsInode(o) /\ writing[o] = NoWrite
  BY DEF WriteBegin, WriteFails, CanWrite
<1>2. inodes[o] \in Inode /\ s \in Slots /\ InodeKept(inodes[o], table[s], NoWrite)
  BY <1>1 DEF TypeOK, IsInode, Inode, InodesKept
<1>3. \A ino \in Touched(o) :
        /\ ino \in Inode /\ InodeKept(ino, table[s], NoWrite)
        /\ ino.slot = s /\ ino.mapped = inodes[o].mapped
  <2> DEFINE d == Dirtied(inodes[o])
  <2>1. d \in Inode /\ InodeKept(d, table[s], NoWrite) /\ d = [inodes[o] EXCEPT !.dirty = TRUE]
    BY <1>2, KeptTouched
  <2>2. d.slot = s /\ d.mapped = inodes[o].mapped
    BY <1>2, <2>1 DEF Inode
  <2> HIDE DEF d
  <2>3. Touched(o) = {inodes[o], d}
    BY DEF Touched, d
  <2> QED
    BY <1>2, <2>1, <2>2, <2>3
<1>4. CASE WriteBegin(o, i)
  <2>1. writing'[o] = i /\ \A p \in Objs \ {o} : writing'[p] = writing[p]
    BY <1>4 DEF WriteBegin, TypeOK
  <2>2. PICK ino \in Touched(o) :
          \/ /\ inodes' = [inodes EXCEPT ![o] = ino]
             /\ UNCHANGED <<table, used>>
          \/ \E b \in Reachable(o) :
               /\ GetBlock(o, i, b)
               /\ inodes' = [inodes EXCEPT ![o] = [ino EXCEPT !.mapped[i] = b]]
    BY <1>4, Zenon DEF WriteBegin
  <2>3. CASE inodes' = [inodes EXCEPT ![o] = ino] /\ UNCHANGED <<table, used>>
    <3>1. [ino EXCEPT !.mapped = ino.mapped] = ino /\ Grows(table[s], table[s])
      BY <1>3 DEF Inode, Grows
    <3>2. InodeKept([ino EXCEPT !.mapped = ino.mapped], table[s], i)
      BY <1>3, <3>1, KeptBegun
    <3> QED
      BY <1>1, <1>3, <2>1, <2>3, <3>1, <3>2, InodeOnlyStep
  <2>4. ASSUME NEW b \in Reachable(o), GetBlock(o, i, b),
               inodes' = [inodes EXCEPT ![o] = [ino EXCEPT !.mapped[i] = b]]
        PROVE  InodesKept'
    <3> DEFINE m == [ino.mapped EXCEPT ![i] = b]
               v == [ino EXCEPT !.mapped = m]
    <3>1. PICK f : table' = [table EXCEPT ![s] = f] /\ Grows(table[s], f) /\ f.blocks[i] = b
      BY <1>1, <2>4, GetBlockGrows
    <3>2. [ino EXCEPT !.mapped[i] = b] = v /\ v.slot = s
      BY <1>3 DEF Inode
    <3>3. InodeKept(v, f, i)
      BY <1>3, <3>1, KeptBegun
    <3>4. inodes' = [inodes EXCEPT ![o] = v]
      BY <2>4, <3>2
    <3> HIDE DEF v
    <3> QED
      BY <1>1, <2>1, <3>1, <3>2, <3>3, <3>4, OneInodeStep
  <2> QED
    BY <2>2, <2>3, <2>4
<1>5. CASE WriteFails(o, i)
  <2>1. PICK b \in Reachable(o), ino \in Touched(o) :
          /\ GetBlock(o, i, b)
          /\ inodes' = [inodes EXCEPT
               ![o] = [ino EXCEPT !.mapped = UnmapPast([@ EXCEPT ![i] = b], ino.size)]]
    BY <1>5 DEF WriteFails
  <2>2. PICK f : /\ table' = [table EXCEPT ![s] = f] /\ Grows(table[s], f) /\ f.blocks[i] = b
                 /\ b \in Pointers
    BY <1>1, <2>1, GetBlockGrows
  <2> DEFINE m == [ino.mapped EXCEPT ![i] = b]
             v == [ino EXCEPT !.size = ino.size, !.mapped = UnmapPast(m, ino.size)]
  <2>3. /\ m \in [Idx -> Pointers] /\ ino.size \in 0..MaxSize
        /\ [ino EXCEPT !.mapped = UnmapPast([@ EXCEPT ![i] = b], ino.size)] = v
        /\ v.slot = s
    BY <1>3, <2>2 DEF Inode
  <2>4. /\ ino.linked /\ ino.hashed /\ Live(f) /\ (ino.dirty \/ f.size = ino.size)
        /\ Workload \subseteq {"seek"} => \A k \in Idx : m[k] # 0 => f.blocks[k] = m[k]
    <3>1. ino.mapped \in [Idx -> Pointers]
      BY <1>3 DEF Inode
    <3> QED
      BY <1>3, <2>2, <3>1 DEF InodeKept, BuffersHeld, Grows, Live
  <2> HIDE DEF m
  <2>5. InodeKept(v, f, NoWrite)
    BY <1>3, <2>3, <2>4, KeptUnmapped
  <2>6. inodes' = [inodes EXCEPT ![o] = v] /\ writing' = writing
    BY <1>5, <2>1, <2>3 DEF WriteFails
  <2> HIDE DEF v
  <2> QED
    BY <1>1, <2>2, <2>3, <2>5, <2>6, OneInodeStep
<1> QED
  BY <1>4, <1>5

\* The other steps on a file keep inodes
LEMMA FileKept ==
  ASSUME Before, InodesKept, NEW o \in Objs,
         \/ Close(o) \/ \E r \in 0..BlockSize : WriteEnd(o, r)
         \/ \E i \in Idx : ReadBlock(o, i)
         \/ \E i \in 0..BlockCnt : WriteRefused(o, i)
         \/ \E size \in 0..MaxSize : Truncate(o, size)
         \/ DropPages(o) \/ EvictInode(o)
  PROVE  InodesKept'
<1> USE DEF Before
<1> DEFINE ino == inodes[o]
           e == table[inodes[o].slot]
<1>1. IsInode(o) /\ table' = table
  BY DEF Close, WriteEnd, ReadBlock, WriteRefused, CanWrite, Truncate, DropPages, EvictInode, TypeOK
<1>2. ino \in Inode /\ InodeKept(ino, e, writing[o])
  BY <1>1 DEF TypeOK, IsInode, InodesKept
<1>3. CASE Close(o)
  <2> DEFINE shut == [ino EXCEPT !.open = FALSE]
  <2>1. shut \in Inode /\ shut.slot = ino.slot /\ InodeKept(shut, e, writing[o])
    BY <1>2, KeptTouched DEF Inode
  <2>2. inodes' = [inodes EXCEPT ![o] = Dropped(shut, o, dcache)] /\ writing' = writing
    BY <1>3 DEF Close
  <2> HIDE DEF shut
  <2>3. Dropped(shut, o, dcache) \in {shut, NoInode}
    BY <2>1, DroppedType
  <2> QED
    BY <1>1, <2>1, <2>2, <2>3, InodeOnlyStep
<1>4. ASSUME NEW r \in 0..BlockSize, WriteEnd(o, r) PROVE InodesKept'
  <2> DEFINE to == writing[o] * BlockSize + r
             v == IF r > 0 /\ to > ino.size THEN [Dirtied(ino) EXCEPT !.size = to] ELSE ino
  <2>1. writing[o] \in Idx /\ (r = 0 => "copy_fault" \in Workload)
    BY <1>4 DEF WriteEnd, TypeOK
  <2>2. InodeKept(v, e, NoWrite)
    BY <1>2, <2>1, KeptWritten
  <2>3. v.slot = ino.slot
    BY <1>2, DirtiedType, DirtiedKeeps DEF Inode
  <2>4. inodes' = [inodes EXCEPT ![o] = v] /\ writing' = [writing EXCEPT ![o] = NoWrite]
    BY <1>4 DEF WriteEnd
  <2>5. writing'[o] = NoWrite /\ \A p \in Objs \ {o} : writing'[p] = writing[p]
    BY <2>4 DEF TypeOK
  <2> HIDE DEF v
  <2> QED
    BY <1>1, <2>2, <2>3, <2>4, <2>5, InodeOnlyStep
<1>5. ASSUME NEW i \in Idx, ReadBlock(o, i) PROVE InodesKept'
  <2> DEFINE v == [ino EXCEPT !.mapped = [ino.mapped EXCEPT ![i] = e.blocks[i]]]
  <2>1. inodes' = [inodes EXCEPT ![o] = v] /\ writing' = writing
    <3>1. [ino EXCEPT !.mapped[i] = e.blocks[i]] = v
      BY <1>2 DEF Inode
    <3> QED
      BY <1>5, <3>1 DEF ReadBlock
  <2>2. i * BlockSize < ino.size
    <3>1. i * BlockSize \in Nat /\ ino.size \in 0..MaxSize /\ ino.size \in Nat
      BY <1>2, LayoutAssumption DEF Inode, Idx, MaxSize
    <3>2. i < BlocksNeeded(ino.size) /\ BlocksNeeded(ino.size) \in Int /\ i \in Int
      BY <1>5, <3>1, LayoutAssumption DEF ReadBlock, BlocksNeeded, Idx
    <3> QED
      BY <3>1, <3>2, NeededIff
  <2>3. /\ v.slot = ino.slot /\ v.size = ino.size /\ v.linked = ino.linked
        /\ v.hashed = ino.hashed /\ v.dirty = ino.dirty
        /\ v.mapped[i] = e.blocks[i] /\ \A k \in Idx \ {i} : v.mapped[k] = ino.mapped[k]
    BY <1>2 DEF Inode
  <2> HIDE DEF v
  <2>4. InodeKept(v, e, writing[o])
    BY <1>2, <2>2, <2>3 DEF InodeKept, BuffersHeld
  <2> QED
    BY <1>1, <2>1, <2>3, <2>4, InodeOnlyStep
<1>6. ASSUME NEW size \in 0..MaxSize, Truncate(o, size) PROVE InodesKept'
  <2> DEFINE d == Dirtied(ino)
             v == [d EXCEPT !.size = size, !.mapped = UnmapPast(ino.mapped, size)]
  <2>1. d \in Inode /\ InodeKept(d, e, writing[o]) /\ d = [ino EXCEPT !.dirty = TRUE]
    BY <1>2, KeptTouched
  <2>2. d.dirty /\ d.slot = ino.slot /\ d.mapped = ino.mapped /\ d.mapped \in [Idx -> Pointers]
    BY <1>2, <2>1 DEF Inode
  <2>3. /\ inodes' = [inodes EXCEPT ![o] = v] /\ writing' = writing /\ writing[o] = NoWrite
    BY <1>6 DEF Truncate
  <2>4. /\ d.linked /\ d.hashed /\ Live(e)
        /\ Workload \subseteq {"seek"} => \A k \in Idx : d.mapped[k] # 0 => e.blocks[k] = d.mapped[k]
    BY <2>1 DEF InodeKept, BuffersHeld
  <2> HIDE DEF d
  <2>5. InodeKept(v, e, NoWrite)
    BY <2>1, <2>2, <2>4, KeptUnmapped
  <2>6. v.slot = ino.slot
    BY <2>1, <2>2 DEF Inode
  <2> HIDE DEF v
  <2> QED
    BY <1>1, <2>3, <2>5, <2>6, InodeOnlyStep
<1>7. CASE DropPages(o)
  <2> DEFINE v == [ino EXCEPT !.mapped = NoBlocks]
  <2>1. inodes' = [inodes EXCEPT ![o] = v] /\ writing' = writing
    BY <1>7 DEF DropPages
  <2>2. v.slot = ino.slot /\ InodeKept(v, e, writing[o])
    BY <1>2 DEF Inode, InodeKept, BuffersHeld, NoBlocks
  <2> HIDE DEF v
  <2> QED
    BY <1>1, <2>1, <2>2, InodeOnlyStep
<1>8. CASE EvictInode(o)
  BY <1>1, <1>8, InodeOnlyStep DEF EvictInode
<1>9. ASSUME NEW i \in 0..BlockCnt, WriteRefused(o, i) PROVE InodesKept'
  <2>1. /\ writing[o] = NoWrite /\ writing' = writing
        /\ \E d \in Touched(o) :
             inodes' = [inodes EXCEPT ![o] = [d EXCEPT !.mapped = UnmapPast(@, d.size)]]
    BY <1>9, RefusedIs
  <2>2. PICK d \in Touched(o) :
          inodes' = [inodes EXCEPT ![o] = [d EXCEPT !.mapped = UnmapPast(@, d.size)]]
    BY <2>1
  <2>3. d \in Inode /\ InodeKept(d, e, NoWrite) /\ d.slot = ino.slot
    <3>1. /\ Dirtied(ino) \in Inode /\ InodeKept(Dirtied(ino), e, NoWrite)
          /\ Dirtied(ino).slot = ino.slot
      BY <1>2, <2>1, KeptTouched, DirtiedKeeps
    <3> QED
      BY <1>2, <2>1, <3>1 DEF Touched
  <2> DEFINE v == [d EXCEPT !.size = d.size, !.mapped = UnmapPast(d.mapped, d.size)]
  <2>4. d.mapped \in [Idx -> Pointers] /\ d.size \in 0..MaxSize
    BY <2>3 DEF Inode
  <2>5. InodeKept(v, e, NoWrite)
    <3>1. /\ d.linked /\ d.hashed /\ Live(e) /\ (d.dirty \/ e.size = d.size)
          /\ Workload \subseteq {"seek"} => \A k \in Idx : d.mapped[k] # 0 => e.blocks[k] = d.mapped[k]
      BY <2>3 DEF InodeKept, BuffersHeld
    <3> QED
      BY <2>3, <2>4, <3>1, KeptUnmapped
  <2>6. inodes' = [inodes EXCEPT ![o] = v] /\ v.slot = ino.slot
    <3>1. [d EXCEPT !.mapped = UnmapPast(@, d.size)] = v /\ v.slot = d.slot
      BY <2>3 DEF Inode
    <3> QED
      BY <2>2, <2>3, <3>1
  <2> HIDE DEF v
  <2> QED
    BY <1>1, <2>1, <2>5, <2>6, InodeOnlyStep
<1> QED
  BY <1>3, <1>4, <1>5, <1>6, <1>7, <1>8, <1>9

\* sfs_write_inode keeps inodes: with no write in progress no buffer is in a block
\* that sfs_update gives back
LEMMA WriteBackKept ==
  ASSUME Tame, Before, InodesKept, NEW o \in Objs, WriteInode(o)
  PROVE  InodesKept'
<1> USE DEF Before
<1> DEFINE ino == inodes[o]
           e == table[ino.slot]
           f == Resized(e, ino.size)
           v == [ino EXCEPT !.dirty = FALSE]
<1>1. /\ IsInode(o) /\ UNCHANGED writing
      /\ table' = [table EXCEPT ![ino.slot] = f]
      /\ inodes' = [inodes EXCEPT ![o] = v]
      /\ Workload \subseteq {"seek"} => writing[o] = NoWrite
  BY DEF WriteInode, Tame
<1>2. /\ ino \in Inode /\ e \in Entry /\ ino.size \in 0..MaxSize
      /\ InodeKept(ino, e, writing[o])
  BY <1>1 DEF TypeOK, IsInode, Inode, InodesKept
<1>3. /\ f.name = e.name /\ f.size = ino.size
      /\ \A k \in Idx : f.blocks[k] = IF k >= BlocksNeeded(ino.size) THEN 0 ELSE e.blocks[k]
  BY <1>2 DEF Resized, Entry
<1>4. \A k \in Idx : k * BlockSize < ino.size => f.blocks[k] = e.blocks[k]
  <2>1. ino.size \in Nat /\ \A k \in Idx : k * BlockSize \in Nat
    BY <1>2, LayoutAssumption DEF Idx, MaxSize
  <2>2. \A k \in Idx : k >= BlocksNeeded(ino.size) <=> k * BlockSize >= ino.size
    BY <1>2, NeededIff
  <2> QED
    BY <1>3, <2>1, <2>2
<1>5. /\ v.slot = ino.slot /\ v.size = ino.size /\ v.linked = ino.linked
      /\ v.hashed = ino.hashed /\ v.mapped = ino.mapped
  BY <1>2 DEF Inode
<1> HIDE DEF f, v
<1>6. ASSUME Workload \subseteq {"seek"} PROVE BuffersHeld(v, f, writing[o])
  BY <1>1, <1>2, <1>4, <1>5, <1>6, ValuesAssumption DEF InodeKept, BuffersHeld
<1>7. InodeKept(v, f, writing[o])
  BY <1>2, <1>3, <1>5, <1>6 DEF InodeKept, Live
<1> QED
  BY <1>1, <1>5, <1>7, OneInodeStep

\* Inodes are kept throughout
LEMMA KeptInvariant ==
  ASSUME Tame
  PROVE  Spec => [](Before /\ InodesKept)
<1>1. Init => InodesKept
  BY DEF Init, InodesKept, IsInode
<1>2. Before /\ TypeOK' /\ InodesKept /\ [Next]_vars => InodesKept'
  <2> SUFFICES ASSUME Before, TypeOK', InodesKept, [Next]_vars PROVE InodesKept'
    OBVIOUS
  <2>1. CASE UNCHANGED <<table, inodes, writing>>
    BY <2>1 DEF InodesKept, IsInode
  <2>2. CASE Unmount
    BY <2>2, UnmountIs DEF Before, InodesKept, IsInode
  <2> QED
    BY <2>1, <2>2, DirectoryKept, WriteKept, FileKept, WriteBackKept
       DEF Next, Directory, FileIO, Background, Mount, vars
<1>3. Spec => []Before
  <2>1. \A n \in Names : Stored[n] = n
    BY DEF Tame
  <2> QED
    BY <2>1, TypeCorrect, InodeCacheExact, NamesStoredOnce, InodesOfTheirNames, PTL DEF Before
<1> QED
  BY <1>1, <1>2, <1>3, TypeCorrect, PTL DEF Spec

\* A buffer that sfs_get_block mapped stays mapped to the block the entry names,
\* if no inode is written back in the middle of a write and no write ends without
\* a byte, with failing reads or with holes: sfs_update gives back blocks past the
\* size only
THEOREM BuffersStayOwned ==
  ASSUME Plain \/ (Tame /\ Workload \subseteq {"seek"})
  PROVE  Spec => []MappedOwned
<1>1. ASSUME Plain PROVE Spec => []MappedOwned
  <2>1. AccountInv => MappedOwned
    BY DEF AccountInv, InodesSound, InodeSound, MappedOwned
  <2> QED
    BY <1>1, <2>1, AccountInvariant, PTL
<1>2. ASSUME Tame, Workload \subseteq {"seek"} PROVE Spec => []MappedOwned
  <2>1. InodesKept => MappedOwned
    BY <1>2 DEF InodesKept, InodeKept, BuffersHeld, MappedOwned
  <2> QED
    BY <1>2, <2>1, KeptInvariant, PTL
<1> QED
  BY <1>1, <1>2

\* A size that differs from the one on the partition is marked to be written:
\* no eviction forgets it, and only sfs_kill_sb can.  Seeking, writing back in
\* the middle of a write and failing copies are included
THEOREM SizesAreSaved == ASSUME Tame PROVE Spec => []SizeWillBeSaved
<1>1. InodesKept => SizeWillBeSaved
  BY DEF InodesKept, InodeKept, SizeWillBeSaved
<1> QED
  BY <1>1, KeptInvariant, PTL

-----------------------------------------------------------------------------
\* In every workload a pointer, once set, is cleared before it is set again:
\* get_block fills null pointers only, update and remove clear, and create
\* finds them cleared or clears them
THEOREM PointersNeverMove == Spec => BlocksStay
<1> DEFINE Stays == \A s \in Slots, i \in Idx :
                      table[s].blocks[i] # 0 => table'[s].blocks[i] \in {0, table[s].blocks[i]}
<1>1. TypeOK /\ [Next]_vars => [Stays]_vars
  <2> SUFFICES ASSUME TypeOK, [Next]_vars PROVE Stays
    OBVIOUS
  <2>1. CASE UNCHANGED table
    BY <2>1
  <2>2. ASSUME NEW s \in Slots, NEW f, table' = [table EXCEPT ![s] = f], Fewer(table[s], f)
        PROVE  Stays
    BY <2>2 DEF Fewer, TypeOK
  <2>3. \A e : Fewer(e, EmptyEntry) /\ \A n \in Names : Fewer(e, NewEntry(n))
    BY DEF Fewer, EmptyEntry, NewEntry, NoBlocks
  <2>4. ASSUME NEW n \in Names, Create(n) \/ CreateUndone(n) \/ Unlink(n) PROVE Stays
    <3>1. \E s \in Slots, f \in {EmptyEntry, NewEntry(n)} : table' = [table EXCEPT ![s] = f]
      BY <2>4 DEF Create, CreateUndone, Unlink
    <3> QED
      BY <2>2, <2>3, <3>1
  <2>5. ASSUME NEW o \in Objs, NEW i \in Idx, WriteBegin(o, i) \/ WriteFails(o, i) PROVE Stays
    <3>1. IsInode(o) /\ inodes[o].slot \in Slots
      BY <2>5 DEF WriteBegin, WriteFails, CanWrite, TypeOK, IsInode, Inode
    <3>2. UNCHANGED table \/ \E b : GetBlock(o, i, b)
      BY <2>5 DEF WriteBegin, WriteFails
    <3>3. ASSUME NEW b, GetBlock(o, i, b) PROVE Stays
      BY <3>1, <3>3 DEF GetBlock, TypeOK, Entry
    <3> QED
      BY <2>1, <3>2, <3>3
  <2>6. \A e \in Entry : \A size : Fewer(e, Resized(e, size))
    BY DEF Fewer, Resized, Entry
  <2>7. ASSUME NEW o \in Objs, WriteInode(o) PROVE Stays
    <3>1. inodes[o].slot \in Slots /\ table[inodes[o].slot] \in Entry
      BY <2>7 DEF WriteInode, TypeOK, IsInode, Inode
    <3>2. \/ UNCHANGED table
          \/ table' = [table EXCEPT ![inodes[o].slot] = Resized(@, inodes[o].size)]
      BY <2>7 DEF WriteInode
    <3> QED
      BY <2>1, <2>2, <2>6, <3>1, <3>2
  <2>8. ASSUME Unmount PROVE Stays
    <3>1. \A s \in Slots : table[s] \in Entry /\ table'[s] \in Leftover(s)
      BY <2>8, UnmountIs DEF TypeOK
    <3> QED
      BY <2>6, <3>1 DEF Leftover, Fewer
  <2> QED
    BY <2>1, <2>4, <2>5, <2>7, <2>8 DEF Next, Directory, FileIO, Background, vars, Mount,
       Lookup, Open, ReclaimDentry, Close, WriteRefused, WriteEnd, ReadBlock, Truncate,
       DropPages, EvictInode
<1> QED
  BY <1>1, TypeCorrect, PTL DEF Spec, BlocksStay
=============================================================================
