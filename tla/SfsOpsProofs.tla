---------------------------- MODULE SfsOpsProofs ----------------------------
(***************************************************************************)
(* What the operators of SfsOps return, for every layout: entries, blocks  *)
(* and sizes.  The proofs about RealSfs and SfsRace rest on these.         *)
(***************************************************************************)
EXTENDS SfsOps, TLAPS

\* The cleared entry is an entry
LEMMA EmptyEntryType == EmptyEntry \in Entry
<1>1. 0 \in 0..MaxSize
  BY LayoutAssumption DEF MaxSize
<1>2. NoBlocks \in [Idx -> Pointers]
  BY DEF NoBlocks, Pointers
<1> QED
  BY <1>1, <1>2 DEF EmptyEntry, Entry

\* sfs_create stores an entry
LEMMA NewEntryType == \A n \in Names : NewEntry(n) \in Entry
<1>1. 0 \in 0..MaxSize
  BY LayoutAssumption DEF MaxSize
<1>2. NoBlocks \in [Idx -> Pointers]
  BY DEF NoBlocks, Pointers
<1> QED
  BY <1>1, <1>2, NamesAssumption DEF NewEntry, Entry

\* sfs_update keeps an entry an entry
LEMMA ResizedType ==
  ASSUME NEW e \in Entry, NEW size \in 0..MaxSize
  PROVE  Resized(e, size) \in Entry
<1> DEFINE blocks == [i \in Idx |-> IF i >= BlocksNeeded(size) THEN 0 ELSE e.blocks[i]]
<1>1. blocks \in [Idx -> Pointers]
  <2>1. \A i \in Idx : e.blocks[i] \in Pointers
    BY DEF Entry
  <2> QED
    BY <2>1 DEF Pointers
<1> HIDE DEF blocks
<1>2. [e EXCEPT !.size = size, !.blocks = blocks] \in Entry
  BY <1>1 DEF Entry
<1> QED
  BY <1>2 DEF Resized, blocks

-----------------------------------------------------------------------------
(* Arithmetic of sizes *)

\* Division rounds down
LEMMA DivBounds ==
  ASSUME NEW x \in Nat, NEW b \in Nat \ {0}
  PROVE  /\ x \div b \in Nat
         /\ (x \div b) * b <= x
         /\ x < (x \div b) * b + b
BY Z3

\* The pointers an entry of this size needs are those of blocks that start
\* below the size
LEMMA NeededIff ==
  ASSUME NEW size \in 0..MaxSize, NEW i \in Idx
  PROVE  i >= BlocksNeeded(size) <=> i * BlockSize >= size
<1> DEFINE q == BlocksNeeded(size)
<1>1. size \in Nat /\ BlockSize \in Nat \ {0} /\ i \in Nat /\ size + BlockSize - 1 \in Nat
  BY LayoutAssumption DEF MaxSize, Idx
<1>2. q \in Nat /\ q * BlockSize <= size + BlockSize - 1 /\ size + BlockSize - 1 < q * BlockSize + BlockSize
  BY <1>1, DivBounds DEF BlocksNeeded
<1> HIDE DEF q
<1>3. i >= q => i * BlockSize >= q * BlockSize
  BY <1>1, <1>2
<1>4. i < q => i * BlockSize + BlockSize <= q * BlockSize
  <2>1. i < q => (i + 1) * BlockSize <= q * BlockSize
    BY <1>1, <1>2
  <2>2. (i + 1) * BlockSize = i * BlockSize + BlockSize
    BY <1>1
  <2> QED
    BY <2>1, <2>2
<1>5. i * BlockSize \in Nat /\ q * BlockSize \in Nat
  BY <1>1, <1>2
<1> QED
  BY <1>1, <1>2, <1>3, <1>4, <1>5 DEF q

\* Blocks start in the order of their indices, one block apart
LEMMA StartsOrdered ==
  ASSUME NEW i \in Idx, NEW j \in Idx, i < j
  PROVE  i * BlockSize + BlockSize <= j * BlockSize
<1>1. i \in Nat /\ j \in Nat /\ BlockSize \in Nat \ {0}
  BY LayoutAssumption DEF Idx
<1>2. (i + 1) * BlockSize <= j * BlockSize
  BY <1>1
<1>3. (i + 1) * BlockSize = i * BlockSize + BlockSize
  BY <1>1
<1> QED
  BY <1>2, <1>3

\* generic_write_end stays within the pointers an entry has
LEMMA WriteEndSize ==
  ASSUME NEW i \in Idx, NEW r \in 0..BlockSize
  PROVE  i * BlockSize + r \in 0..MaxSize
<1>1. BlockCnt \in Nat /\ BlockSize \in Nat /\ i \in Nat /\ i + 1 <= BlockCnt /\ r \in Nat /\ r <= BlockSize
  BY LayoutAssumption DEF Idx
<1>2. i * BlockSize \in Nat /\ (i + 1) * BlockSize = i * BlockSize + BlockSize
  BY <1>1
<1>3. (i + 1) * BlockSize <= BlockCnt * BlockSize
  BY <1>1
<1>4. BlockCnt * BlockSize \in Nat
  BY <1>1
<1> QED
  BY <1>1, <1>2, <1>3, <1>4 DEF MaxSize

-----------------------------------------------------------------------------
(* Entries and the tracker *)

\* An entry's pointers come first, cover its size, and are none if it is free
EntrySound(e) ==
  /\ \A i, j \in Idx : i < j /\ e.blocks[j] # 0 => e.blocks[i] # 0
  /\ \A i \in Idx : i * BlockSize < e.size => e.blocks[i] # 0
  /\ ~Live(e) => \A i \in Idx : e.blocks[i] = 0

\* f is e with some pointers dropped
Fewer(e, f) == \A i \in Idx : f.blocks[i] \in {0, e.blocks[i]}

\* Where pointers come first the loops that stop at a null one meet them all
LEMMA ChainIsHeld ==
  ASSUME NEW e \in Entry, EntrySound(e)
  PROVE  Chain(e) = Held(e)
<1>1. \A i \in Idx : e.blocks[i] # 0 => \A k \in 0..i : k \in Idx /\ e.blocks[k] # 0
  BY LayoutAssumption DEF EntrySound, Idx
<1>2. \A i \in Idx : i \in 0..i
  BY LayoutAssumption DEF Idx
<1> QED
  BY <1>1, <1>2 DEF Chain, Held

\* A block is pointed to when an entry has a pointer to it
LEMMA PointedTo ==
  ASSUME NEW t
  PROVE  \A b : b \in UNION {Held(t[s]) : s \in Slots}
                  <=> \E s \in Slots, i \in Idx : b # 0 /\ b = t[s].blocks[i]
BY DEF Held

\* Where all entries are so, init_browsing marks the metadata and the blocks
\* that entries point to
LEMMA MarkedIsHeld ==
  ASSUME NEW t \in [Slots -> Entry], \A s \in Slots : EntrySound(t[s])
  PROVE  MarkedBlocks(t) = MetaBlocks \cup UNION {Held(t[s]) : s \in Slots}
<1>1. \A s \in Slots : Chain(t[s]) = Held(t[s])
  BY ChainIsHeld
<1>2. \A s \in Slots : s \notin LiveSlots(t) => Held(t[s]) = {}
  BY DEF EntrySound, LiveSlots, Held
<1>3. LiveSlots(t) \subseteq Slots
  BY DEF LiveSlots
<1> QED
  BY <1>1, <1>2, <1>3 DEF MarkedBlocks
=============================================================================
