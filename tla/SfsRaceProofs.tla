--------------------------- MODULE SfsRaceProofs ---------------------------
(***************************************************************************)
(* Theorems about SfsRace for any number of programs, entries and blocks,  *)
(* proved with TLAPS: who owns a block while handlers work with copies of  *)
(* entries, fail to write them, and lose them in a crash; and what a       *)
(* program that lists the directory sees.                                  *)
(***************************************************************************)
EXTENDS SfsRace, SfsOpsProofs, FiniteSetTheorems, WellFoundedInduction, TLAPS

-----------------------------------------------------------------------------
(* Types, and what handlers can be at *)

\* What t can be at: a program writes or removes, the flusher updates
ShapeOf(t, j) ==
  /\ j.op = "none" => j = Idle
  /\ j.op # "none" => j.slot \in Slots
  /\ j.op = "write"  => j.at \in {"store", "grow"} /\ t \in Tasks
  /\ j.op = "update" => j.at = "put" /\ t = Flusher
  /\ j.op = "unlink" => j.at = "put" /\ t \in Tasks

\* Nothing is under way where nothing is mounted, and entry writes fail in one
\* scene only
Shapes ==
  /\ \A t \in All : ShapeOf(t, job[t])
  /\ ~mounted => Quiet /\ dirty = {}
  /\ failed => scene = "io"

Typed == TypeOK /\ Shapes

\* A task in no handler
LEMMA IdleType == Idle \in Job /\ Idle.op = "none" /\ Idle.i = 0
<1>1. 0 \in 0..MaxSize /\ 0 \in 0..BlockCnt
  BY LayoutAssumption DEF MaxSize
<1> QED
  BY <1>1, EmptyEntryType DEF Idle, Job, Ops

\* j is the state of a handler that has just begun on entry s
Begun(j, op, at, s, size) ==
  j \in Job /\ j.op = op /\ j.at = at /\ j.slot = s /\ j.i = 0 /\ j.size = size

\* The copy is of the entry
LEMMA CopyType ==
  ASSUME Typed, NEW t \in All, job[t] = Idle, NEW s \in Slots
  PROVE  /\ Begun(Copy(t, s), "none", "none", s, 0) /\ Copy(t, s).fe = table[s]
         /\ table[s] \in Entry /\ s \in Slots
<1>1. table[s] \in Entry
  BY DEF Typed, TypeOK
<1>2. Idle.at = "none" /\ Idle.size = 0
  BY DEF Idle
<1> QED
  BY <1>1, <1>2, IdleType DEF Copy, Job, Begun

\* A step of t that begins, goes on with or ends its work on entry s, and leaves it at j
StepAt(t, s, j) ==
  /\ j \in Job /\ ShapeOf(t, j) /\ job' = [job EXCEPT ![t] = j]
  /\ job[t].op # "none" => job[t].slot = s
  /\ j.op # "none" => j.slot = s
  /\ table' \in [Slots -> Entry] /\ \A r \in Slots \ {s} : table'[r] = table[r]
  /\ overlap' \in BOOLEAN
  /\ ~overlap' => ~overlap /\ (job[t].op = "none" => ~Busy(s))

\* The entry write of fe to entry s
Wrote(s, fe) ==
  \/ table'[s] = fe /\ lost' = lost /\ failed' = failed
  \/ /\ table'[s] = table[s] /\ failed' = TRUE /\ scene = "io" /\ lost' \in BOOLEAN
     /\ ~lost' => ~lost /\ Held(table[s]) \subseteq Held(fe)

\* write_to_real_sfs changes one entry, or none
LEMMA EntryWritten ==
  ASSUME Typed, NEW s \in Slots, NEW fe \in Entry, StoreEntry(s, fe)
  PROVE  /\ Wrote(s, fe)
         /\ table' \in [Slots -> Entry] /\ \A r \in Slots \ {s} : table'[r] = table[r]
<1>1. table \in [Slots -> Entry] /\ lost \in BOOLEAN
  BY DEF Typed, TypeOK
<1>2. CASE table' = [table EXCEPT ![s] = fe] /\ UNCHANGED <<lost, failed>>
  BY <1>1, <1>2 DEF Wrote
<1>3. CASE /\ scene = "io" /\ failed' = TRUE /\ UNCHANGED table
           /\ lost' = (lost \/ ~(Held(table[s]) \subseteq Held(fe)))
  <2>1. lost' \in BOOLEAN /\ (~lost' => ~lost /\ Held(table[s]) \subseteq Held(fe))
    BY ONLY <1>1, <1>3, Zenon
  <2> QED
    BY <1>1, <1>3, <2>1 DEF Wrote
<1> QED
  BY <1>2, <1>3 DEF StoreEntry

\* t, which is in a handler, works on one entry
LEMMA AtWork ==
  ASSUME Typed, NEW t \in All, job[t].op # "none"
  PROVE  job[t].slot \in Slots /\ job[t] \in Job /\ job[t].fe \in Entry /\ ShapeOf(t, job[t])
<1>1. job[t] \in Job /\ ShapeOf(t, job[t])
  BY DEF Typed, TypeOK, Shapes
<1>2. job[t].fe \in Entry
  BY <1>1 DEF Job
<1> QED
  BY <1>1, <1>2 DEF ShapeOf

\* A handler begins
LEMMA Begins ==
  ASSUME Typed, NEW t \in All, job[t] = Idle, NEW s \in Slots, NEW j \in Job, j.slot = s,
         ShapeOf(t, j), job' = [job EXCEPT ![t] = j], table' = table,
         overlap' = (overlap \/ Busy(s))
  PROVE  StepAt(t, s, j)
<1>1. overlap' \in BOOLEAN /\ (~overlap' => ~overlap /\ ~Busy(s))
  <2>1. overlap \in BOOLEAN
    BY DEF Typed, TypeOK
  <2> QED
    BY ONLY <2>1, overlap' = (overlap \/ Busy(s)), Zenon
<1>2. table' \in [Slots -> Entry]
  BY DEF Typed, TypeOK
<1> QED
  BY <1>1, <1>2, IdleType DEF StepAt

\* sfs_write_begin finds the block of pointer i, or takes b
Finds(s, i, j) ==
  j.at = "grow" /\ j.fe = table[s] /\ table[s].blocks[i] # 0 /\ used' = used
Takes(s, i, j, b) ==
  /\ j.at = "store" /\ table[s].blocks[i] = 0 /\ used' = used \cup {b}
  /\ j.fe = [table[s] EXCEPT !.blocks[i] = b]

\* So a write begins with the block there, or taken
LEMMA WriteBegins ==
  ASSUME Typed, NEW t \in Tasks, NEW s \in Slots, NEW i \in Idx, NEW size \in 1..MaxSize,
         WriteBegin(t, s, i, size)
  PROVE  \E j : /\ StepAt(t, s, j) /\ job[t] = Idle /\ t \in All
                /\ j.op = "write" /\ j.size = size /\ j.i = 0
                /\ Finds(s, i, j) \/ \E b \in FreeBlocks(used) : Takes(s, i, j, b)
<1> DEFINE write == [Copy(t, s) EXCEPT !.op = "write", !.size = size]
<1>1. t \in All /\ job[t] = Idle /\ size \in 0..MaxSize
  <2>1. t \in All
    BY DEF All
  <2>2. MaxSize \in Nat
    BY LayoutAssumption DEF MaxSize
  <2>3. size \in 0..MaxSize
    BY <2>2
  <2> QED
    BY <2>1, <2>3 DEF WriteBegin
<1>2. Begun(write, "write", "none", s, size) /\ write.fe = table[s] /\ table[s] \in Entry
  <2>1. Begun(Copy(t, s), "none", "none", s, 0) /\ Copy(t, s).fe = table[s] /\ table[s] \in Entry
    BY <1>1, CopyType
  <2> HIDE DEF Copy
  <2> QED
    BY <1>1, <2>1 DEF Begun, Job, Ops
<1>3. table' = table /\ overlap' = (overlap \/ Busy(s))
  BY DEF WriteBegin
<1>4. CASE table[s].blocks[i] # 0
  <2>1. job' = [job EXCEPT ![t] = [write EXCEPT !.at = "grow"]] /\ used' = used
    BY <1>4 DEF WriteBegin
  <2> HIDE DEF write
  <2>2. PICK j : j = [write EXCEPT !.at = "grow"]
    OBVIOUS
  <2>3. Begun(j, "write", "grow", s, size) /\ j.fe = table[s]
    BY <1>2, <2>2 DEF Begun, Job
  <2>4. StepAt(t, s, j)
    <3>1. j \in Job /\ j.slot = s /\ ShapeOf(t, j)
      BY <2>3 DEF Begun, ShapeOf
    <3> QED
      BY <1>1, <1>3, <2>1, <2>2, <3>1, Begins
  <2> QED
    BY <1>1, <1>4, <2>1, <2>3, <2>4 DEF Begun, Finds
<1>5. CASE table[s].blocks[i] = 0
  <2>1. PICK b \in FreeBlocks(used) :
          /\ used' = used \cup {b}
          /\ job' = [job EXCEPT ![t] = [write EXCEPT !.at = "store", !.fe.blocks[i] = b]]
    BY <1>5 DEF WriteBegin, Marked
  <2> HIDE DEF write
  <2>2. b \in Pointers
    BY DEF FreeBlocks, Pointers
  <2>3. [table[s] EXCEPT !.blocks[i] = b] \in Entry
    BY <1>2, <2>2 DEF Entry
  <2>4. PICK j : j = [write EXCEPT !.at = "store", !.fe.blocks[i] = b]
    OBVIOUS
  <2>5. Begun(j, "write", "store", s, size) /\ j.fe = [table[s] EXCEPT !.blocks[i] = b]
    BY <1>2, <2>3, <2>4 DEF Begun, Job
  <2>6. StepAt(t, s, j)
    <3>1. j \in Job /\ j.slot = s /\ ShapeOf(t, j)
      BY <2>5 DEF Begun, ShapeOf
    <3> QED
      BY <1>1, <1>3, <2>1, <2>4, <3>1, Begins
  <2>7. Takes(s, i, j, b)
    BY <1>5, <2>1, <2>5 DEF Begun, Takes
  <2> QED
    BY <1>1, <2>5, <2>6, <2>7 DEF Begun
<1> QED
  BY <1>4, <1>5

\* sfs_update reads the entry and sets the size in its copy
LEMMA UpdateBegins ==
  ASSUME Typed, NEW s \in Slots, UpdateBegin(s)
  PROVE  \E j : /\ StepAt(Flusher, s, j) /\ Flusher \in All /\ job[Flusher] = Idle
                /\ j.op = "update" /\ j.size = isize[s] /\ j.i = 0
                /\ isize[s] \in 0..MaxSize
                /\ j.fe = [table[s] EXCEPT !.size = isize[s]]
<1>1. Flusher \in All /\ job[Flusher] = Idle /\ isize[s] \in 0..MaxSize
  BY DEF UpdateBegin, All, Typed, TypeOK
<1>2. Begun(Copy(Flusher, s), "none", "none", s, 0) /\ Copy(Flusher, s).fe = table[s] /\ table[s] \in Entry
  BY <1>1, CopyType
<1>3. PICK j : j = [Copy(Flusher, s) EXCEPT !.op = "update", !.at = "put",
                                          !.size = isize[s], !.fe.size = isize[s]]
  OBVIOUS
<1>4. job' = [job EXCEPT ![Flusher] = j] /\ table' = table /\ overlap' = (overlap \/ Busy(s))
  BY <1>3 DEF UpdateBegin
<1>5. [table[s] EXCEPT !.size = isize[s]] \in Entry
  BY <1>1, <1>2 DEF Entry
<1> HIDE DEF Copy
<1>6. Begun(j, "update", "put", s, isize[s]) /\ j.fe = [table[s] EXCEPT !.size = isize[s]]
  BY <1>1, <1>2, <1>3, <1>5 DEF Begun, Job, Ops
<1>7. StepAt(Flusher, s, j)
  <2>1. j \in Job /\ j.slot = s /\ ShapeOf(Flusher, j)
    BY <1>6 DEF Begun, ShapeOf
  <2> QED
    BY <1>1, <1>4, <2>1, Begins
<1> QED
  BY <1>1, <1>6, <1>7 DEF Begun

\* sfs_remove reads the entry
LEMMA UnlinkBegins ==
  ASSUME Typed, NEW t \in Tasks, NEW fn \in Names, UnlinkBegin(t, fn)
  PROVE  \E s \in Slots, j \in Job :
           /\ StepAt(t, s, j) /\ t \in All /\ job[t] = Idle /\ j.op = "unlink" /\ j.i = 0
           /\ j.fe = table[s]
<1>1. t \in All /\ job[t] = Idle
  BY DEF UnlinkBegin, All
<1>2. PICK s \in Slots :
        /\ overlap' = (overlap \/ Busy(s))
        /\ job' = [job EXCEPT ![t] = [Copy(t, s) EXCEPT !.op = "unlink", !.at = "put"]]
  BY DEF UnlinkBegin
<1>3. Begun(Copy(t, s), "none", "none", s, 0) /\ Copy(t, s).fe = table[s] /\ table[s] \in Entry
  BY <1>1, CopyType
<1>4. PICK j : j = [Copy(t, s) EXCEPT !.op = "unlink", !.at = "put"]
  OBVIOUS
<1> HIDE DEF Copy
<1>5. Begun(j, "unlink", "put", s, 0) /\ j.fe = table[s]
  BY <1>3, <1>4 DEF Begun, Job, Ops
<1>6. StepAt(t, s, j)
  <2>1. j \in Job /\ j.slot = s /\ ShapeOf(t, j) /\ table' = table
    BY <1>5 DEF Begun, ShapeOf, UnlinkBegin
  <2> QED
    BY <1>1, <1>2, <1>4, <2>1, Begins
<1> QED
  BY <1>1, <1>5, <1>6 DEF Begun

\* A handler goes on or ends
LEMMA GoesOn ==
  ASSUME Typed, NEW t \in All, job[t].op # "none", NEW j \in Job, ShapeOf(t, j),
         j.op # "none" => j.slot = job[t].slot, job' = [job EXCEPT ![t] = j],
         table' \in [Slots -> Entry], overlap' = overlap,
         NEW s, s = job[t].slot, \A r \in Slots \ {s} : table'[r] = table[r]
  PROVE  StepAt(t, s, j)
<1>1. overlap' \in BOOLEAN /\ (~overlap' => ~overlap)
  BY DEF Typed, TypeOK
<1> QED
  BY <1>1 DEF StepAt

\* The entry with its new pointer is written
LEMMA WriteStores ==
  ASSUME Typed, NEW t \in Tasks, WriteStore(t)
  PROVE  \E s \in Slots, j \in Job :
           /\ StepAt(t, s, j) /\ t \in All /\ job[t].op = "write" /\ job[t].at = "store"
           /\ Wrote(s, job[t].fe) /\ job[t].fe \in Entry /\ job[t].slot = s
           /\ j.op = "write" /\ j.at = "grow" /\ j.fe = job[t].fe /\ j.size = job[t].size
<1>1. t \in All /\ job[t].op = "write" /\ job[t].at = "store"
  BY DEF WriteStore, At, All
<1>2. job[t].slot \in Slots /\ job[t] \in Job /\ job[t].fe \in Entry /\ ShapeOf(t, job[t])
  BY <1>1, AtWork
<1>3. PICK s \in Slots : s = job[t].slot
  BY <1>2
<1>4. /\ Wrote(s, job[t].fe)
      /\ table' \in [Slots -> Entry] /\ \A r \in Slots \ {s} : table'[r] = table[r]
  BY <1>2, <1>3, EntryWritten DEF WriteStore
<1>5. PICK j : j = [job[t] EXCEPT !.at = "grow"]
  OBVIOUS
<1>6. /\ j \in Job /\ j.op = "write" /\ j.at = "grow" /\ j.fe = job[t].fe
      /\ j.size = job[t].size /\ j.slot = s
  BY <1>1, <1>2, <1>3, <1>5 DEF Job
<1>7. ShapeOf(t, j)
  BY <1>6 DEF ShapeOf
<1>8. job' = [job EXCEPT ![t] = j] /\ overlap' = overlap
  BY <1>5 DEF WriteStore
<1>9. StepAt(t, s, j)
  BY <1>1, <1>3, <1>4, <1>6, <1>7, <1>8, GoesOn
<1> QED
  BY <1>1, <1>2, <1>3, <1>4, <1>6, <1>9

\* Anyone may be in no handler
LEMMA IdleShape == \A t \in All : ShapeOf(t, Idle)
BY IdleType DEF ShapeOf

\* generic_write_end moves the size
LEMMA WriteGrows ==
  ASSUME Typed, NEW t \in Tasks, WriteGrow(t)
  PROVE  \E s \in Slots :
           /\ StepAt(t, s, Idle) /\ t \in All /\ job[t].op = "write" /\ job[t].at = "grow"
           /\ table' = table /\ used' = used /\ job[t].slot = s /\ job[t].size \in 0..MaxSize
           /\ isize' = [isize EXCEPT ![s] = IF job[t].size > @ THEN job[t].size ELSE @]
           /\ dirty' = dirty \cup {s}
<1>1. t \in All /\ job[t].op = "write" /\ job[t].at = "grow"
  BY DEF WriteGrow, At, All
<1>2. job[t].slot \in Slots /\ job[t] \in Job
  BY <1>1, AtWork
<1>3. PICK s \in Slots : s = job[t].slot
  BY <1>2
<1>4. /\ table' = table /\ used' = used /\ overlap' = overlap /\ job' = [job EXCEPT ![t] = Idle]
      /\ isize' = [isize EXCEPT ![s] = IF job[t].size > @ THEN job[t].size ELSE @]
      /\ dirty' = dirty \cup {s}
  BY <1>3 DEF WriteGrow, Done
<1>5. StepAt(t, s, Idle)
  <2>1. table' \in [Slots -> Entry] /\ \A r \in Slots \ {s} : table'[r] = table[r]
    BY <1>4 DEF Typed, TypeOK
  <2> QED
    BY <1>1, <1>3, <1>4, <2>1, IdleType, IdleShape, GoesOn
<1>6. job[t].size \in 0..MaxSize
  BY <1>2 DEF Job
<1> QED
  BY <1>1, <1>3, <1>4, <1>5, <1>6

\* sfs_update gives back a block past the size
LEMMA UpdatePuts ==
  ASSUME Typed, UpdatePut
  PROVE  \E s \in Slots, i \in Idx, j \in Job :
           /\ StepAt(Flusher, s, j) /\ Flusher \in All /\ job[Flusher].op = "update"
           /\ job[Flusher].at = "put" /\ job[Flusher].slot = s
           /\ table' = table /\ used' = used \ {job[Flusher].fe.blocks[i]}
           /\ job[Flusher].fe.blocks[i] # 0
           /\ i >= BlocksNeeded(job[Flusher].size) /\ job[Flusher].size \in 0..MaxSize
           /\ j.op = "update" /\ j.fe = [job[Flusher].fe EXCEPT !.blocks[i] = 0]
           /\ j.size = job[Flusher].size /\ job[Flusher].fe \in Entry
<1>1. Flusher \in All /\ job[Flusher].op = "update" /\ job[Flusher].at = "put"
  BY DEF UpdatePut, At, All
<1>2. job[Flusher].slot \in Slots /\ job[Flusher] \in Job /\ job[Flusher].fe \in Entry
  BY <1>1, AtWork
<1>3. PICK s \in Slots : s = job[Flusher].slot
  BY <1>2
<1>4. PICK i \in Idx :
        /\ i \in PastSize /\ used' = used \ {job[Flusher].fe.blocks[i]}
        /\ job' = [job EXCEPT ![Flusher].fe.blocks[i] = 0]
  BY DEF UpdatePut, IsFirst
<1>5. PICK j : j = [job[Flusher] EXCEPT !.fe.blocks[i] = 0]
  OBVIOUS
<1>6. [job[Flusher].fe EXCEPT !.blocks[i] = 0] \in Entry
  BY <1>2 DEF Entry, Pointers
<1>7. /\ j \in Job /\ j.op = "update" /\ j.at = "put" /\ j.slot = s
      /\ j.fe = [job[Flusher].fe EXCEPT !.blocks[i] = 0] /\ j.size = job[Flusher].size
  BY <1>1, <1>2, <1>3, <1>5, <1>6 DEF Job
<1>8. ShapeOf(Flusher, j)
  BY <1>7 DEF ShapeOf
<1>9. job' = [job EXCEPT ![Flusher] = j] /\ table' = table /\ overlap' = overlap
  BY <1>4, <1>5 DEF UpdatePut
<1>10. StepAt(Flusher, s, j)
  <2>1. table' \in [Slots -> Entry] /\ \A r \in Slots \ {s} : table'[r] = table[r]
    BY <1>9 DEF Typed, TypeOK
  <2> QED
    BY <1>1, <1>3, <1>7, <1>8, <1>9, <2>1, GoesOn
<1>11. job[Flusher].size \in 0..MaxSize
  BY <1>2 DEF Job
<1>12. job[Flusher].fe.blocks[i] # 0 /\ i >= BlocksNeeded(job[Flusher].size)
  BY <1>4 DEF PastSize
<1>13. j \in Job
  BY <1>7
<1> USE <1>13
<1> WITNESS s \in Slots, i \in Idx, j \in Job
<1> QED
  BY <1>1, <1>2, <1>3, <1>4, <1>7, <1>9, <1>10, <1>11, <1>12

\* sfs_update writes the entry
LEMMA UpdateStores ==
  ASSUME Typed, UpdateStore
  PROVE  \E s \in Slots :
           /\ StepAt(Flusher, s, Idle) /\ Flusher \in All /\ job[Flusher].op = "update"
           /\ job[Flusher].at = "put" /\ job[Flusher].slot = s
           /\ Wrote(s, job[Flusher].fe) /\ job[Flusher].fe \in Entry
           /\ \A i \in Idx : i >= BlocksNeeded(job[Flusher].size) => job[Flusher].fe.blocks[i] = 0
<1>1. Flusher \in All /\ job[Flusher].op = "update" /\ job[Flusher].at = "put"
  BY DEF UpdateStore, At, All
<1>2. job[Flusher].slot \in Slots /\ job[Flusher] \in Job /\ job[Flusher].fe \in Entry
  BY <1>1, AtWork
<1>3. PICK s \in Slots : s = job[Flusher].slot
  BY <1>2
<1>4. /\ Wrote(s, job[Flusher].fe)
      /\ table' \in [Slots -> Entry] /\ \A r \in Slots \ {s} : table'[r] = table[r]
  BY <1>2, <1>3, EntryWritten DEF UpdateStore
<1>5. StepAt(Flusher, s, Idle)
  <2>1. job' = [job EXCEPT ![Flusher] = Idle] /\ overlap' = overlap
    BY DEF UpdateStore, Done
  <2> QED
    BY <1>1, <1>3, <1>4, <2>1, IdleType, IdleShape, GoesOn
<1>6. \A i \in Idx : i >= BlocksNeeded(job[Flusher].size) => job[Flusher].fe.blocks[i] = 0
  BY DEF UpdateStore, PastSize
<1> QED
  BY <1>1, <1>2, <1>3, <1>4, <1>5, <1>6

\* sfs_remove gives back a block
LEMMA UnlinkPuts ==
  ASSUME Typed, NEW t \in Tasks, UnlinkPut(t)
  PROVE  \E s \in Slots, i \in Idx, j \in Job :
           /\ StepAt(t, s, j) /\ t \in All /\ job[t].op = "unlink"
           /\ job[t].at = "put" /\ job[t].slot = s
           /\ table' = table /\ used' = used \ {job[t].fe.blocks[i]}
           /\ job[t].i = i /\ job[t].fe.blocks[i] # 0
           /\ j.op = "unlink" /\ j.fe = job[t].fe /\ j.i = i + 1 /\ job[t].fe \in Entry
<1>1. t \in All /\ job[t].op = "unlink" /\ job[t].at = "put"
  BY DEF UnlinkPut, At, All
<1>2. job[t].slot \in Slots /\ job[t] \in Job /\ job[t].fe \in Entry
  BY <1>1, AtWork
<1>3. PICK s \in Slots : s = job[t].slot
  BY <1>2
<1>4. job[t].i \in 0..BlockCnt /\ job[t].i < BlockCnt
  BY <1>2 DEF UnlinkPut, Left, Job
<1>5. PICK i \in Idx : i = job[t].i
  BY <1>4, LayoutAssumption DEF Idx
<1>6. PICK j : j = [job[t] EXCEPT !.i = i + 1]
  OBVIOUS
<1>7. /\ j \in Job /\ j.op = "unlink" /\ j.at = "put" /\ j.slot = s
      /\ j.fe = job[t].fe /\ j.i = i + 1
  <2>1. i + 1 \in 0..BlockCnt
    BY <1>4, <1>5, LayoutAssumption
  <2> QED
    BY <1>1, <1>2, <1>3, <1>6, <2>1 DEF Job
<1>8. ShapeOf(t, j)
  BY <1>7 DEF ShapeOf
<1>9. /\ job' = [job EXCEPT ![t] = j] /\ table' = table /\ overlap' = overlap
      /\ used' = used \ {job[t].fe.blocks[i]} /\ job[t].fe.blocks[i] # 0
  BY <1>5, <1>6 DEF UnlinkPut, Left
<1>10. StepAt(t, s, j)
  <2>1. table' \in [Slots -> Entry] /\ \A r \in Slots \ {s} : table'[r] = table[r]
    BY <1>9 DEF Typed, TypeOK
  <2> QED
    BY <1>1, <1>3, <1>7, <1>8, <1>9, <2>1, GoesOn
<1>11. j \in Job
  BY <1>7
<1> USE <1>11
<1> WITNESS s \in Slots, i \in Idx, j \in Job
<1> QED
  BY <1>1, <1>2, <1>3, <1>5, <1>7, <1>9, <1>10

\* sfs_remove clears the entry
LEMMA UnlinkStores ==
  ASSUME Typed, NEW t \in Tasks, UnlinkStore(t)
  PROVE  \E s \in Slots :
           /\ StepAt(t, s, Idle) /\ t \in All /\ job[t].op = "unlink"
           /\ job[t].at = "put" /\ job[t].slot = s
           /\ Wrote(s, EmptyEntry) /\ job[t].fe \in Entry /\ ~Left(t)
           /\ isize' = [isize EXCEPT ![s] = None] /\ dirty' = dirty \ {s}
           /\ dir' = [dir EXCEPT !.stayed = @ \ {job[t].fe.name}]
           /\ job[t].i \in 0..BlockCnt
<1>1. t \in All /\ job[t].op = "unlink" /\ job[t].at = "put"
  BY DEF UnlinkStore, At, All
<1>2. job[t].slot \in Slots /\ job[t] \in Job /\ job[t].fe \in Entry
  BY <1>1, AtWork
<1>3. PICK s \in Slots : s = job[t].slot
  BY <1>2
<1>4. /\ Wrote(s, EmptyEntry)
      /\ table' \in [Slots -> Entry] /\ \A r \in Slots \ {s} : table'[r] = table[r]
  BY <1>3, EntryWritten, EmptyEntryType DEF UnlinkStore
<1>5. StepAt(t, s, Idle)
  <2>1. job' = [job EXCEPT ![t] = Idle] /\ overlap' = overlap
    BY DEF UnlinkStore, Done
  <2> QED
    BY <1>1, <1>3, <1>4, <2>1, IdleType, IdleShape, GoesOn
<1>6. /\ isize' = [isize EXCEPT ![s] = None] /\ dirty' = dirty \ {s} /\ ~Left(t)
      /\ dir' = [dir EXCEPT !.stayed = @ \ {job[t].fe.name}]
  BY <1>3 DEF UnlinkStore
<1>7. job[t].i \in 0..BlockCnt
  BY <1>2 DEF Job
<1> QED
  BY <1>1, <1>2, <1>3, <1>4, <1>5, <1>6, <1>7

\* sfs_create writes a new entry
LEMMA Creates ==
  ASSUME Typed, NEW t \in Tasks, NEW fn \in Names, Create(t, fn)
  PROVE  \E s \in Slots :
           /\ StepAt(t, s, Idle) /\ t \in All /\ job[t] = Idle /\ ~Live(table[s])
           /\ Wrote(s, NewEntry(fn)) /\ NewEntry(fn) \in Entry
           /\ isize' = [isize EXCEPT ![s] = 0]
<1>1. t \in All /\ job[t] = Idle
  BY DEF Create, All
<1>2. PICK s \in Slots :
        /\ ~Live(table[s]) /\ overlap' = (overlap \/ Busy(s)) /\ StoreEntry(s, NewEntry(fn))
        /\ isize' = [isize EXCEPT ![s] = 0]
  BY DEF Create, IsFirst, FreeSlots
<1>3. NewEntry(fn) \in Entry
  BY NewEntryType
<1>4. /\ Wrote(s, NewEntry(fn))
      /\ table' \in [Slots -> Entry] /\ \A r \in Slots \ {s} : table'[r] = table[r]
  BY <1>2, <1>3, EntryWritten
<1>5. overlap' \in BOOLEAN /\ (~overlap' => ~overlap /\ ~Busy(s))
  <2>1. overlap \in BOOLEAN
    BY DEF Typed, TypeOK
  <2> QED
    BY ONLY <2>1, <1>2, Zenon
<1>6. job' = [job EXCEPT ![t] = Idle]
  BY <1>1 DEF Create, Typed, TypeOK
<1>7. StepAt(t, s, Idle)
  BY <1>1, <1>4, <1>5, <1>6, IdleType, IdleShape DEF StepAt
<1> QED
  BY <1>1, <1>2, <1>3, <1>4, <1>7

-----------------------------------------------------------------------------
(* Types are kept *)

\* The formatted partition, not mounted
LEMMA InitTyped == Init => Typed
<1> SUFFICES ASSUME Init PROVE Typed
  OBVIOUS
<1>1. Idle \in Job /\ EmptyEntry \in Entry /\ \A t \in All : ShapeOf(t, Idle)
  BY IdleType, IdleShape, EmptyEntryType
<1>2. NoDir \in Listing
  BY LayoutAssumption DEF NoDir, Listing
<1>3. table \in [Slots -> Entry] /\ disk \in [Slots -> Entry] /\ job \in [All -> Job]
  BY <1>1 DEF Init
<1>4. TypeOK
  BY <1>2, <1>3 DEF Init, TypeOK
<1>5. Shapes
  BY <1>1 DEF Init, Shapes, Quiet
<1> QED
  BY <1>4, <1>5 DEF Typed

\* A step of a handler keeps everyone's state of work a sensible one
LEMMA StepTyped ==
  ASSUME Typed, NEW t \in All, NEW s, NEW j, StepAt(t, s, j),
         scene' = scene, mounted' = mounted, mounted, disk' = disk, used' \subseteq Blocks,
         isize' \in [Slots -> {None} \cup 0..MaxSize],
         dirty' \subseteq {r \in Slots : isize'[r] # None},
         dir' \in Listing, lost' \in BOOLEAN, failed' \in BOOLEAN, failed' => scene = "io"
  PROVE  Typed'
<1>1. job' \in [All -> Job] /\ \A u \in All : ShapeOf(u, job'[u])
  <2>1. job \in [All -> Job] /\ \A u \in All : ShapeOf(u, job[u])
    BY DEF Typed, TypeOK, Shapes
  <2> QED
    BY <2>1 DEF StepAt
<1>2. TypeOK'
  BY <1>1 DEF Typed, TypeOK, StepAt
<1>3. Shapes'
  BY <1>1 DEF Typed, Shapes, Quiet
<1> QED
  BY <1>2, <1>3 DEF Typed

\* A failed entry write is remembered
LEMMA WroteType ==
  ASSUME Typed, NEW s, NEW fe, Wrote(s, fe)
  PROVE  lost' \in BOOLEAN /\ failed' \in BOOLEAN /\ (failed' => scene = "io")
<1>1. lost \in BOOLEAN /\ failed \in BOOLEAN /\ (failed => scene = "io")
  BY DEF Typed, TypeOK, Shapes
<1>2. CASE lost' = lost /\ failed' = failed
  BY <1>1, <1>2
<1>3. CASE failed' = TRUE /\ scene = "io" /\ lost' \in BOOLEAN
  BY ONLY <1>3, Zenon
<1> QED
  BY <1>2, <1>3 DEF Wrote

\* Handlers run on a mounted file system
LEMMA WorkMounted ==
  ASSUME Typed, NEW t \in All, job[t].op # "none"
  PROVE  mounted
BY IdleType DEF Typed, Shapes, Quiet

\* Writing to a file
LEMMA WritesTyped ==
  ASSUME Typed, NEW t \in Tasks,
         \/ \E s \in Slots, i \in Idx, size \in 1..MaxSize : WriteBegin(t, s, i, size)
         \/ WriteStore(t) \/ WriteGrow(t)
  PROVE  Typed'
<1>0. TypeOK /\ Shapes /\ t \in All
  BY DEF Typed, All
<1>1. ASSUME NEW s \in Slots, NEW i \in Idx, NEW size \in 1..MaxSize, WriteBegin(t, s, i, size)
      PROVE  Typed'
  <2>1. PICK j : StepAt(t, s, j) /\ (Finds(s, i, j) \/ \E b \in FreeBlocks(used) : Takes(s, i, j, b))
    BY <1>1, WriteBegins
  <2>2. used' \subseteq Blocks
    <3>1. \A b \in FreeBlocks(used) : b \in Blocks
      BY LayoutAssumption DEF FreeBlocks, DataBlocks, Blocks
    <3>2. used \subseteq Blocks
      BY <1>0 DEF TypeOK
    <3> QED
      BY <2>1, <3>1, <3>2 DEF Finds, Takes
  <2>3. /\ mounted /\ UNCHANGED <<scene, mounted, disk, isize, dirty, dir, lost, failed>>
    BY <1>1 DEF WriteBegin
  <2> QED
    BY <1>0, <2>1, <2>2, <2>3, StepTyped DEF TypeOK, Shapes
<1>2. CASE WriteStore(t)
  <2>1. PICK s, j : StepAt(t, s, j) /\ Wrote(s, job[t].fe) /\ job[t].op = "write"
    BY <1>2, WriteStores
  <2>2. UNCHANGED <<scene, mounted, used, disk, isize, dirty, dir>>
    BY <1>2 DEF WriteStore
  <2>3. mounted
    BY <1>0, <2>1, WorkMounted
  <2>4. lost' \in BOOLEAN /\ failed' \in BOOLEAN /\ (failed' => scene = "io")
    BY <2>1, WroteType
  <2> QED
    BY <1>0, <2>1, <2>2, <2>3, <2>4, StepTyped DEF TypeOK
<1>3. CASE WriteGrow(t)
  <2>1. PICK s \in Slots :
          /\ StepAt(t, s, Idle) /\ job[t].op = "write" /\ job[t].size \in 0..MaxSize
          /\ isize' = [isize EXCEPT ![s] = IF job[t].size > @ THEN job[t].size ELSE @]
          /\ dirty' = dirty \cup {s}
    BY <1>3, WriteGrows
  <2>2. UNCHANGED <<scene, mounted, used, disk, lost, failed, dir>>
    BY <1>3 DEF WriteGrow
  <2>3. mounted
    BY <1>0, <2>1, WorkMounted
  <2>4. isize' \in [Slots -> {None} \cup 0..MaxSize]
    BY <1>0, <2>1 DEF TypeOK
  <2>5. dirty' \subseteq {r \in Slots : isize'[r] # None}
    <3>1. isize'[s] # None
      <4>1. isize[s] \in {None} \cup 0..MaxSize /\ MaxSize \in Nat
        BY <1>0, LayoutAssumption DEF TypeOK, MaxSize
      <4> QED
        BY <1>0, <2>1, <4>1 DEF None, TypeOK
    <3> QED
      BY <1>0, <2>1, <3>1 DEF TypeOK
  <2> QED
    BY <1>0, <2>1, <2>2, <2>3, <2>4, <2>5, StepTyped DEF TypeOK, Shapes
<1> QED
  BY <1>1, <1>2, <1>3

\* The flusher
LEMMA UpdatesTyped ==
  ASSUME Typed, (\E s \in Slots : UpdateBegin(s)) \/ UpdatePut \/ UpdateStore
  PROVE  Typed'
<1>0. TypeOK /\ Shapes /\ Flusher \in All
  BY DEF Typed, All
<1>1. ASSUME NEW s \in Slots, UpdateBegin(s) PROVE Typed'
  <2>1. PICK j : StepAt(Flusher, s, j)
    BY <1>1, UpdateBegins
  <2>2. mounted /\ UNCHANGED <<scene, mounted, used, disk, isize, lost, failed, dir>> /\ dirty' = dirty \ {s}
    BY <1>1 DEF UpdateBegin
  <2> QED
    BY <1>0, <2>1, <2>2, StepTyped DEF TypeOK, Shapes
<1>2. CASE UpdatePut
  <2>1. PICK s \in Slots, i \in Idx, j \in Job :
          /\ StepAt(Flusher, s, j) /\ job[Flusher].op = "update"
          /\ used' = used \ {job[Flusher].fe.blocks[i]}
    BY <1>2, UpdatePuts
  <2>2. UNCHANGED <<scene, mounted, disk, isize, dirty, lost, failed, dir>>
    BY <1>2 DEF UpdatePut
  <2>3. mounted
    BY <1>0, <2>1, WorkMounted
  <2> QED
    BY <1>0, <2>1, <2>2, <2>3, StepTyped DEF TypeOK, Shapes
<1>3. CASE UpdateStore
  <2>1. PICK s : StepAt(Flusher, s, Idle) /\ Wrote(s, job[Flusher].fe) /\ job[Flusher].op = "update"
    BY <1>3, UpdateStores
  <2>2. UNCHANGED <<scene, mounted, used, disk, isize, dirty, dir>>
    BY <1>3 DEF UpdateStore
  <2>3. mounted
    BY <1>0, <2>1, WorkMounted
  <2>4. lost' \in BOOLEAN /\ failed' \in BOOLEAN /\ (failed' => scene = "io")
    BY <2>1, WroteType
  <2> QED
    BY <1>0, <2>1, <2>2, <2>3, <2>4, StepTyped DEF TypeOK
<1> QED
  BY <1>1, <1>2, <1>3

\* Removing a file
LEMMA UnlinksTyped ==
  ASSUME Typed, NEW t \in Tasks,
         (\E fn \in Names : UnlinkBegin(t, fn)) \/ UnlinkPut(t) \/ UnlinkStore(t)
  PROVE  Typed'
<1>0. TypeOK /\ Shapes /\ t \in All
  BY DEF Typed, All
<1>1. ASSUME NEW fn \in Names, UnlinkBegin(t, fn) PROVE Typed'
  <2>1. PICK s, j : StepAt(t, s, j)
    BY <1>1, UnlinkBegins
  <2>2. mounted /\ UNCHANGED <<scene, mounted, used, disk, isize, dirty, lost, failed, dir>>
    BY <1>1 DEF UnlinkBegin
  <2> QED
    BY <1>0, <2>1, <2>2, StepTyped DEF TypeOK, Shapes
<1>2. CASE UnlinkPut(t)
  <2>1. PICK s \in Slots, i \in Idx, j \in Job :
          /\ StepAt(t, s, j) /\ job[t].op = "unlink" /\ used' = used \ {job[t].fe.blocks[i]}
    BY <1>2, UnlinkPuts
  <2>2. UNCHANGED <<scene, mounted, disk, isize, dirty, lost, failed, dir>>
    BY <1>2 DEF UnlinkPut
  <2>3. mounted
    BY <1>0, <2>1, WorkMounted
  <2> QED
    BY <1>0, <2>1, <2>2, <2>3, StepTyped DEF TypeOK, Shapes
<1>3. CASE UnlinkStore(t)
  <2>1. PICK s \in Slots :
          /\ StepAt(t, s, Idle) /\ Wrote(s, EmptyEntry) /\ job[t].op = "unlink"
          /\ isize' = [isize EXCEPT ![s] = None] /\ dirty' = dirty \ {s}
          /\ dir' = [dir EXCEPT !.stayed = @ \ {job[t].fe.name}]
    BY <1>3, UnlinkStores
  <2>2. UNCHANGED <<scene, mounted, used, disk>>
    BY <1>3 DEF UnlinkStore
  <2>3. mounted
    BY <1>0, <2>1, WorkMounted
  <2>4. lost' \in BOOLEAN /\ failed' \in BOOLEAN /\ (failed' => scene = "io")
    BY <2>1, WroteType
  <2>5. dir' \in Listing
    BY <1>0, <2>1 DEF TypeOK, Listing
  <2>6. /\ isize' \in [Slots -> {None} \cup 0..MaxSize]
        /\ dirty' \subseteq {r \in Slots : isize'[r] # None}
    BY <1>0, <2>1 DEF TypeOK
  <2>7. used' \subseteq Blocks
    BY <1>0, <2>2 DEF TypeOK
  <2> QED
    BY <1>0, <2>1, <2>2, <2>3, <2>4, <2>5, <2>6, <2>7, StepTyped
<1> QED
  BY <1>1, <1>2, <1>3

\* Creating a file
LEMMA CreateTyped ==
  ASSUME Typed, NEW t \in Tasks, NEW fn \in Names, Create(t, fn)
  PROVE  Typed'
<1>0. TypeOK /\ Shapes /\ t \in All
  BY DEF Typed, All
<1>1. PICK s \in Slots : /\ StepAt(t, s, Idle) /\ Wrote(s, NewEntry(fn))
                         /\ isize' = [isize EXCEPT ![s] = 0]
  BY Creates
<1>2. mounted /\ UNCHANGED <<scene, mounted, used, disk, dirty, dir>>
  BY DEF Create
<1>3. lost' \in BOOLEAN /\ failed' \in BOOLEAN /\ (failed' => scene = "io")
  BY <1>1, WroteType
<1>4. /\ isize' \in [Slots -> {None} \cup 0..MaxSize]
      /\ dirty' \subseteq {r \in Slots : isize'[r] # None}
  <2>1. 0 \in 0..MaxSize
    BY LayoutAssumption DEF MaxSize
  <2> QED
    BY <1>0, <1>1, <1>2, <2>1 DEF TypeOK, None
<1> QED
  BY <1>0, <1>1, <1>2, <1>3, <1>4, StepTyped DEF TypeOK

\* What sfs_readdir returns: the names of slots, at position pos
Reads(room, pos, slots, listed) ==
  /\ pos \in dir.pos..(dir.pos + room) /\ (pos > 2 => pos = dir.pos) /\ (pos = dir.pos => pos >= 2)
  /\ pos \in 0..(2 + EntryCount)
  /\ slots \subseteq LiveSlots(table) /\ listed = {table[s].name : s \in slots}
  /\ pos = 2 => slots = {s \in LiveSlots(table) : Cardinality(Before(s)) < room - (pos - dir.pos)}
  /\ pos # 2 => slots = {}
  /\ dir' \in Listing /\ dir'.open = dir.open /\ dir'.stayed = dir.stayed
  /\ dir'.pos = pos + Cardinality(listed) /\ Cardinality(listed) \in Nat
  /\ listed # {} => Cardinality(listed) > 0
  /\ dir'.got = dir.got \cup listed
  /\ dir'.twice <=> dir.twice \/ listed \cap dir.got # {}
  /\ dir'.cut <=> dir.cut \/ (slots # {} /\ slots # LiveSlots(table))
  /\ dir'.over <=> pos = dir.pos /\ slots = {}

\* There are at most as many names as entries
LEMMA NamesCounted ==
  ASSUME Typed, NEW slots \in SUBSET LiveSlots(table), NEW listed,
         listed = {table[s].name : s \in slots}
  PROVE  /\ Cardinality(listed) \in 0..EntryCount /\ listed \subseteq Names
         /\ listed # {} => Cardinality(listed) > 0
<1>1. IsFiniteSet(Slots) /\ Cardinality(Slots) = EntryCount /\ EntryCount \in Nat
  <2>1. EntryCount \in Nat
    BY LayoutAssumption
  <2>2. IsFiniteSet(0..(EntryCount - 1))
        /\ Cardinality(0..(EntryCount - 1)) = IF 0 > EntryCount - 1 THEN 0 ELSE EntryCount - 1 - 0 + 1
    BY <2>1, FS_Interval
  <2> QED
    BY <2>1, <2>2 DEF Slots
<1>2. slots \in SUBSET Slots
  BY DEF LiveSlots
<1>3. IsFiniteSet(slots) /\ Cardinality(slots) <= EntryCount
  BY <1>1, <1>2, FS_Subset
<1>4. PICK f : f = [s \in slots |-> table[s].name]
  OBVIOUS
<1>5. f \in Surjection(slots, listed)
  BY <1>4 DEF Surjection
<1>6. IsFiniteSet(listed) /\ Cardinality(listed) <= Cardinality(slots)
  BY <1>3, <1>5, FS_Surjection
<1>7. Cardinality(listed) \in Nat /\ Cardinality(slots) \in Nat
  BY <1>3, <1>6, FS_CardinalityType
<1>8. listed \subseteq Names
  <2>1. \A s \in slots : table[s] \in Entry /\ table[s].name # NoName
    BY <1>2 DEF Typed, TypeOK, LiveSlots, Live
  <2> QED
    BY <2>1 DEF Entry
<1>9. listed # {} => Cardinality(listed) # 0
  BY <1>6, FS_EmptySet
<1> QED
  BY <1>1, <1>3, <1>6, <1>7, <1>8, <1>9

\* So sfs_readdir returns
LEMMA ReadDirs ==
  ASSUME Typed, NEW room \in 1..(EntryCount + 2), ReadDir(room)
  PROVE  \E pos, slots, listed : Reads(room, pos, slots, listed)
<1>0. dir \in Listing /\ room \in Nat /\ room >= 1 /\ EntryCount \in Nat /\ dir.pos \in 0..(2 + EntryCount)
  <2>1. dir \in Listing
    BY DEF Typed, TypeOK
  <2> QED
    BY <2>1, LayoutAssumption DEF Listing
<1>1. PICK pos : pos = IF dir.pos >= 2 THEN dir.pos ELSE IF dir.pos + room > 2 THEN 2 ELSE dir.pos + room
  OBVIOUS
<1>2. PICK left : left = room - (pos - dir.pos)
  OBVIOUS
<1>3. PICK slots : slots = IF pos = 2 THEN {s \in LiveSlots(table) : Cardinality(Before(s)) < left} ELSE {}
  OBVIOUS
<1>4. PICK listed : listed = {table[s].name : s \in slots}
  OBVIOUS
<1>5. dir' = [dir EXCEPT
          !.pos   = pos + Cardinality(listed),
          !.got   = @ \cup listed,
          !.twice = @ \/ listed \cap dir.got # {},
          !.cut   = @ \/ (slots # {} /\ slots # LiveSlots(table)),
          !.over  = (pos = dir.pos /\ slots = {})]
  BY <1>1, <1>2, <1>3, <1>4 DEF ReadDir, Moved
<1>6. /\ pos \in dir.pos..(dir.pos + room) /\ (pos > 2 => pos = dir.pos) /\ (pos = dir.pos => pos >= 2)
      /\ pos \in 0..(2 + EntryCount) /\ pos \in Nat
  BY <1>0, <1>1
<1>7. slots \subseteq LiveSlots(table)
  BY <1>3
<1>8. /\ Cardinality(listed) \in 0..EntryCount /\ listed \subseteq Names
      /\ listed # {} => Cardinality(listed) > 0
  BY <1>4, <1>7, NamesCounted
<1>9. pos + Cardinality(listed) \in 0..(2 + EntryCount)
  <2>1. CASE pos = 2
    BY <1>0, <1>8, <2>1
  <2>2. CASE pos # 2
    <3>1. listed = {}
      BY <1>3, <1>4, <2>2
    <3>2. Cardinality(listed) = 0
      BY <3>1, FS_EmptySet
    <3> QED
      BY <1>6, <3>2
  <2> QED
    BY <2>1, <2>2
<1>10. PICK cut \in BOOLEAN : cut = (dir.cut \/ (slots # {} /\ slots # LiveSlots(table)))
  <2>1. (dir.cut \/ (slots # {} /\ slots # LiveSlots(table))) \in BOOLEAN
    BY ONLY Zenon
  <2> QED
    BY ONLY <2>1, Zenon
<1>11. PICK twice \in BOOLEAN : twice = (dir.twice \/ listed \cap dir.got # {})
  <2>1. (dir.twice \/ listed \cap dir.got # {}) \in BOOLEAN
    BY ONLY Zenon
  <2> QED
    BY ONLY <2>1, Zenon
<1>12. PICK over \in BOOLEAN : over = (pos = dir.pos /\ slots = {})
  <2>1. (pos = dir.pos /\ slots = {}) \in BOOLEAN
    BY ONLY Zenon
  <2> QED
    BY ONLY <2>1, Zenon
<1>13. PICK got \in SUBSET Names : got = dir.got \cup listed
  <2>1. dir.got \subseteq Names
    BY <1>0 DEF Listing
  <2> QED
    BY <1>8, <2>1
<1>14. PICK p \in 0..(2 + EntryCount) : p = pos + Cardinality(listed)
  BY <1>9
<1>15. dir' = [dir EXCEPT !.pos = p, !.got = got, !.twice = twice, !.cut = cut, !.over = over]
  BY <1>5, <1>10, <1>11, <1>12, <1>13, <1>14
<1>16. /\ dir' \in Listing /\ dir'.open = dir.open /\ dir'.stayed = dir.stayed
       /\ dir'.pos = p /\ dir'.got = got /\ dir'.twice = twice /\ dir'.cut = cut /\ dir'.over = over
  BY ONLY <1>0, <1>10, <1>11, <1>12, <1>13, <1>14, <1>15 DEF Listing
<1>17. /\ dir'.twice <=> dir.twice \/ listed \cap dir.got # {}
       /\ dir'.cut <=> dir.cut \/ (slots # {} /\ slots # LiveSlots(table))
       /\ dir'.over <=> pos = dir.pos /\ slots = {}
  BY <1>10, <1>11, <1>12, <1>16
<1>18. Reads(room, pos, slots, listed)
  BY <1>2, <1>3, <1>4, <1>6, <1>7, <1>8, <1>13, <1>14, <1>16, <1>17 DEF Reads
<1> QED
  BY <1>18

\* The rest of the steps
LEMMA OthersTyped ==
  ASSUME Typed,
         \/ \E t \in Tasks, s \in Slots, size \in 0..MaxSize : Truncate(t, s, size)
         \/ \E s \in Slots : UpdateFails(s) \/ Flush(s)
         \/ OpenDir \/ CloseDir \/ \E room \in 1..(EntryCount + 2) : ReadDir(room)
         \/ Crash \/ Mount \/ Unmount \/ UNCHANGED vars
  PROVE  Typed'
<1>0. TypeOK /\ Shapes /\ NoDir \in Listing
  <2>1. NoDir \in Listing
    BY LayoutAssumption DEF NoDir, Listing
  <2> QED
    BY <2>1 DEF Typed
<1>1. ASSUME NEW t \in Tasks, NEW s \in Slots, NEW size \in 0..MaxSize, Truncate(t, s, size)
      PROVE  Typed'
  <2>1. /\ UNCHANGED <<scene, mounted, used, table, disk, job, overlap, lost, failed, dir>>
        /\ isize' = [isize EXCEPT ![s] = size] /\ dirty' = dirty \cup {s} /\ mounted
    BY <1>1 DEF Truncate
  <2>2. size # None
    BY LayoutAssumption DEF None, MaxSize
  <2> QED
    BY <1>0, <2>1, <2>2 DEF Typed, TypeOK, Shapes, Quiet
<1>2. ASSUME NEW s \in Slots, UpdateFails(s) PROVE Typed'
  BY <1>0, <1>2 DEF UpdateFails, Typed, TypeOK, Shapes, Quiet
<1>3. ASSUME NEW s \in Slots, Flush(s) PROVE Typed'
  BY <1>0, <1>3 DEF Flush, Typed, TypeOK, Shapes, Quiet
<1>4. CASE OpenDir
  <2>1. {table[s].name : s \in LiveSlots(table)} \subseteq Names
    BY NamesCounted
  <2>2. dir' \in Listing
    BY <1>0, <1>4, <2>1 DEF OpenDir, Listing
  <2> QED
    BY <1>0, <1>4, <2>2 DEF OpenDir, Typed, TypeOK, Shapes, Quiet
<1>5. CASE CloseDir
  BY <1>0, <1>5 DEF CloseDir, Typed, TypeOK, Shapes, Quiet
<1>6. ASSUME NEW room \in 1..(EntryCount + 2), ReadDir(room) PROVE Typed'
  <2>1. dir' \in Listing
    BY <1>6, ReadDirs DEF Reads
  <2> QED
    BY <1>0, <1>6, <2>1 DEF ReadDir, Typed, TypeOK, Shapes, Quiet
<1>7. CASE Crash
  <2>1. lost' \in BOOLEAN
    <3>1. lost' = (lost \/ \E s \in Slots : ReleasePending(s))
      BY <1>7 DEF Crash
    <3> QED
      BY ONLY <3>1, Zenon
  <2>2. job' \in [All -> Job] /\ \A t \in All : ShapeOf(t, job'[t]) /\ job'[t] = Idle
    BY <1>7, IdleType, IdleShape DEF Crash
  <2> QED
    BY <1>0, <1>7, <2>1, <2>2 DEF Crash, Typed, TypeOK, Shapes, Quiet
<1>8. CASE Mount
  <2>1. MarkedBlocks(table) \subseteq Blocks
    <3>1. MetaBlocks \subseteq Blocks
      BY LayoutAssumption DEF MetaBlocks, Blocks
    <3>2. \A s \in LiveSlots(table) : Chain(table[s]) \subseteq Blocks
      <4> SUFFICES ASSUME NEW s \in LiveSlots(table) PROVE Chain(table[s]) \subseteq Blocks
        OBVIOUS
      <4>1. table[s] \in Entry
        BY <1>0 DEF TypeOK, LiveSlots
      <4>2. \A i \in Idx : table[s].blocks[i] \in Pointers
        BY <4>1 DEF Entry
      <4>3. Pointers \subseteq Blocks
        BY LayoutAssumption DEF Pointers, DataBlocks, Blocks
      <4> QED
        BY <4>2, <4>3 DEF Chain
    <3> QED
      BY <3>1, <3>2 DEF MarkedBlocks
  <2>2. isize' \in [Slots -> {None} \cup 0..MaxSize]
    <3>1. \A s \in Slots : table[s].size \in 0..MaxSize
      <4>1. \A s \in Slots : table[s] \in Entry
        BY <1>0 DEF TypeOK
      <4> QED
        BY <4>1 DEF Entry
    <3> QED
      BY <1>8, <3>1 DEF Mount
  <2>3. lost' \in BOOLEAN
    <3>1. lost' = (lost \/ failed)
      BY <1>8 DEF Mount
    <3> QED
      BY ONLY <3>1, Zenon
  <2>4. dirty' = {}
    BY <1>0, <1>8 DEF Mount, Shapes
  <2>5. /\ UNCHANGED <<scene, table, disk, job, overlap, failed, dir>>
        /\ used' = MarkedBlocks(table) /\ mounted' = TRUE
    BY <1>8 DEF Mount
  <2> QED
    BY <1>0, <2>1, <2>2, <2>3, <2>4, <2>5 DEF Typed, TypeOK, Shapes, Quiet
<1>9. CASE Unmount
  BY <1>0, <1>9 DEF Unmount, Typed, TypeOK, Shapes, Quiet
<1>10. CASE UNCHANGED vars
  BY <1>0, <1>10 DEF vars, Typed, TypeOK, Shapes, Quiet
<1> QED
  BY <1>1, <1>2, <1>3, <1>4, <1>5, <1>6, <1>7, <1>8, <1>9, <1>10

\* Every step
LEMMA NextTyped == Typed /\ [Next]_vars => Typed'
BY WritesTyped, UpdatesTyped, UnlinksTyped, CreateTyped, OthersTyped DEF Next

-----------------------------------------------------------------------------
(* Without overlap an entry has one handler, and its copy is true *)

OneJob ==
  \A t, u \in All :
    job[t].op # "none" /\ job[u].op # "none" /\ job[t].slot = job[u].slot => t = u

\* What a handler's copy has to do with the entry: a write may have added a
\* pointer, an update has dropped some, a removal reads only
CopyTrue(j, e) ==
  /\ j.at # "grow" => j.fe.name = e.name
  /\ j.op = "write" /\ j.at = "store" => \A i \in Idx : e.blocks[i] \in {0, j.fe.blocks[i]}
  /\ j.op = "unlink" => j.fe = e
  /\ j.op = "update" => Fewer(e, j.fe)

CopiesTrue == \A t \in All : job[t].op # "none" => CopyTrue(job[t], table[job[t].slot])

Copies == ~overlap => OneJob /\ CopiesTrue

\* Nobody else is at work on the entry of a step that is no overlap
LEMMA Alone ==
  ASSUME Typed, Copies, NEW t \in All, NEW s \in Slots, NEW j, StepAt(t, s, j), ~overlap'
  PROVE  /\ ~overlap /\ OneJob /\ CopiesTrue /\ job'[t] = j
         /\ \A u \in All \ {t} : job'[u] = job[u] /\ (job[u].op # "none" => job[u].slot # s)
<1>1. ~overlap /\ OneJob /\ CopiesTrue
  BY DEF StepAt, Copies
<1>2. job'[t] = j /\ \A u \in All \ {t} : job'[u] = job[u]
  BY DEF StepAt, Typed, TypeOK
<1>3. ASSUME NEW u \in All \ {t}, job[u].op # "none", job[u].slot = s PROVE FALSE
  <2>1. CASE job[t].op # "none"
    BY <1>1, <1>3, <2>1 DEF OneJob, StepAt
  <2>2. CASE job[t].op = "none"
    BY <1>3, <2>2, IdleType DEF StepAt, Busy
  <2> QED
    BY <2>1, <2>2
<1> QED
  BY <1>1, <1>2, <1>3

\* So the others' copies stay true, and the step's own has to be
LEMMA StepCopies ==
  ASSUME Typed, Copies, NEW t \in All, NEW s \in Slots, NEW j, StepAt(t, s, j),
         ~overlap' /\ j.op # "none" => CopyTrue(j, table'[s])
  PROVE  Copies'
<1> SUFFICES ASSUME ~overlap' PROVE OneJob' /\ CopiesTrue'
  BY DEF Copies
<1>1. /\ OneJob /\ CopiesTrue /\ job'[t] = j
      /\ \A u \in All \ {t} : job'[u] = job[u] /\ (job[u].op # "none" => job[u].slot # s)
  BY Alone
<1>2. /\ \A r \in Slots \ {s} : table'[r] = table[r]
      /\ j.op # "none" => j.slot = s
  BY DEF StepAt
<1>3. OneJob'
  BY <1>1, <1>2 DEF OneJob
<1>4. \A u \in All : job[u].op # "none" => job[u].slot \in Slots
  BY AtWork
<1>5. CopiesTrue'
  <2> SUFFICES ASSUME NEW u \in All, job'[u].op # "none"
               PROVE  CopyTrue(job'[u], table'[job'[u].slot])
    BY DEF CopiesTrue
  <2>1. CASE u = t
    BY <1>1, <1>2, <2>1
  <2>2. CASE u # t
    <3>1. job'[u] = job[u] /\ job[u].slot \in Slots \ {s}
      BY <1>1, <1>4, <2>2
    <3> QED
      BY <1>1, <1>2, <3>1 DEF CopiesTrue
  <2> QED
    BY <2>1, <2>2
<1> QED
  BY <1>3, <1>5

\* A write adds a pointer to its copy, where the entry has none
LEMMA WritesCopies ==
  ASSUME Typed, Copies, NEW t \in Tasks,
         \/ \E s \in Slots, i \in Idx, size \in 1..MaxSize : WriteBegin(t, s, i, size)
         \/ WriteStore(t) \/ WriteGrow(t)
  PROVE  Copies'
<1>1. ASSUME NEW s \in Slots, NEW i \in Idx, NEW size \in 1..MaxSize, WriteBegin(t, s, i, size)
      PROVE  Copies'
  <2>1. PICK j : /\ StepAt(t, s, j) /\ t \in All /\ j.op = "write"
                 /\ Finds(s, i, j) \/ \E b \in FreeBlocks(used) : Takes(s, i, j, b)
    BY <1>1, WriteBegins
  <2>2. table' = table /\ table[s] \in Entry
    BY <1>1 DEF WriteBegin, Typed, TypeOK
  <2>3. CASE Finds(s, i, j)
    BY <2>1, <2>3, StepCopies DEF CopyTrue, Finds
  <2>4. ASSUME NEW b \in FreeBlocks(used), Takes(s, i, j, b) PROVE Copies'
    <3>1. j.fe.name = table[s].name /\ \A k \in Idx : table[s].blocks[k] \in {0, j.fe.blocks[k]}
      BY <2>2, <2>4 DEF Entry, Takes
    <3> QED
      BY <2>1, <2>2, <2>4, <3>1, StepCopies DEF CopyTrue, Takes
  <2> QED
    BY <2>1, <2>3, <2>4
<1>2. CASE WriteStore(t)
  <2>1. PICK s \in Slots, j \in Job : StepAt(t, s, j) /\ t \in All /\ j.op = "write" /\ j.at = "grow"
    BY <1>2, WriteStores
  <2> QED
    BY <2>1, StepCopies DEF CopyTrue
<1>3. CASE WriteGrow(t)
  <2>1. PICK s \in Slots : StepAt(t, s, Idle) /\ t \in All
    BY <1>3, WriteGrows
  <2> QED
    BY <2>1, IdleType, StepCopies
<1> QED
  BY <1>1, <1>2, <1>3

\* An update drops pointers from its copy
LEMMA UpdatesCopies ==
  ASSUME Typed, Copies, (\E s \in Slots : UpdateBegin(s)) \/ UpdatePut \/ UpdateStore
  PROVE  Copies'
<1>1. ASSUME NEW s \in Slots, UpdateBegin(s) PROVE Copies'
  <2>1. PICK j : /\ StepAt(Flusher, s, j) /\ Flusher \in All /\ j.op = "update"
                 /\ j.fe = [table[s] EXCEPT !.size = isize[s]]
    BY <1>1, UpdateBegins
  <2>2. table' = table /\ table[s] \in Entry
    BY <1>1 DEF UpdateBegin, Typed, TypeOK
  <2>3. j.fe.name = table[s].name /\ Fewer(table[s], j.fe)
    BY <2>1, <2>2 DEF Entry, Fewer
  <2> QED
    BY <2>1, <2>2, <2>3, StepCopies DEF CopyTrue
<1>2. CASE UpdatePut
  <2>1. PICK s \in Slots, i \in Idx, j \in Job :
          /\ StepAt(Flusher, s, j) /\ Flusher \in All /\ job[Flusher].op = "update"
          /\ job[Flusher].slot = s /\ table' = table /\ job[Flusher].at = "put"
          /\ j.op = "update" /\ j.fe = [job[Flusher].fe EXCEPT !.blocks[i] = 0]
          /\ job[Flusher].fe \in Entry
    BY <1>2, UpdatePuts
  <2>2. j.fe.name = job[Flusher].fe.name /\ Fewer(job[Flusher].fe, j.fe)
    BY <2>1 DEF Entry, Fewer
  <2>3. ASSUME ~overlap' PROVE CopyTrue(j, table'[s])
    <3>1. CopiesTrue
      BY <2>1, <2>3, Alone
    <3>2. job[Flusher].fe.name = table[s].name /\ Fewer(table[s], job[Flusher].fe)
      BY <2>1, <3>1 DEF CopiesTrue, CopyTrue
    <3> QED
      BY <2>1, <2>2, <3>2 DEF CopyTrue, Fewer
  <2> QED
    BY <2>1, <2>3, StepCopies
<1>3. CASE UpdateStore
  <2>1. PICK s \in Slots : StepAt(Flusher, s, Idle) /\ Flusher \in All
    BY <1>3, UpdateStores
  <2> QED
    BY <2>1, IdleType, StepCopies
<1> QED
  BY <1>1, <1>2, <1>3

\* A removal leaves its copy alone
LEMMA UnlinksCopies ==
  ASSUME Typed, Copies, NEW t \in Tasks,
         (\E fn \in Names : UnlinkBegin(t, fn)) \/ UnlinkPut(t) \/ UnlinkStore(t)
  PROVE  Copies'
<1>1. ASSUME NEW fn \in Names, UnlinkBegin(t, fn) PROVE Copies'
  <2>1. PICK s \in Slots, j \in Job : StepAt(t, s, j) /\ t \in All /\ j.op = "unlink" /\ j.fe = table[s]
    BY <1>1, UnlinkBegins
  <2>2. table' = table
    BY <1>1 DEF UnlinkBegin
  <2> QED
    BY <2>1, <2>2, StepCopies DEF CopyTrue
<1>2. CASE UnlinkPut(t)
  <2>1. PICK s \in Slots, i \in Idx, j \in Job :
          /\ StepAt(t, s, j) /\ t \in All /\ job[t].op = "unlink"
          /\ job[t].slot = s /\ table' = table
          /\ j.op = "unlink" /\ j.fe = job[t].fe
    BY <1>2, UnlinkPuts
  <2>2. ASSUME ~overlap' PROVE CopyTrue(j, table'[s])
    <3>1. CopiesTrue
      BY <2>1, <2>2, Alone
    <3> QED
      BY <2>1, <3>1 DEF CopiesTrue, CopyTrue
  <2> QED
    BY <2>1, <2>2, StepCopies
<1>3. CASE UnlinkStore(t)
  <2>1. PICK s \in Slots : StepAt(t, s, Idle) /\ t \in All
    BY <1>3, UnlinkStores
  <2> QED
    BY <2>1, IdleType, StepCopies
<1> QED
  BY <1>1, <1>2, <1>3

\* Steps that leave entries and handlers alone
Aside ==
  \/ \E t \in Tasks, s \in Slots, size \in 0..MaxSize : Truncate(t, s, size)
  \/ \E s \in Slots : UpdateFails(s) \/ Flush(s)
  \/ OpenDir \/ CloseDir \/ \E room \in 1..(EntryCount + 2) : ReadDir(room)
  \/ Mount \/ Unmount \/ UNCHANGED vars

\* They do
LEMMA AsideKeeps == Aside => UNCHANGED <<scene, table, job, overlap, failed>>
BY DEF Aside, Truncate, UpdateFails, Flush, OpenDir, CloseDir, ReadDir, Mount, Unmount, vars

\* What was lost stays lost
LEMMA AsideLost == Aside /\ ~lost' => ~lost
BY DEF Aside, Truncate, UpdateFails, Flush, OpenDir, CloseDir, ReadDir, Mount, Unmount, vars

\* Copies are true as long as handlers do not overlap
LEMMA NextCopies == Typed /\ Copies /\ [Next]_vars => Copies'
<1> SUFFICES ASSUME Typed, Copies, [Next]_vars PROVE Copies'
  OBVIOUS
<1>1. CASE Aside
  BY <1>1, AsideKeeps DEF Copies, OneJob, CopiesTrue
<1>2. CASE Crash
  <2>1. \A t \in All : job'[t].op = "none"
    BY <1>2, IdleType DEF Crash
  <2> QED
    BY <2>1 DEF Copies, OneJob, CopiesTrue
<1>3. ASSUME NEW t \in Tasks, NEW fn \in Names, Create(t, fn) PROVE Copies'
  <2>1. PICK s \in Slots : StepAt(t, s, Idle) /\ t \in All
    BY <1>3, Creates
  <2> QED
    BY <2>1, IdleType, StepCopies
<1> QED
  BY <1>1, <1>2, <1>3, WritesCopies, UpdatesCopies, UnlinksCopies DEF Next, Aside

-----------------------------------------------------------------------------
(* The directory *)

NamesIn(t) == {t[s].name : s \in LiveSlots(t)}

\* Names are listed once, at position 2; the names to expect are those of
\* entries that are still there
DirInv ==
  /\ ~dir.twice
  /\ dir.got # {} => dir.pos > 2
  /\ scene # "list" => dir.stayed = {}
  /\ ~overlap => dir.stayed \subseteq NamesIn(table)
  /\ ~overlap /\ ~dir.cut /\ (dir.pos > 2 \/ dir.over) => dir.stayed \subseteq dir.got

\* The first live entry has none before it
LEMMA FirstLive ==
  ASSUME LiveSlots(table) # {}
  PROVE  \E s \in LiveSlots(table) : Cardinality(Before(s)) = 0
<1> DEFINE R == OpToRel(<, Nat)
<1>1. LiveSlots(table) \subseteq Nat
  BY DEF LiveSlots, Slots
<1>2. IsWellFoundedOn(R, Nat)
  BY NatLessThanWellFounded
<1>3. R = {ss \in Nat \X Nat : ss[1] < ss[2]}
  BY DEF OpToRel
<1> HIDE DEF R
<1>4. PICK s \in LiveSlots(table) : \A r \in LiveSlots(table) : <<r, s>> \notin R
  BY <1>1, <1>2, WFMin
<1>5. \A r \in LiveSlots(table) : ~(r < s)
  BY <1>1, <1>3, <1>4
<1>6. Before(s) = {}
  BY <1>5 DEF Before
<1> QED
  BY <1>6, FS_EmptySet

\* sfs_readdir lists the entries once, and all of them unless it is cut short
LEMMA ReadDirInv ==
  ASSUME Typed, DirInv, NEW room \in 1..(EntryCount + 2), ReadDir(room)
  PROVE  DirInv'
<1>1. PICK pos, slots, listed : Reads(room, pos, slots, listed)
  BY ReadDirs
<1>2. UNCHANGED <<scene, table, overlap>> /\ room \in Nat /\ room >= 1
  BY LayoutAssumption DEF ReadDir
<1>3. dir.pos \in Nat /\ pos \in Nat /\ Cardinality(listed) \in Nat
  <2>1. dir \in Listing
    BY DEF Typed, TypeOK
  <2>2. dir.pos \in Nat
    BY <2>1, LayoutAssumption DEF Listing
  <2> QED
    BY <1>1, <2>2, LayoutAssumption DEF Reads
<1>4. dir.pos > 2 => listed = {} /\ slots = {} /\ pos = dir.pos
  BY <1>1, <1>3 DEF Reads
<1>5. ~dir'.twice
  BY <1>1, <1>4 DEF DirInv, Reads
<1>6. dir'.pos = pos + Cardinality(listed) /\ (listed # {} => pos = 2 /\ Cardinality(listed) > 0)
  BY <1>1 DEF Reads
<1>7. dir'.got # {} => dir'.pos > 2
  <2>1. CASE dir.got # {}
    BY <1>3, <1>4, <1>6, <2>1 DEF DirInv
  <2>2. CASE listed # {}
    BY <1>3, <1>6, <2>2
  <2> QED
    BY <1>1, <2>1, <2>2 DEF Reads
<1>8. dir'.stayed = dir.stayed /\ dir.got \subseteq dir'.got /\ (dir.cut => dir'.cut)
  BY <1>1 DEF Reads
<1>9. ASSUME ~overlap, ~dir'.cut, dir'.pos > 2 \/ dir'.over PROVE dir.stayed \subseteq dir'.got
  <2>1. CASE dir.pos > 2
    BY <1>8, <1>9, <2>1 DEF DirInv
  <2>2. CASE ~(dir.pos > 2) /\ slots # {}
    <3>1. slots = LiveSlots(table) /\ listed = NamesIn(table) /\ listed \subseteq dir'.got
      BY <1>1, <1>9, <2>2 DEF Reads, NamesIn
    <3> QED
      BY <1>9, <3>1 DEF DirInv
  <2>3. CASE ~(dir.pos > 2) /\ slots = {}
    <3>1. listed = {} /\ Cardinality(listed) = 0
      BY <1>1, <2>3, FS_EmptySet DEF Reads
    <3>2. ~(pos > 2)
      BY <1>1, <2>3 DEF Reads
    <3>3. dir'.over
      BY <1>3, <1>6, <1>9, <3>1, <3>2
    <3>4. pos = dir.pos /\ pos >= 2
      BY <1>1, <3>3 DEF Reads
    <3>5. pos = 2 /\ room - (pos - dir.pos) > 0
      BY <1>2, <1>3, <3>2, <3>4
    <3>6. LiveSlots(table) = {}
      <4> SUFFICES ASSUME LiveSlots(table) # {} PROVE FALSE
        OBVIOUS
      <4>1. PICK s \in LiveSlots(table) : Cardinality(Before(s)) = 0
        BY FirstLive
      <4>2. s \in slots
        BY <1>1, <3>5, <4>1 DEF Reads
      <4> QED
        BY <2>3, <4>2
    <3> QED
      BY <1>9, <3>6 DEF DirInv, NamesIn
  <2> QED
    BY <2>1, <2>2, <2>3
<1> QED
  BY <1>2, <1>5, <1>7, <1>8, <1>9 DEF DirInv, NamesIn

\* An entry that is written again keeps its name
LEMMA WroteNames ==
  ASSUME Typed, NEW t \in All, NEW s \in Slots, NEW j, StepAt(t, s, j), NEW fe, Wrote(s, fe),
         fe.name = table[s].name \/ ~Live(table[s])
  PROVE  NamesIn(table) \subseteq NamesIn(table')
<1> SUFFICES ASSUME NEW r \in LiveSlots(table) PROVE table[r].name \in NamesIn(table')
  BY DEF NamesIn
<1>1. r \in Slots /\ Live(table[r])
  BY DEF LiveSlots
<1>2. table'[r].name = table[r].name
  <2>1. CASE r = s
    BY <1>1, <2>1 DEF Wrote
  <2>2. CASE r # s
    BY <1>1, <2>2 DEF StepAt
  <2> QED
    BY <2>1, <2>2
<1>3. r \in LiveSlots(table')
  BY <1>1, <1>2 DEF LiveSlots, Live
<1> QED
  BY <1>2, <1>3 DEF NamesIn

\* Steps with the directory, and the names in it, as they were
LEMMA NamesKept ==
  ASSUME DirInv, UNCHANGED <<scene, dir>>, ~overlap' => ~overlap /\ NamesIn(table) \subseteq NamesIn(table')
  PROVE  DirInv'
<1>1. UNCHANGED dir /\ UNCHANGED scene
  OBVIOUS
<1>2. ~overlap' => dir.stayed \subseteq NamesIn(table')
  BY DEF DirInv
<1> QED
  BY <1>1, <1>2 DEF DirInv

\* Every step keeps the directory so
LEMMA NextDir == Typed /\ Copies /\ DirInv /\ [Next]_vars => DirInv'
<1> SUFFICES ASSUME Typed, Copies, DirInv, [Next]_vars PROVE DirInv'
  OBVIOUS
<1>1. ASSUME NEW t \in Tasks, WriteStore(t) PROVE DirInv'
  <2>1. PICK s \in Slots, j \in Job :
          /\ StepAt(t, s, j) /\ t \in All /\ job[t].op = "write" /\ job[t].at = "store"
          /\ Wrote(s, job[t].fe) /\ job[t].slot = s
    BY <1>1, WriteStores
  <2>2. ASSUME ~overlap' PROVE ~overlap /\ NamesIn(table) \subseteq NamesIn(table')
    <3>1. ~overlap /\ CopiesTrue
      BY <2>1, <2>2, Alone
    <3>2. job[t].fe.name = table[s].name
      BY <2>1, <3>1 DEF CopiesTrue, CopyTrue
    <3> QED
      BY <2>1, <3>1, <3>2, WroteNames
  <2> QED
    BY <1>1, <2>2, NamesKept DEF WriteStore
<1>2. CASE UpdateStore
  <2>1. PICK s \in Slots :
          /\ StepAt(Flusher, s, Idle) /\ Flusher \in All /\ job[Flusher].op = "update"
          /\ job[Flusher].at = "put" /\ Wrote(s, job[Flusher].fe) /\ job[Flusher].slot = s
    BY <1>2, UpdateStores
  <2>2. ASSUME ~overlap' PROVE ~overlap /\ NamesIn(table) \subseteq NamesIn(table')
    <3>1. ~overlap /\ CopiesTrue
      BY <2>1, <2>2, Alone
    <3>2. job[Flusher].fe.name = table[s].name
      BY <2>1, <3>1 DEF CopiesTrue, CopyTrue
    <3> QED
      BY <2>1, <3>1, <3>2, WroteNames
  <2> QED
    BY <1>2, <2>2, NamesKept DEF UpdateStore
<1>3. ASSUME NEW t \in Tasks, NEW fn \in Names, Create(t, fn) PROVE DirInv'
  <2>1. PICK s \in Slots :
          StepAt(t, s, Idle) /\ t \in All /\ ~Live(table[s]) /\ Wrote(s, NewEntry(fn))
    BY <1>3, Creates
  <2>2. NamesIn(table) \subseteq NamesIn(table')
    BY <2>1, WroteNames
  <2>3. ~overlap' => ~overlap
    BY <2>1 DEF StepAt
  <2> QED
    BY <1>3, <2>2, <2>3, NamesKept DEF Create
<1>4. ASSUME NEW t \in Tasks, UnlinkStore(t) PROVE DirInv'
  <2>1. PICK s \in Slots :
          /\ StepAt(t, s, Idle) /\ t \in All /\ job[t].op = "unlink" /\ job[t].slot = s
          /\ Wrote(s, EmptyEntry)
          /\ dir' = [dir EXCEPT !.stayed = @ \ {job[t].fe.name}]
    BY <1>4, UnlinkStores
  <2>2. /\ dir'.pos = dir.pos /\ dir'.got = dir.got /\ dir'.twice = dir.twice /\ dir'.cut = dir.cut
        /\ dir'.over = dir.over /\ dir'.stayed = dir.stayed \ {job[t].fe.name}
    <3>1. dir \in Listing
      BY DEF Typed, TypeOK
    <3> QED
      BY <2>1, <3>1 DEF Listing
  <2>3. scene' = scene /\ (~overlap' => ~overlap)
    BY <1>4, <2>1 DEF UnlinkStore, StepAt
  <2>4. ASSUME ~overlap' PROVE dir'.stayed \subseteq NamesIn(table')
    <3>1. ~overlap /\ CopiesTrue
      BY <2>1, <2>4, Alone
    <3>2. job[t].fe.name = table[s].name
      BY <2>1, <3>1 DEF CopiesTrue, CopyTrue
    <3> SUFFICES ASSUME NEW n \in dir.stayed, n # table[s].name PROVE n \in NamesIn(table')
      BY <2>2, <3>2
    <3>3. PICK r \in LiveSlots(table) : n = table[r].name
      BY <3>1 DEF DirInv, NamesIn
    <3>4. r \in Slots /\ r # s /\ table'[r] = table[r]
      BY <2>1, <3>3 DEF LiveSlots, StepAt
    <3> QED
      BY <3>3, <3>4 DEF NamesIn, LiveSlots
  <2> QED
    BY <2>2, <2>3, <2>4 DEF DirInv
<1>5. ASSUME UNCHANGED <<scene, table, dir>>, ~overlap' => ~overlap PROVE DirInv'
  BY <1>5, NamesKept
<1>6. CASE Crash
  <2>1. scene # "list" /\ UNCHANGED <<scene, dir, overlap>>
    BY <1>6 DEF Crash
  <2> QED
    BY <2>1 DEF DirInv
<1>7. CASE OpenDir
  <2>1. UNCHANGED <<scene, table, overlap>> /\ scene = "list"
    BY <1>7 DEF OpenDir
  <2>2. dir' = [NoDir EXCEPT !.open = TRUE, !.stayed = NamesIn(table)]
    BY <1>7 DEF OpenDir, NamesIn
  <2>3. /\ dir'.pos = 0 /\ dir'.got = {} /\ dir'.twice = FALSE /\ dir'.over = FALSE
        /\ dir'.stayed = NamesIn(table)
    BY <2>2 DEF NoDir
  <2> QED
    BY <2>1, <2>3 DEF DirInv
<1>8. CASE CloseDir
  <2>1. UNCHANGED <<scene, table, overlap>> /\ dir' = NoDir
    BY <1>8 DEF CloseDir
  <2>2. /\ dir'.pos = 0 /\ dir'.got = {} /\ dir'.twice = FALSE /\ dir'.over = FALSE
        /\ dir'.stayed = {}
    BY <2>1 DEF NoDir
  <2> QED
    BY <2>1, <2>2 DEF DirInv
<1>9. ASSUME NEW t \in Tasks, NEW s \in Slots, NEW i \in Idx, NEW size \in 1..MaxSize,
             WriteBegin(t, s, i, size)
      PROVE  DirInv'
  <2>1. ~overlap' => ~overlap
    BY <1>9, WriteBegins DEF StepAt
  <2> QED
    BY <1>5, <1>9, <2>1 DEF WriteBegin
<1>10. ASSUME NEW s \in Slots, UpdateBegin(s) PROVE DirInv'
  <2>1. ~overlap' => ~overlap
    BY <1>10, UpdateBegins DEF StepAt
  <2> QED
    BY <1>5, <1>10, <2>1 DEF UpdateBegin
<1>11. ASSUME NEW t \in Tasks, NEW fn \in Names, UnlinkBegin(t, fn) PROVE DirInv'
  <2>1. ~overlap' => ~overlap
    BY <1>11, UnlinkBegins DEF StepAt
  <2> QED
    BY <1>5, <1>11, <2>1 DEF UnlinkBegin
<1>12. ASSUME NEW t \in Tasks, WriteGrow(t) \/ UnlinkPut(t) PROVE DirInv'
  BY <1>5, <1>12 DEF WriteGrow, UnlinkPut
<1>13. CASE UpdatePut
  BY <1>5, <1>13 DEF UpdatePut
<1>14. CASE \/ \E t \in Tasks, s \in Slots, size \in 0..MaxSize : Truncate(t, s, size)
            \/ \E s \in Slots : UpdateFails(s) \/ Flush(s)
            \/ Mount \/ Unmount \/ UNCHANGED vars
  BY <1>5, <1>14 DEF Truncate, UpdateFails, Flush, Mount, Unmount, vars
<1> QED
  BY <1>1, <1>2, <1>3, <1>4, <1>6, <1>7, <1>8, <1>9, <1>10, <1>11, <1>12, <1>13, <1>14, ReadDirInv
     DEF Next

\* A directory read to the end gives no name twice and, unless a call was cut
\* short or an entry written back out of date, every name that stayed in it:
\* sfs_readdir lists all the entries in the one call at position 2.
THEOREM ListingIsWhole == Spec => []ListingWhole
<1>1. Init => Copies /\ DirInv
  <2> SUFFICES ASSUME Init PROVE Copies /\ DirInv
    OBVIOUS
  <2>1. \A t \in All : job[t].op = "none"
    BY IdleType DEF Init
  <2>2. dir.pos = 0 /\ dir.got = {} /\ dir.twice = FALSE /\ dir.over = FALSE /\ dir.stayed = {}
    BY DEF Init, NoDir
  <2> QED
    BY <2>1, <2>2 DEF Copies, OneJob, CopiesTrue, DirInv
<1>2. Typed /\ Copies /\ DirInv /\ [Next]_vars => (Typed /\ Copies /\ DirInv)'
  BY NextTyped, NextCopies, NextDir
<1>3. DirInv => ListingWhole
  BY DEF DirInv, ListingWhole
<1> QED
  BY <1>1, <1>2, <1>3, InitTyped, PTL DEF Spec

-----------------------------------------------------------------------------
(* Who owns a block.  While a handler works with a copy of an entry, the   *)
(* tracker follows the copy.                                               *)

\* j works with a copy of entry s that it may still write
Works(j, s) == j.op # "none" /\ j.at # "grow" /\ j.slot = s

\* Pointer i of the copy, and for a removal the pointers it has not given back
HasCopied(j, i, b) == j.fe.blocks[i] = b /\ (j.op = "unlink" => j.i <= i)

Owns(s, i, b) ==
  /\ b # 0
  /\ \/ (\A t \in All : ~Works(job[t], s)) /\ table[s].blocks[i] = b
     \/ \E t \in All : Works(job[t], s) /\ HasCopied(job[t], i, b)

\* The same where only j can be at work on the entry, which is e
Has(e, j, s, i, b) ==
  /\ b # 0
  /\ Works(j, s) => HasCopied(j, i, b)
  /\ ~Works(j, s) => e.blocks[i] = b

\* No block has two owners
OwnedOnce ==
  \A s, r \in Slots, i, k \in Idx : \A b : Owns(s, i, b) /\ Owns(r, k, b) => s = r /\ i = k

\* A block that is owned is marked
OwnedMarked ==
  mounted => \A s \in Slots, i \in Idx : \A b : Owns(s, i, b) => b \in used

\* No entry has a block twice
Distinct(e) == \A i, k \in Idx : e.blocks[i] # 0 /\ e.blocks[i] = e.blocks[k] => i = k

EntriesDistinct == \A s \in Slots : Distinct(table[s]) /\ Distinct(disk[s])

Owned == ~overlap /\ ~lost => OwnedOnce /\ OwnedMarked /\ EntriesDistinct

\* A step at an entry changes what this entry owns, and nothing else
LEMMA OwnsAt ==
  ASSUME Typed, Copies, NEW t \in All, NEW s \in Slots, NEW j, StepAt(t, s, j), ~overlap'
  PROVE  /\ \A i \in Idx : \A b : Owns(s, i, b) <=> Has(table[s], job[t], s, i, b)
         /\ \A i \in Idx : \A b : Owns(s, i, b)' <=> Has(table'[s], j, s, i, b)
         /\ \A r \in Slots \ {s}, i \in Idx : \A b : Owns(r, i, b)' <=> Owns(r, i, b)
<1>1. /\ job'[t] = j
      /\ \A u \in All \ {t} : job'[u] = job[u] /\ (job[u].op # "none" => job[u].slot # s)
  BY Alone
<1>2. \A u \in All \ {t} : ~Works(job[u], s) /\ ~Works(job'[u], s)
  BY <1>1 DEF Works
<1>3. \A r \in Slots \ {s} : ~Works(job[t], r) /\ ~Works(j, r) /\ table'[r] = table[r]
  BY DEF StepAt, Works
<1>4. \A i \in Idx : \A b : Owns(s, i, b) <=> Has(table[s], job[t], s, i, b)
  BY <1>2 DEF Owns, Has
<1>5. \A i \in Idx : \A b : Owns(s, i, b)' <=> Has(table'[s], j, s, i, b)
  BY <1>1, <1>2 DEF Owns, Has
<1>6. ASSUME NEW r \in Slots \ {s}, NEW i \in Idx, NEW b PROVE Owns(r, i, b)' <=> Owns(r, i, b)
  BY <1>1, <1>3 DEF Owns
<1> QED
  BY <1>4, <1>5, <1>6

\* The steps of three kinds: nothing is gained
LEMMA OwnsKept ==
  ASSUME Typed, Copies, OwnedOnce, OwnedMarked, NEW t \in All, NEW s \in Slots, NEW j,
         StepAt(t, s, j), ~overlap', used' = used, mounted' = mounted,
         \A i \in Idx : \A b : Has(table'[s], j, s, i, b) => Has(table[s], job[t], s, i, b)
  PROVE  OwnedOnce' /\ OwnedMarked'
<1>1. \A r \in Slots, i \in Idx : \A b : Owns(r, i, b)' => Owns(r, i, b)
  BY OwnsAt
<1> QED
  BY <1>1 DEF OwnedOnce, OwnedMarked

\* One block is given up, and is unmarked
LEMMA OwnsDropped ==
  ASSUME Typed, Copies, OwnedOnce, OwnedMarked, NEW t \in All, NEW s \in Slots, NEW j,
         StepAt(t, s, j), ~overlap', mounted' = mounted,
         NEW i0 \in Idx, NEW b0, Has(table[s], job[t], s, i0, b0), used' = used \ {b0},
         \A i \in Idx : \A b :
           Has(table'[s], j, s, i, b) => Has(table[s], job[t], s, i, b) /\ i # i0
  PROVE  OwnedOnce' /\ OwnedMarked'
<1>1. Owns(s, i0, b0)
  BY OwnsAt
<1>2. ASSUME NEW r \in Slots, NEW i \in Idx, NEW b, Owns(r, i, b)'
      PROVE  Owns(r, i, b) /\ b # b0
  <2>1. Owns(r, i, b) /\ (r = s => i # i0)
    BY <1>2, OwnsAt
  <2> QED
    BY <1>1, <2>1 DEF OwnedOnce
<1>3. OwnedOnce'
  BY <1>2 DEF OwnedOnce
<1>4. OwnedMarked'
  BY <1>2 DEF OwnedMarked
<1> QED
  BY <1>3, <1>4

\* One block that was free is gained, and is marked
LEMMA OwnsGained ==
  ASSUME Typed, Copies, OwnedOnce, OwnedMarked, NEW t \in All, NEW s \in Slots, NEW j,
         StepAt(t, s, j), ~overlap', mounted, mounted' = mounted,
         NEW i0 \in Idx, NEW b0, b0 \notin used, used' = used \cup {b0},
         \A i \in Idx : \A b :
           Has(table'[s], j, s, i, b) => Has(table[s], job[t], s, i, b) \/ (i = i0 /\ b = b0)
  PROVE  OwnedOnce' /\ OwnedMarked'
<1>1. ASSUME NEW r \in Slots, NEW i \in Idx, NEW b, Owns(r, i, b)'
      PROVE  Owns(r, i, b) \/ (r = s /\ i = i0 /\ b = b0)
  BY <1>1, OwnsAt
<1>2. \A r \in Slots, i \in Idx : ~Owns(r, i, b0)
  BY DEF OwnedMarked
<1>3. OwnedOnce'
  BY <1>1, <1>2 DEF OwnedOnce
<1>4. OwnedMarked'
  BY <1>1 DEF OwnedMarked
<1> QED
  BY <1>3, <1>4

\* The copy of a write or an update has no block twice
LEMMA CopyDistinct ==
  ASSUME OwnedOnce, NEW t \in All, NEW s \in Slots, Works(job[t], s), job[t].op # "unlink"
  PROVE  Distinct(job[t].fe)
<1> SUFFICES ASSUME NEW i \in Idx, NEW k \in Idx, job[t].fe.blocks[i] # 0,
                    job[t].fe.blocks[i] = job[t].fe.blocks[k]
             PROVE  i = k
  BY DEF Distinct
<1>1. PICK b : b = job[t].fe.blocks[i]
  OBVIOUS
<1>2. Owns(s, i, b) /\ Owns(s, k, b)
  BY <1>1 DEF Owns, HasCopied
<1> QED
  BY <1>2 DEF OwnedOnce

\* An entry that is written has no block twice
LEMMA StepDistinct ==
  ASSUME EntriesDistinct, NEW t, NEW s \in Slots, NEW j, StepAt(t, s, j), disk' = disk,
         table' = table \/ \E fe : Distinct(fe) /\ Wrote(s, fe)
  PROVE  EntriesDistinct'
<1>1. CASE table' = table
  BY <1>1 DEF EntriesDistinct
<1>2. ASSUME NEW fe, Distinct(fe), Wrote(s, fe) PROVE EntriesDistinct'
  <2>1. Distinct(table'[s])
    BY <1>2 DEF Wrote, EntriesDistinct
  <2>2. \A r \in Slots \ {s} : table'[r] = table[r]
    BY DEF StepAt
  <2> QED
    BY <2>1, <2>2 DEF EntriesDistinct
<1> QED
  BY <1>1, <1>2

\* A cleared or new entry has no block twice
LEMMA FreshDistinct == Distinct(EmptyEntry) /\ \A fn : Distinct(NewEntry(fn))
BY DEF Distinct, EmptyEntry, NewEntry, NoBlocks

\* Nor any block at all
LEMMA FreshHold == Held(EmptyEntry) = {} /\ \A fn : Held(NewEntry(fn)) = {}
BY DEF Held, EmptyEntry, NewEntry, NoBlocks

\* A task in no handler has no copy
LEMMA NotWorking == \A s : ~Works(Idle, s)
BY IdleType DEF Works

\* sfs_write_begin, the write of the entry, generic_write_end
LEMMA WritesOwned ==
  ASSUME Typed, Copies, Owned, NEW t \in Tasks,
         \/ \E s \in Slots, i \in Idx, size \in 1..MaxSize : WriteBegin(t, s, i, size)
         \/ WriteStore(t) \/ WriteGrow(t)
  PROVE  Owned'
<1> SUFFICES ASSUME ~overlap', ~lost' PROVE OwnedOnce' /\ OwnedMarked' /\ EntriesDistinct'
  BY DEF Owned
<1>1. ASSUME NEW s \in Slots, NEW i \in Idx, NEW size \in 1..MaxSize, WriteBegin(t, s, i, size)
      PROVE  OwnedOnce' /\ OwnedMarked' /\ EntriesDistinct'
  <2>1. PICK j : /\ StepAt(t, s, j) /\ t \in All /\ job[t] = Idle /\ j.op = "write"
                 /\ Finds(s, i, j) \/ \E b \in FreeBlocks(used) : Takes(s, i, j, b)
    BY <1>1, WriteBegins
  <2>2. mounted /\ UNCHANGED <<table, disk, mounted, lost>>
    BY <1>1 DEF WriteBegin
  <2>3. OwnedOnce /\ OwnedMarked /\ EntriesDistinct /\ table[s] \in Entry /\ j.slot = s
    BY <2>1, <2>2 DEF StepAt, Owned, Typed, TypeOK
  <2>4. EntriesDistinct'
    BY <2>1, <2>2, <2>3, StepDistinct
  <2>5. ~Works(job[t], s)
    BY <2>1, NotWorking
  <2>6. CASE Finds(s, i, j)
    <3>1. ~Works(j, s) /\ used' = used
      BY <2>6 DEF Works, Finds
    <3>2. \A k \in Idx : \A b : Has(table'[s], j, s, k, b) => Has(table[s], job[t], s, k, b)
      BY <2>2, <2>5, <3>1 DEF Has
    <3> QED
      BY <2>1, <2>2, <2>3, <2>4, <3>1, <3>2, OwnsKept
  <2>7. ASSUME NEW b0 \in FreeBlocks(used), Takes(s, i, j, b0)
        PROVE  OwnedOnce' /\ OwnedMarked' /\ EntriesDistinct'
    <3>1. Works(j, s) /\ used' = used \cup {b0} /\ b0 \notin used
      BY <2>1, <2>3, <2>7 DEF Works, Takes, FreeBlocks
    <3>2. j.fe.blocks[i] = b0 /\ \A k \in Idx \ {i} : j.fe.blocks[k] = table[s].blocks[k]
      BY <2>3, <2>7 DEF Takes, Entry
    <3>3. \A k \in Idx : \A b :
            Has(table'[s], j, s, k, b) => Has(table[s], job[t], s, k, b) \/ (k = i /\ b = b0)
      BY <2>2, <2>5, <3>1, <3>2 DEF Has, HasCopied
    <3> QED
      BY <2>1, <2>2, <2>3, <2>4, <3>1, <3>3, OwnsGained
  <2> QED
    BY <2>1, <2>6, <2>7
<1>2. CASE WriteStore(t)
  <2>1. PICK s \in Slots, j \in Job :
           /\ StepAt(t, s, j) /\ t \in All /\ job[t].op = "write" /\ job[t].at = "store"
           /\ Wrote(s, job[t].fe) /\ job[t].fe \in Entry /\ job[t].slot = s
           /\ j.op = "write" /\ j.at = "grow"
    BY <1>2, WriteStores
  <2>2. UNCHANGED <<mounted, used, disk>>
    BY <1>2 DEF WriteStore
  <2>3. ~overlap /\ ~lost /\ CopiesTrue
    BY <2>1, Alone DEF Wrote
  <2>4. OwnedOnce /\ OwnedMarked /\ EntriesDistinct
    BY <2>3 DEF Owned
  <2>5. Works(job[t], s) /\ ~Works(j, s)
    BY <2>1 DEF Works
  <2>6. EntriesDistinct'
    BY <2>1, <2>2, <2>4, <2>5, CopyDistinct, StepDistinct
  <2>7. \A k \in Idx : table'[s].blocks[k] \in {0, job[t].fe.blocks[k]}
    <3>1. \A k \in Idx : table[s].blocks[k] \in {0, job[t].fe.blocks[k]}
      BY <2>1, <2>3 DEF CopiesTrue, CopyTrue
    <3> QED
      BY <2>1, <3>1 DEF Wrote
  <2>8. \A k \in Idx : \A b : Has(table'[s], j, s, k, b) => Has(table[s], job[t], s, k, b)
    BY <2>1, <2>5, <2>7 DEF Has, HasCopied
  <2> QED
    BY <2>1, <2>2, <2>4, <2>6, <2>8, OwnsKept
<1>3. CASE WriteGrow(t)
  <2>1. PICK s \in Slots :
          StepAt(t, s, Idle) /\ t \in All /\ job[t].op = "write" /\ job[t].at = "grow"
    BY <1>3, WriteGrows
  <2>2. UNCHANGED <<mounted, used, table, disk, lost>>
    BY <1>3 DEF WriteGrow
  <2>3. OwnedOnce /\ OwnedMarked /\ EntriesDistinct
    BY <2>1, <2>2 DEF StepAt, Owned
  <2>4. EntriesDistinct'
    BY <2>1, <2>2, <2>3, StepDistinct
  <2>5. ~Works(job[t], s) /\ ~Works(Idle, s)
    BY <2>1, NotWorking DEF Works
  <2>6. \A k \in Idx : \A b : Has(table'[s], Idle, s, k, b) => Has(table[s], job[t], s, k, b)
    BY <2>2, <2>5 DEF Has
  <2> QED
    BY <2>1, <2>2, <2>3, <2>4, <2>6, OwnsKept
<1> QED
  BY <1>1, <1>2, <1>3

\* The flusher.  When the write of the entry fails and no pointer is lost,
\* nothing was given back
LEMMA UpdatesOwned ==
  ASSUME Typed, Copies, Owned, (\E s \in Slots : UpdateBegin(s)) \/ UpdatePut \/ UpdateStore
  PROVE  Owned'
<1> SUFFICES ASSUME ~overlap', ~lost' PROVE OwnedOnce' /\ OwnedMarked' /\ EntriesDistinct'
  BY DEF Owned
<1>1. ASSUME NEW s \in Slots, UpdateBegin(s) PROVE OwnedOnce' /\ OwnedMarked' /\ EntriesDistinct'
  <2>1. PICK j : /\ StepAt(Flusher, s, j) /\ Flusher \in All /\ job[Flusher] = Idle /\ j.op = "update"
                 /\ j.fe = [table[s] EXCEPT !.size = isize[s]]
    BY <1>1, UpdateBegins
  <2>2. UNCHANGED <<mounted, used, table, disk, lost>>
    BY <1>1 DEF UpdateBegin
  <2>3. OwnedOnce /\ OwnedMarked /\ EntriesDistinct /\ table[s] \in Entry
    BY <2>1, <2>2 DEF StepAt, Owned, Typed, TypeOK
  <2>4. EntriesDistinct'
    BY <2>1, <2>2, <2>3, StepDistinct
  <2>5. ~Works(job[Flusher], s) /\ \A k \in Idx : j.fe.blocks[k] = table[s].blocks[k]
    BY <2>1, <2>3, NotWorking DEF Entry
  <2>6. \A k \in Idx : \A b : Has(table'[s], j, s, k, b) => Has(table[s], job[Flusher], s, k, b)
    BY <2>2, <2>5 DEF Has, HasCopied
  <2> QED
    BY <2>1, <2>2, <2>3, <2>4, <2>6, OwnsKept
<1>2. CASE UpdatePut
  <2>1. PICK s \in Slots, i \in Idx, j \in Job :
           /\ StepAt(Flusher, s, j) /\ Flusher \in All /\ job[Flusher].op = "update"
           /\ job[Flusher].at = "put" /\ job[Flusher].slot = s
           /\ used' = used \ {job[Flusher].fe.blocks[i]} /\ job[Flusher].fe.blocks[i] # 0
           /\ j.op = "update" /\ j.fe = [job[Flusher].fe EXCEPT !.blocks[i] = 0]
           /\ job[Flusher].fe \in Entry
    BY <1>2, UpdatePuts
  <2>2. UNCHANGED <<mounted, table, disk, lost>>
    BY <1>2 DEF UpdatePut
  <2>3. OwnedOnce /\ OwnedMarked /\ EntriesDistinct
    BY <2>1, <2>2 DEF StepAt, Owned
  <2>4. EntriesDistinct'
    BY <2>1, <2>2, <2>3, StepDistinct
  <2>5. Works(job[Flusher], s) /\ Works(j, s)
    <3>1. j.at = "put" /\ j.slot = s
      BY <2>1 DEF StepAt, ShapeOf
    <3> QED
      BY <2>1, <3>1 DEF Works
  <2>6. j.fe.blocks[i] = 0 /\ \A k \in Idx \ {i} : j.fe.blocks[k] = job[Flusher].fe.blocks[k]
    BY <2>1 DEF Entry
  <2>7. PICK b0 : b0 = job[Flusher].fe.blocks[i]
    OBVIOUS
  <2>8. Has(table[s], job[Flusher], s, i, b0)
    BY <2>1, <2>5, <2>7 DEF Has, HasCopied
  <2>9. \A k \in Idx : \A b :
          Has(table'[s], j, s, k, b) => Has(table[s], job[Flusher], s, k, b) /\ k # i
    BY <2>1, <2>5, <2>6 DEF Has, HasCopied
  <2> QED
    BY <2>1, <2>2, <2>3, <2>4, <2>7, <2>8, <2>9, OwnsDropped
<1>3. CASE UpdateStore
  <2>1. PICK s \in Slots :
           /\ StepAt(Flusher, s, Idle) /\ Flusher \in All /\ job[Flusher].op = "update"
           /\ job[Flusher].at = "put" /\ job[Flusher].slot = s
           /\ Wrote(s, job[Flusher].fe) /\ job[Flusher].fe \in Entry
    BY <1>3, UpdateStores
  <2>2. UNCHANGED <<mounted, used, disk>>
    BY <1>3 DEF UpdateStore
  <2>3. ~overlap /\ ~lost /\ CopiesTrue
    BY <2>1, Alone DEF Wrote
  <2>4. OwnedOnce /\ OwnedMarked /\ EntriesDistinct
    BY <2>3 DEF Owned
  <2>5. Works(job[Flusher], s) /\ ~Works(Idle, s)
    BY <2>1, NotWorking DEF Works
  <2>6. EntriesDistinct'
    BY <2>1, <2>2, <2>4, <2>5, CopyDistinct, StepDistinct
  <2>7. ASSUME NEW k \in Idx, table'[s].blocks[k] # 0
        PROVE  job[Flusher].fe.blocks[k] = table'[s].blocks[k]
    <3>1. CASE table'[s] = job[Flusher].fe
      BY <3>1
    <3>2. CASE table'[s] = table[s] /\ Held(table[s]) \subseteq Held(job[Flusher].fe)
      <4>1. table[s].blocks[k] \in Held(job[Flusher].fe)
        BY <2>7, <3>2 DEF Held
      <4>2. PICK m \in Idx : job[Flusher].fe.blocks[m] = table[s].blocks[k]
        BY <4>1 DEF Held
      <4>3. job[Flusher].fe.blocks[m] \in {0, table[s].blocks[m]}
        BY <2>1, <2>3 DEF CopiesTrue, CopyTrue, Fewer
      <4>4. m = k
        BY <2>4, <2>7, <3>2, <4>2, <4>3 DEF EntriesDistinct, Distinct
      <4> QED
        BY <3>2, <4>2, <4>4
    <3> QED
      BY <2>1, <3>1, <3>2 DEF Wrote
  <2>8. \A k \in Idx : \A b : Has(table'[s], Idle, s, k, b) => Has(table[s], job[Flusher], s, k, b)
    BY <2>1, <2>5, <2>7 DEF Has, HasCopied
  <2> QED
    BY <2>1, <2>2, <2>4, <2>6, <2>8, OwnsKept
<1> QED
  BY <1>1, <1>2, <1>3

\* sfs_remove
LEMMA UnlinksOwned ==
  ASSUME Typed, Copies, Owned, NEW t \in Tasks,
         (\E fn \in Names : UnlinkBegin(t, fn)) \/ UnlinkPut(t) \/ UnlinkStore(t)
  PROVE  Owned'
<1> SUFFICES ASSUME ~overlap', ~lost' PROVE OwnedOnce' /\ OwnedMarked' /\ EntriesDistinct'
  BY DEF Owned
<1>1. ASSUME NEW fn \in Names, UnlinkBegin(t, fn)
      PROVE  OwnedOnce' /\ OwnedMarked' /\ EntriesDistinct'
  <2>1. PICK s \in Slots, j \in Job :
          /\ StepAt(t, s, j) /\ t \in All /\ job[t] = Idle /\ j.op = "unlink" /\ j.i = 0
          /\ j.fe = table[s]
    BY <1>1, UnlinkBegins
  <2>2. UNCHANGED <<mounted, used, table, disk, lost>>
    BY <1>1 DEF UnlinkBegin
  <2>3. OwnedOnce /\ OwnedMarked /\ EntriesDistinct
    BY <2>1, <2>2 DEF StepAt, Owned
  <2>4. EntriesDistinct'
    BY <2>1, <2>2, <2>3, StepDistinct
  <2>5. ~Works(job[t], s)
    BY <2>1, NotWorking
  <2>6. \A k \in Idx : \A b : Has(table'[s], j, s, k, b) => Has(table[s], job[t], s, k, b)
    BY <2>1, <2>2, <2>5 DEF Has, HasCopied
  <2> QED
    BY <2>1, <2>2, <2>3, <2>4, <2>6, OwnsKept
<1>2. CASE UnlinkPut(t)
  <2>1. PICK s \in Slots, i \in Idx, j \in Job :
           /\ StepAt(t, s, j) /\ t \in All /\ job[t].op = "unlink"
           /\ job[t].at = "put" /\ job[t].slot = s
           /\ used' = used \ {job[t].fe.blocks[i]}
           /\ job[t].i = i /\ job[t].fe.blocks[i] # 0
           /\ j.op = "unlink" /\ j.fe = job[t].fe /\ j.i = i + 1
    BY <1>2, UnlinkPuts
  <2>2. UNCHANGED <<mounted, table, disk, lost>>
    BY <1>2 DEF UnlinkPut
  <2>3. OwnedOnce /\ OwnedMarked /\ EntriesDistinct
    BY <2>1, <2>2 DEF StepAt, Owned
  <2>4. EntriesDistinct'
    BY <2>1, <2>2, <2>3, StepDistinct
  <2>5. Works(job[t], s) /\ Works(j, s)
    <3>1. j.at = "put" /\ j.slot = s
      BY <2>1 DEF StepAt, ShapeOf
    <3> QED
      BY <2>1, <3>1 DEF Works
  <2>6. PICK b0 : b0 = job[t].fe.blocks[i]
    OBVIOUS
  <2>7. \A k \in Idx : (i <= i) /\ (i + 1 <= k => i <= k /\ k # i)
    BY DEF Idx
  <2>8. Has(table[s], job[t], s, i, b0)
    BY <2>1, <2>5, <2>6, <2>7 DEF Has, HasCopied
  <2>9. \A k \in Idx : \A b :
          Has(table'[s], j, s, k, b) => Has(table[s], job[t], s, k, b) /\ k # i
    BY <2>1, <2>5, <2>7 DEF Has, HasCopied
  <2> QED
    BY <2>1, <2>2, <2>3, <2>4, <2>6, <2>8, <2>9, OwnsDropped
<1>3. CASE UnlinkStore(t)
  <2>1. PICK s \in Slots : StepAt(t, s, Idle) /\ t \in All /\ Wrote(s, EmptyEntry)
    BY <1>3, UnlinkStores
  <2>2. UNCHANGED <<mounted, used, disk>>
    BY <1>3 DEF UnlinkStore
  <2>3. ~overlap /\ ~lost
    BY <2>1, Alone DEF Wrote
  <2>4. OwnedOnce /\ OwnedMarked /\ EntriesDistinct
    BY <2>3 DEF Owned
  <2>5. EntriesDistinct'
    BY <2>1, <2>2, <2>4, FreshDistinct, StepDistinct
  <2>6. Held(table'[s]) = {}
    BY <2>1, FreshHold DEF Wrote
  <2>7. \A k \in Idx : \A b : ~Has(table'[s], Idle, s, k, b)
    BY <2>6, NotWorking DEF Has, Held
  <2> QED
    BY <2>1, <2>2, <2>4, <2>5, <2>7, OwnsKept
<1> QED
  BY <1>1, <1>2, <1>3

\* sfs_create
LEMMA CreateOwned ==
  ASSUME Typed, Copies, Owned, NEW t \in Tasks, NEW fn \in Names, Create(t, fn)
  PROVE  Owned'
<1> SUFFICES ASSUME ~overlap', ~lost' PROVE OwnedOnce' /\ OwnedMarked' /\ EntriesDistinct'
  BY DEF Owned
<1>1. PICK s \in Slots : StepAt(t, s, Idle) /\ t \in All /\ Wrote(s, NewEntry(fn))
  BY Creates
<1>2. UNCHANGED <<mounted, used, disk>>
  BY DEF Create
<1>3. ~overlap /\ ~lost
  BY <1>1, Alone DEF Wrote
<1>4. OwnedOnce /\ OwnedMarked /\ EntriesDistinct
  BY <1>3 DEF Owned
<1>5. EntriesDistinct'
  BY <1>1, <1>2, <1>4, FreshDistinct, StepDistinct
<1>6. Held(table'[s]) = {}
  BY <1>1, FreshHold DEF Wrote
<1>7. \A k \in Idx : \A b : ~Has(table'[s], Idle, s, k, b)
  BY <1>6, NotWorking DEF Has, Held
<1> QED
  BY <1>1, <1>2, <1>4, <1>5, <1>7, OwnsKept

-----------------------------------------------------------------------------
(* While no entry write has failed: what the tracker marks is owned, and   *)
(* entries and sizes fit, so that a mount finds every block                *)

Covers(e, size) == \A i \in Idx : i * BlockSize < size => e.blocks[i] # 0
Packs(e)        == \A i, k \in Idx : i < k /\ e.blocks[k] # 0 => e.blocks[i] # 0

MarkedOwned ==
  mounted => /\ MetaBlocks \subseteq used
             /\ \A b \in used : b \in MetaBlocks \/ \E s \in Slots, i \in Idx : Owns(s, i, b)

EntriesSound == \A s \in Slots : EntrySound(table[s]) /\ EntrySound(disk[s])

\* The file of an inode is there, and has the blocks of its size
SizeSound(e, size) == size # None => Live(e) /\ Covers(e, size)
SizesSound == \A s \in Slots : SizeSound(table[s], isize[s])

\* What handlers are going to write is sound, too
JobSound(j, e, size) ==
  /\ j.op = "write" => Live(e)
  /\ j.op = "write" /\ j.at = "store" => j.fe.size = e.size /\ Packs(j.fe) /\ Covers(j.fe, j.size)
  /\ j.op = "write" /\ j.at = "grow" => Covers(e, j.size)
  /\ j.op = "update" =>
       /\ j.fe.size = j.size /\ size <= j.size /\ Covers(e, j.size)
       /\ \A i \in Idx : i * BlockSize < j.size => j.fe.blocks[i] = e.blocks[i]

JobsSound ==
  \A t \in All : job[t].op # "none" =>
    JobSound(job[t], table[job[t].slot], isize[job[t].slot])

Sound == ~overlap /\ ~lost /\ ~failed => MarkedOwned /\ EntriesSound /\ SizesSound /\ JobsSound

RaceInv == Typed /\ Copies /\ Owned /\ Sound

\* At rest blocks are owned by the entries of the table
LEMMA QuietOwns ==
  ASSUME Quiet
  PROVE  \A s \in Slots, i \in Idx : \A b : Owns(s, i, b) <=> b # 0 /\ table[s].blocks[i] = b
BY NotWorking DEF Quiet, Owns

\* A block that an entry points to is owned by it, unless the handler at work
\* on the entry has given it back
LEMMA HeldOwned ==
  ASSUME Typed, CopiesTrue, NEW s \in Slots, NEW b \in Held(table[s])
  PROVE  b \in PutAlready(s) \/ \E i \in Idx : Owns(s, i, b)
<1>1. PICK k \in Idx : table[s].blocks[k] = b /\ b # 0
  BY DEF Held
<1>2. CASE \A t \in All : ~Works(job[t], s)
  BY <1>1, <1>2 DEF Owns
<1>3. ASSUME NEW t \in All, Works(job[t], s)
      PROVE  b \in PutAlready(s) \/ \E i \in Idx : Owns(s, i, b)
  <2>1. job[t].op # "none" /\ job[t].at # "grow" /\ job[t].slot = s
    BY <1>3 DEF Works
  <2>2. job[t] \in Job /\ ShapeOf(t, job[t]) /\ CopyTrue(job[t], table[s])
    BY <2>1, AtWork DEF CopiesTrue
  <2>3. job[t].op \in {"write", "update", "unlink"} /\ job[t].i \in Nat
    <3>1. BlockCnt \in Nat
      BY LayoutAssumption
    <3> QED
      BY <2>1, <2>2, <3>1 DEF Job, Ops
  <2>4. CASE job[t].op = "write"
    <3>1. job[t].at = "store" /\ job[t].fe.blocks[k] = b
      BY <1>1, <2>1, <2>2, <2>4 DEF ShapeOf, CopyTrue
    <3> QED
      BY <1>1, <1>3, <2>4, <3>1 DEF Owns, HasCopied
  <2>5. CASE job[t].op = "unlink"
    <3>1. job[t].fe.blocks[k] = b
      BY <1>1, <2>2, <2>5 DEF CopyTrue
    <3>2. CASE k < job[t].i
      BY <2>1, <2>5, <3>1, <3>2 DEF PutAlready
    <3>3. CASE job[t].i <= k
      BY <1>1, <1>3, <3>1, <3>3 DEF Owns, HasCopied
    <3> QED
      BY <2>3, <3>2, <3>3 DEF Idx
  <2>6. CASE job[t].op = "update"
    <3>1. job[t].at = "put"
      BY <2>2, <2>6 DEF ShapeOf
    <3>2. CASE b \in Held(job[t].fe)
      <4>1. PICK m \in Idx : job[t].fe.blocks[m] = b
        BY <3>2 DEF Held
      <4> QED
        BY <1>1, <1>3, <2>6, <4>1 DEF Owns, HasCopied
    <3>3. CASE b \notin Held(job[t].fe)
      BY <2>1, <2>6, <3>1, <3>3 DEF PutAlready
    <3> QED
      BY <3>2, <3>3
  <2> QED
    BY <2>3, <2>4, <2>5, <2>6
<1> QED
  BY <1>2, <1>3

\* A block of the disk's entry is owned, unless a release is pending
LEMMA DiskOwned ==
  ASSUME Typed, CopiesTrue, NEW s \in Slots, ~ReleasePending(s), NEW b \in Held(disk[s])
  PROVE  \E i \in Idx : Owns(s, i, b)
<1>1. b \in Held(table[s])
  BY DEF ReleasePending
<1>2. b \notin PutAlready(s)
  <2> SUFFICES ASSUME b \in PutAlready(s) PROVE FALSE
    OBVIOUS
  <2>1. PICK t \in All : job[t].slot = s /\ (job[t].op = "unlink" \/ job[t].op = "update")
    BY DEF PutAlready
  <2>2. job[t].at = "put"
    BY <2>1, AtWork DEF ShapeOf
  <2> QED
    BY <2>1, <2>2 DEF ReleasePending
<1> QED
  BY <1>1, <1>2, HeldOwned

\* A crash that loses nothing leaves entries that share no block
LEMMA CrashOwned ==
  ASSUME RaceInv, Crash
  PROVE  Owned'
<1> SUFFICES ASSUME ~overlap', ~lost' PROVE OwnedOnce' /\ OwnedMarked' /\ EntriesDistinct'
  BY DEF Owned
<1>1. Typed /\ ~overlap /\ ~lost /\ \A s \in Slots : ~ReleasePending(s)
  <2>1. lost' = (lost \/ \E s \in Slots : ReleasePending(s))
    BY DEF Crash
  <2>2. ~lost /\ \A s \in Slots : ~ReleasePending(s)
    BY ONLY <2>1, ~lost', Zenon
  <2> QED
    BY <2>2 DEF Crash, RaceInv
<1>2. CopiesTrue /\ OwnedOnce /\ EntriesDistinct
  BY <1>1 DEF RaceInv, Copies, Owned
<1>3. \A t \in All : job'[t] = Idle
  BY DEF Crash
<1>4. ASSUME NEW s \in Slots, NEW i \in Idx, NEW b, Owns(s, i, b)'
      PROVE  b # 0 /\ disk[s].blocks[i] = b
  BY <1>3, <1>4, NotWorking DEF Owns, Crash
<1>5. ASSUME NEW s \in Slots, NEW r \in Slots, NEW i \in Idx, NEW k \in Idx, NEW b,
             Owns(s, i, b)', Owns(r, k, b)'
      PROVE  s = r /\ i = k
  <2>1. b # 0 /\ disk[s].blocks[i] = b /\ disk[r].blocks[k] = b
    BY <1>4, <1>5
  <2>2. b \in Held(disk[s]) /\ b \in Held(disk[r])
    BY <2>1 DEF Held
  <2>3. PICK m \in Idx : Owns(s, m, b)
    BY <1>1, <1>2, <2>2, DiskOwned
  <2>4. PICK n \in Idx : Owns(r, n, b)
    BY <1>1, <1>2, <2>2, DiskOwned
  <2>5. s = r
    BY <1>2, <2>3, <2>4 DEF OwnedOnce
  <2> QED
    BY <1>2, <2>1, <2>5 DEF EntriesDistinct, Distinct
<1>6. OwnedOnce'
  BY <1>5 DEF OwnedOnce
<1>7. OwnedMarked'
  BY DEF OwnedMarked, Crash
<1>8. EntriesDistinct'
  BY <1>2 DEF EntriesDistinct, Crash
<1> QED
  BY <1>6, <1>7, <1>8

\* The mounted tracker has the blocks of the table, no more and no fewer
LEMMA MountMarks ==
  ASSUME RaceInv, ~overlap, ~lost, ~failed
  PROVE  \A b : b \in MarkedBlocks(table) <=>
           b \in MetaBlocks \/ \E s \in Slots, i \in Idx : b # 0 /\ b = table[s].blocks[i]
<1>1. table \in [Slots -> Entry] /\ \A s \in Slots : EntrySound(table[s])
  BY DEF RaceInv, Typed, TypeOK, Sound, EntriesSound
<1>2. MarkedBlocks(table) = MetaBlocks \cup UNION {Held(table[s]) : s \in Slots}
  BY <1>1, MarkedIsHeld
<1>3. \A b : b \in UNION {Held(table[s]) : s \in Slots}
               <=> \E s \in Slots, i \in Idx : b # 0 /\ b = table[s].blocks[i]
  BY DEF Held
<1> QED
  BY <1>2, <1>3

\* Only a mount has something to do: it marks what is owned
LEMMA AsideOwned ==
  ASSUME RaceInv, Aside
  PROVE  Owned'
<1> SUFFICES ASSUME ~overlap', ~lost' PROVE OwnedOnce' /\ OwnedMarked' /\ EntriesDistinct'
  BY DEF Owned
<1>1. UNCHANGED <<scene, table, job, overlap, failed>>
  BY AsideKeeps
<1>2. \A s, i, b : Owns(s, i, b)' <=> Owns(s, i, b)
  BY <1>1 DEF Owns
<1>3. ~lost
  BY AsideLost
<1>4. OwnedOnce /\ OwnedMarked /\ EntriesDistinct
  BY <1>1, <1>3 DEF RaceInv, Owned
<1>5. OwnedOnce'
  BY <1>2, <1>4 DEF OwnedOnce
<1>6. OwnedMarked'
  <2>1. CASE Mount
    <3>1. ~failed /\ Quiet /\ ~overlap
      <4>1. lost' = (lost \/ failed) /\ ~mounted
        BY <2>1 DEF Mount
      <4>2. ~failed
        BY ONLY <4>1, ~lost', Zenon
      <4> QED
        BY <1>1, <4>1, <4>2 DEF RaceInv, Typed, Shapes
    <3>2. used' = MarkedBlocks(table)
      BY <2>1 DEF Mount
    <3>3. \A s \in Slots, i \in Idx : \A b : Owns(s, i, b) => b \in used'
      BY <1>3, <3>1, <3>2, QuietOwns, MountMarks
    <3> QED
      BY <1>2, <3>3 DEF OwnedMarked
  <2>2. CASE Unmount
    BY <2>2 DEF OwnedMarked, Unmount
  <2>3. CASE UNCHANGED <<mounted, used>>
    BY <1>2, <1>4, <2>3 DEF OwnedMarked
  <2> QED
    BY <2>1, <2>2, <2>3 DEF Aside, Truncate, UpdateFails, Flush, OpenDir, CloseDir, ReadDir, vars
<1>7. EntriesDistinct'
  <2>1. ASSUME NEW s \in Slots, Flush(s) PROVE \A r \in Slots : disk'[r] \in {disk[r], table[r]}
    BY <2>1 DEF Flush, RaceInv, Typed, TypeOK
  <2>2. CASE Unmount
    BY <1>1, <1>4, <2>2 DEF EntriesDistinct, Unmount
  <2>3. CASE UNCHANGED disk
    BY <1>1, <1>4, <2>3 DEF EntriesDistinct
  <2>4. CASE \A r \in Slots : disk'[r] \in {disk[r], table[r]}
    BY <1>1, <1>4, <2>4 DEF EntriesDistinct
  <2> QED
    BY <2>1, <2>2, <2>3, <2>4 DEF Aside, Truncate, UpdateFails, OpenDir, CloseDir, ReadDir, Mount, vars
<1> QED
  BY <1>5, <1>6, <1>7

\* Every step keeps blocks owned once, and owned blocks marked
LEMMA NextOwned == RaceInv /\ [Next]_vars => Owned'
BY WritesOwned, UpdatesOwned, UnlinksOwned, CreateOwned, CrashOwned, AsideOwned
   DEF Next, Aside, RaceInv

\* What is marked stays owned in a step at entry s
LEMMA MarkedAt ==
  ASSUME Typed, Copies, MarkedOwned, NEW t \in All, NEW s \in Slots, NEW j,
         StepAt(t, s, j), ~overlap', mounted, MetaBlocks \subseteq used',
         \A b \in used' : b \in used \/ \E i \in Idx : Has(table'[s], j, s, i, b),
         \A i \in Idx : \A b \in used' : Has(table[s], job[t], s, i, b) => Has(table'[s], j, s, i, b)
  PROVE  MarkedOwned'
<1> SUFFICES ASSUME NEW b \in used', b \notin MetaBlocks
             PROVE  \E r \in Slots, i \in Idx : Owns(r, i, b)'
  BY DEF MarkedOwned
<1>1. CASE b \in used
  <2>1. PICK r \in Slots, i \in Idx : Owns(r, i, b)
    BY <1>1 DEF MarkedOwned
  <2>2. CASE r = s
    <3>1. Has(table[s], job[t], s, i, b)
      BY <2>1, <2>2, OwnsAt
    <3>2. Has(table'[s], j, s, i, b)
      BY <3>1
    <3>3. Owns(s, i, b)'
      BY <3>2, OwnsAt
    <3> QED
      BY <3>3
  <2>3. CASE r # s
    <3>1. Owns(r, i, b)'
      BY <2>1, <2>3, OwnsAt
    <3> QED
      BY <3>1
  <2> QED
    BY <2>2, <2>3
<1>2. ASSUME NEW i \in Idx, Has(table'[s], j, s, i, b) PROVE \E r \in Slots, k \in Idx : Owns(r, k, b)'
  <2>1. Owns(s, i, b)'
    BY <1>2, OwnsAt
  <2> QED
    BY <2>1
<1> QED
  BY <1>1, <1>2

\* The entry, the size and the handler of a step at s have to be sound; the others are
LEMMA SoundAt ==
  ASSUME Typed, Copies, EntriesSound, SizesSound, JobsSound, NEW t \in All, NEW s \in Slots, NEW j,
         StepAt(t, s, j), ~overlap', disk' = disk,
         \A r \in Slots \ {s} : isize'[r] = isize[r],
         EntrySound(table'[s]), SizeSound(table'[s], isize'[s]),
         j.op # "none" => JobSound(j, table'[s], isize'[s])
  PROVE  EntriesSound' /\ SizesSound' /\ JobsSound'
<1>1. /\ job'[t] = j
      /\ \A u \in All \ {t} : job'[u] = job[u] /\ (job[u].op # "none" => job[u].slot # s)
  BY Alone
<1>2. \A r \in Slots \ {s} : table'[r] = table[r]
  BY DEF StepAt
<1>3. EntriesSound' /\ SizesSound'
  BY <1>2 DEF EntriesSound, SizesSound
<1>4. ASSUME NEW u \in All, job'[u].op # "none"
      PROVE  JobSound(job'[u], table'[job'[u].slot], isize'[job'[u].slot])
  <2>1. CASE u = t
    <3>1. job'[u] = j /\ j.slot = s
      BY <1>1, <1>4, <2>1 DEF StepAt
    <3> QED
      BY <1>4, <3>1
  <2>2. CASE u # t
    <3>1. job'[u] = job[u] /\ job[u].slot \in Slots \ {s}
      BY <1>1, <1>4, <2>2, AtWork
    <3> QED
      BY <1>2, <1>4, <3>1 DEF JobsSound
  <2> QED
    BY <2>1, <2>2
<1>5. JobsSound'
  BY <1>4 DEF JobsSound
<1> QED
  BY <1>3, <1>5

\* What a step may rely on
LEMMA SoundBefore ==
  ASSUME RaceInv, NEW t \in All, NEW s \in Slots, NEW j, StepAt(t, s, j), ~overlap', ~lost, ~failed
  PROVE  /\ Typed /\ Copies /\ CopiesTrue /\ ~overlap
         /\ OwnedOnce /\ MarkedOwned /\ EntriesSound /\ SizesSound /\ JobsSound
         /\ table[s] \in Entry /\ EntrySound(table[s]) /\ SizeSound(table[s], isize[s])
         /\ job[t].op # "none" => /\ CopyTrue(job[t], table[s]) /\ JobSound(job[t], table[s], isize[s])
                                  /\ mounted
<1>1. Typed /\ Copies /\ ~overlap /\ CopiesTrue
  BY Alone DEF RaceInv
<1>2. OwnedOnce /\ MarkedOwned /\ EntriesSound /\ SizesSound /\ JobsSound
  BY <1>1 DEF RaceInv, Owned, Sound
<1>3. job[t].op # "none" => job[t].slot = s
  BY DEF StepAt
<1>4. table[s] \in Entry /\ EntrySound(table[s]) /\ SizeSound(table[s], isize[s])
  BY <1>1, <1>2 DEF Typed, TypeOK, EntriesSound, SizesSound
<1>5. job[t].op # "none" => mounted
  BY <1>1, WorkMounted
<1> QED
  BY <1>1, <1>2, <1>3, <1>4, <1>5 DEF CopiesTrue, JobsSound

\* Blocks below the end of a write that begins within the file: those of the
\* file and the one written
LEMMA WrittenBlocks ==
  ASSUME NEW i \in Idx, NEW size \in 1..MaxSize, size <= (i + 1) * BlockSize,
         NEW k \in Idx, k * BlockSize < size
  PROVE  k = i \/ k * BlockSize < i * BlockSize
<1>1. i \in Nat /\ k \in Nat /\ BlockSize \in Nat \ {0} /\ size \in Nat
  BY LayoutAssumption DEF Idx
<1>2. (i + 1) * BlockSize = i * BlockSize + BlockSize
  BY <1>1
<1>3. i * BlockSize \in Nat /\ k * BlockSize \in Nat
  BY <1>1
<1>4. ~(i < k)
  <2> SUFFICES ASSUME i < k PROVE FALSE
    OBVIOUS
  <2>1. i * BlockSize + BlockSize <= k * BlockSize
    BY StartsOrdered
  <2> QED
    BY <1>1, <1>2, <1>3, <2>1
<1>5. k < i => k * BlockSize + BlockSize <= i * BlockSize
  BY StartsOrdered
<1> QED
  BY <1>1, <1>3, <1>4, <1>5

\* Pointers are to data blocks
LEMMA MetaNoData ==
  ASSUME NEW e \in Entry, NEW i \in Idx, e.blocks[i] # 0
  PROVE  e.blocks[i] \notin MetaBlocks
<1>1. e.blocks[i] \in Pointers
  BY DEF Entry
<1> QED
  BY <1>1, LayoutAssumption DEF Pointers, DataBlocks, MetaBlocks

\* A write begins within the file, so it leaves no hole
LEMMA WritesSound ==
  ASSUME RaceInv, NEW t \in Tasks,
         \/ \E s \in Slots, i \in Idx, size \in 1..MaxSize : WriteBegin(t, s, i, size)
         \/ WriteStore(t) \/ WriteGrow(t)
  PROVE  Sound'
<1> SUFFICES ASSUME ~overlap', ~lost', ~failed'
             PROVE  MarkedOwned' /\ EntriesSound' /\ SizesSound' /\ JobsSound'
  BY DEF Sound
<1>0. Typed
  BY DEF RaceInv
<1>1. ASSUME NEW s \in Slots, NEW i \in Idx, NEW size \in 1..MaxSize, WriteBegin(t, s, i, size)
      PROVE  MarkedOwned' /\ EntriesSound' /\ SizesSound' /\ JobsSound'
  <2>1. PICK j : /\ StepAt(t, s, j) /\ t \in All /\ job[t] = Idle /\ j.op = "write" /\ j.size = size
                 /\ Finds(s, i, j) \/ \E b \in FreeBlocks(used) : Takes(s, i, j, b)
    BY <1>0, <1>1, WriteBegins
  <2>2. mounted /\ UNCHANGED <<table, disk, isize, lost, failed>>
    BY <1>1 DEF WriteBegin
  <2>3. /\ Typed /\ Copies /\ MarkedOwned /\ EntriesSound /\ SizesSound /\ JobsSound
        /\ table[s] \in Entry /\ EntrySound(table[s]) /\ SizeSound(table[s], isize[s]) /\ j.slot = s
    <3>1. ~lost /\ ~failed
      BY <2>2
    <3>2. j.slot = s
      BY <2>1 DEF StepAt
    <3> QED
      BY <2>1, <3>1, <3>2, SoundBefore
  <2>4. Live(table[s]) /\ Covers(table[s], isize[s]) /\ i * BlockSize <= isize[s]
    BY <1>1, <2>3 DEF WriteBegin, SizeSound
  <2>5. i * BlockSize \in Nat /\ isize[s] \in Int /\ i \in Nat
    BY <2>3, LayoutAssumption DEF Typed, TypeOK, None, MaxSize, Idx
  <2>6. ASSUME NEW k \in Idx, k < i PROVE table[s].blocks[k] # 0
    <3>1. k * BlockSize + BlockSize <= i * BlockSize /\ k * BlockSize \in Nat /\ BlockSize \in Nat \ {0}
      BY <2>6, StartsOrdered, LayoutAssumption DEF Idx
    <3>2. k * BlockSize < isize[s]
      BY <2>4, <2>5, <3>1
    <3> QED
      BY <2>4, <3>2 DEF Covers
  <2>7. ASSUME NEW k \in Idx, k * BlockSize < size PROVE k = i \/ table[s].blocks[k] # 0
    <3>1. k = i \/ k * BlockSize < i * BlockSize
      BY <1>1, <2>7, WrittenBlocks DEF WriteBegin
    <3>2. k * BlockSize \in Nat
      BY LayoutAssumption DEF Idx
    <3> QED
      BY <2>4, <2>5, <3>1, <3>2 DEF Covers
  <2>8. ~Works(job[t], s)
    BY <2>1, NotWorking
  <2>9. CASE Finds(s, i, j)
    <3>1. ~Works(j, s) /\ used' = used
      BY <2>9 DEF Works, Finds
    <3>2. \A k \in Idx : \A b : Has(table[s], job[t], s, k, b) => Has(table'[s], j, s, k, b)
      BY <2>2, <2>8, <3>1 DEF Has
    <3>3. MarkedOwned'
      BY <2>1, <2>2, <2>3, <3>1, <3>2, MarkedAt DEF MarkedOwned
    <3>4. JobSound(j, table'[s], isize'[s])
      <4>1. Covers(table[s], size)
        BY <2>7, <2>9 DEF Finds, Covers
      <4> QED
        BY <2>1, <2>2, <2>4, <2>9, <4>1 DEF JobSound, Finds
    <3> QED
      BY <2>1, <2>2, <2>3, <3>3, <3>4, SoundAt
  <2>10. ASSUME NEW b0 \in FreeBlocks(used), Takes(s, i, j, b0)
         PROVE  MarkedOwned' /\ EntriesSound' /\ SizesSound' /\ JobsSound'
    <3>1. /\ Works(j, s) /\ used' = used \cup {b0} /\ b0 # 0
          /\ table[s].blocks[i] = 0 /\ j.at = "store"
      BY <2>1, <2>3, <2>10, LayoutAssumption DEF Works, Takes, FreeBlocks, DataBlocks
    <3>2. /\ j.fe.blocks[i] = b0 /\ \A k \in Idx \ {i} : j.fe.blocks[k] = table[s].blocks[k]
          /\ j.fe.size = table[s].size
      BY <2>3, <2>10 DEF Takes, Entry
    <3>3. \A k \in Idx : \A b : Has(table[s], job[t], s, k, b) => Has(table'[s], j, s, k, b)
      BY <2>1, <2>8, <3>1, <3>2 DEF Has, HasCopied
    <3>4. Has(table'[s], j, s, i, b0)
      BY <2>1, <3>1, <3>2 DEF Has, HasCopied
    <3>5. MarkedOwned'
      BY <2>1, <2>2, <2>3, <3>1, <3>3, <3>4, MarkedAt DEF MarkedOwned
    <3>6. Covers(j.fe, size)
      BY <2>7, <3>1, <3>2 DEF Covers
    <3>7. Packs(j.fe)
      <4> SUFFICES ASSUME NEW k \in Idx, NEW m \in Idx, k < m, j.fe.blocks[m] # 0
                   PROVE  j.fe.blocks[k] # 0
        BY DEF Packs
      <4>1. CASE m = i
        BY <2>6, <3>2, <4>1
      <4>2. CASE m # i
        BY <2>3, <3>1, <3>2, <4>2 DEF EntrySound
      <4> QED
        BY <4>1, <4>2
    <3>8. JobSound(j, table'[s], isize'[s])
      BY <2>1, <2>2, <2>4, <3>1, <3>2, <3>6, <3>7 DEF JobSound
    <3> QED
      BY <2>1, <2>2, <2>3, <3>5, <3>8, SoundAt
  <2> QED
    BY <2>1, <2>9, <2>10
<1>2. CASE WriteStore(t)
  <2>1. PICK s \in Slots, j \in Job :
           /\ StepAt(t, s, j) /\ t \in All /\ job[t].op = "write" /\ job[t].at = "store"
           /\ Wrote(s, job[t].fe) /\ job[t].fe \in Entry /\ job[t].slot = s
           /\ j.op = "write" /\ j.at = "grow" /\ j.size = job[t].size
    BY <1>0, <1>2, WriteStores
  <2>2. UNCHANGED <<used, disk, isize>>
    BY <1>2 DEF WriteStore
  <2>3. table'[s] = job[t].fe /\ ~lost /\ ~failed
    BY <2>1 DEF Wrote
  <2>4. /\ Typed /\ Copies /\ MarkedOwned /\ EntriesSound /\ SizesSound /\ JobsSound
        /\ EntrySound(table[s]) /\ SizeSound(table[s], isize[s])
        /\ CopyTrue(job[t], table[s]) /\ JobSound(job[t], table[s], isize[s]) /\ mounted
    BY <2>1, <2>3, SoundBefore
  <2>5. Works(job[t], s) /\ ~Works(j, s)
    BY <2>1 DEF Works
  <2>6. \A k \in Idx : \A b : Has(table[s], job[t], s, k, b) => Has(table'[s], j, s, k, b)
    BY <2>3, <2>5 DEF Has, HasCopied
  <2>7. MarkedOwned'
    BY <2>1, <2>2, <2>4, <2>6, MarkedAt DEF MarkedOwned
  <2>8. /\ Live(table[s]) /\ job[t].fe.size = table[s].size /\ Packs(job[t].fe)
        /\ Covers(job[t].fe, job[t].size) /\ job[t].fe.name = table[s].name
        /\ \A k \in Idx : table[s].blocks[k] # 0 => job[t].fe.blocks[k] # 0
    BY <2>1, <2>4 DEF JobSound, CopyTrue
  <2>9. EntrySound(table'[s]) /\ Live(table'[s])
    BY <2>3, <2>4, <2>8 DEF EntrySound, Live, Packs
  <2>10. SizeSound(table'[s], isize'[s])
    BY <2>2, <2>3, <2>4, <2>8, <2>9 DEF SizeSound, Covers
  <2>11. JobSound(j, table'[s], isize'[s])
    BY <2>1, <2>3, <2>8, <2>9 DEF JobSound
  <2> QED
    BY <2>1, <2>2, <2>4, <2>7, <2>9, <2>10, <2>11, SoundAt
<1>3. CASE WriteGrow(t)
  <2>1. PICK s \in Slots :
          /\ StepAt(t, s, Idle) /\ t \in All /\ job[t].op = "write" /\ job[t].at = "grow"
          /\ isize' = [isize EXCEPT ![s] = IF job[t].size > @ THEN job[t].size ELSE @]
    BY <1>0, <1>3, WriteGrows
  <2>2. UNCHANGED <<used, table, disk, lost, failed>>
    BY <1>3 DEF WriteGrow
  <2>3. /\ Typed /\ Copies /\ MarkedOwned /\ EntriesSound /\ SizesSound /\ JobsSound
        /\ EntrySound(table[s]) /\ SizeSound(table[s], isize[s])
        /\ JobSound(job[t], table[s], isize[s]) /\ mounted
    <3>1. ~lost /\ ~failed
      BY <2>2
    <3> QED
      BY <2>1, <3>1, SoundBefore
  <2>4. ~Works(job[t], s) /\ ~Works(Idle, s)
    BY <2>1, NotWorking DEF Works
  <2>5. \A k \in Idx : \A b : Has(table[s], job[t], s, k, b) => Has(table'[s], Idle, s, k, b)
    BY <2>2, <2>4 DEF Has
  <2>6. MarkedOwned'
    BY <2>1, <2>2, <2>3, <2>5, MarkedAt DEF MarkedOwned
  <2>7. Live(table[s]) /\ Covers(table[s], job[t].size)
    BY <2>1, <2>3 DEF JobSound
  <2>8. isize'[s] \in {job[t].size, isize[s]} /\ \A r \in Slots \ {s} : isize'[r] = isize[r]
    BY <1>0, <2>1 DEF Typed, TypeOK
  <2>9. SizeSound(table'[s], isize'[s])
    BY <2>2, <2>3, <2>7, <2>8 DEF SizeSound
  <2> QED
    BY <2>1, <2>2, <2>3, <2>6, <2>8, <2>9, IdleType, SoundAt
<1> QED
  BY <1>1, <1>2, <1>3

\* An update drops the pointers past the size it saves, and only those
LEMMA UpdatesSound ==
  ASSUME RaceInv, (\E s \in Slots : UpdateBegin(s)) \/ UpdatePut \/ UpdateStore
  PROVE  Sound'
<1> SUFFICES ASSUME ~overlap', ~lost', ~failed'
             PROVE  MarkedOwned' /\ EntriesSound' /\ SizesSound' /\ JobsSound'
  BY DEF Sound
<1>0. Typed
  BY DEF RaceInv
<1>1. ASSUME NEW s \in Slots, UpdateBegin(s)
      PROVE  MarkedOwned' /\ EntriesSound' /\ SizesSound' /\ JobsSound'
  <2>1. PICK j : /\ StepAt(Flusher, s, j) /\ Flusher \in All /\ job[Flusher] = Idle /\ j.op = "update"
                 /\ j.size = isize[s] /\ isize[s] \in 0..MaxSize
                 /\ j.fe = [table[s] EXCEPT !.size = isize[s]]
    BY <1>0, <1>1, UpdateBegins
  <2>2. mounted /\ UNCHANGED <<used, table, disk, isize, lost, failed>>
    BY <1>1 DEF UpdateBegin
  <2>3. /\ Typed /\ Copies /\ MarkedOwned /\ EntriesSound /\ SizesSound /\ JobsSound
        /\ table[s] \in Entry /\ EntrySound(table[s]) /\ SizeSound(table[s], isize[s])
    <3>1. ~lost /\ ~failed
      BY <2>2
    <3> QED
      BY <2>1, <3>1, SoundBefore
  <2>4. ~Works(job[Flusher], s) /\ Works(j, s)
    <3>1. j.at = "put" /\ j.slot = s
      BY <2>1 DEF StepAt, ShapeOf
    <3> QED
      BY <2>1, <3>1, NotWorking DEF Works
  <2>5. j.fe.size = isize[s] /\ \A k \in Idx : j.fe.blocks[k] = table[s].blocks[k]
    BY <2>1, <2>3 DEF Entry
  <2>6. \A k \in Idx : \A b : Has(table[s], job[Flusher], s, k, b) => Has(table'[s], j, s, k, b)
    BY <2>1, <2>4, <2>5 DEF Has, HasCopied
  <2>7. MarkedOwned'
    BY <2>1, <2>2, <2>3, <2>6, MarkedAt DEF MarkedOwned
  <2>8. isize[s] # None /\ isize[s] <= isize[s]
    BY <2>1, LayoutAssumption DEF None, MaxSize
  <2>9. JobSound(j, table'[s], isize'[s])
    BY <2>1, <2>2, <2>3, <2>5, <2>8 DEF JobSound, SizeSound
  <2> QED
    BY <2>1, <2>2, <2>3, <2>7, <2>9, SoundAt
<1>2. CASE UpdatePut
  <2>1. PICK s \in Slots, i \in Idx, j \in Job :
           /\ StepAt(Flusher, s, j) /\ Flusher \in All /\ job[Flusher].op = "update"
           /\ job[Flusher].at = "put" /\ job[Flusher].slot = s
           /\ used' = used \ {job[Flusher].fe.blocks[i]} /\ job[Flusher].fe.blocks[i] # 0
           /\ i >= BlocksNeeded(job[Flusher].size) /\ job[Flusher].size \in 0..MaxSize
           /\ j.op = "update" /\ j.fe = [job[Flusher].fe EXCEPT !.blocks[i] = 0]
           /\ j.size = job[Flusher].size /\ job[Flusher].fe \in Entry
    BY <1>0, <1>2, UpdatePuts
  <2>2. UNCHANGED <<table, disk, isize, lost, failed>>
    BY <1>2 DEF UpdatePut
  <2>3. /\ Typed /\ Copies /\ MarkedOwned /\ EntriesSound /\ SizesSound /\ JobsSound
        /\ EntrySound(table[s]) /\ SizeSound(table[s], isize[s])
        /\ JobSound(job[Flusher], table[s], isize[s]) /\ mounted
    <3>1. ~lost /\ ~failed
      BY <2>2
    <3> QED
      BY <2>1, <3>1, SoundBefore
  <2>4. Works(job[Flusher], s) /\ Works(j, s)
    <3>1. j.at = "put" /\ j.slot = s
      BY <2>1 DEF StepAt, ShapeOf
    <3> QED
      BY <2>1, <3>1 DEF Works
  <2>5. /\ j.fe.blocks[i] = 0 /\ \A k \in Idx \ {i} : j.fe.blocks[k] = job[Flusher].fe.blocks[k]
        /\ j.fe.size = job[Flusher].fe.size
    BY <2>1 DEF Entry
  <2>6. PICK b0 : b0 = job[Flusher].fe.blocks[i]
    OBVIOUS
  <2>7. b0 \notin MetaBlocks
    BY <2>1, <2>6, MetaNoData
  <2>8. \A k \in Idx : \A b \in used' : Has(table[s], job[Flusher], s, k, b) => Has(table'[s], j, s, k, b)
    BY <2>1, <2>4, <2>5 DEF Has, HasCopied
  <2>9. MetaBlocks \subseteq used' /\ used' \subseteq used
    BY <2>1, <2>3, <2>6, <2>7 DEF MarkedOwned
  <2>10. MarkedOwned'
    BY <2>1, <2>3, <2>8, <2>9, MarkedAt
  <2>11. JobSound(j, table'[s], isize'[s])
    <3>1. i * BlockSize >= job[Flusher].size
      BY <2>1, NeededIff
    <3>2. i * BlockSize \in Nat /\ job[Flusher].size \in Nat
      BY <2>1, LayoutAssumption DEF Idx, MaxSize
    <3>3. \A k \in Idx : k * BlockSize < job[Flusher].size => k # i
      BY <3>1, <3>2
    <3> QED
      BY <2>1, <2>2, <2>3, <2>5, <3>3 DEF JobSound
  <2> QED
    BY <2>1, <2>2, <2>3, <2>10, <2>11, SoundAt
<1>3. CASE UpdateStore
  <2>1. PICK s \in Slots :
           /\ StepAt(Flusher, s, Idle) /\ Flusher \in All /\ job[Flusher].op = "update"
           /\ job[Flusher].at = "put" /\ job[Flusher].slot = s
           /\ Wrote(s, job[Flusher].fe) /\ job[Flusher].fe \in Entry
           /\ \A i \in Idx : i >= BlocksNeeded(job[Flusher].size) => job[Flusher].fe.blocks[i] = 0
    BY <1>0, <1>3, UpdateStores
  <2>2. UNCHANGED <<used, disk, isize>>
    BY <1>3 DEF UpdateStore
  <2>3. table'[s] = job[Flusher].fe /\ ~lost /\ ~failed
    BY <2>1 DEF Wrote
  <2>4. /\ Typed /\ Copies /\ MarkedOwned /\ EntriesSound /\ SizesSound /\ JobsSound
        /\ EntrySound(table[s]) /\ SizeSound(table[s], isize[s])
        /\ CopyTrue(job[Flusher], table[s]) /\ JobSound(job[Flusher], table[s], isize[s]) /\ mounted
    BY <2>1, <2>3, SoundBefore
  <2>5. Works(job[Flusher], s) /\ ~Works(Idle, s)
    BY <2>1, NotWorking DEF Works
  <2>6. \A k \in Idx : \A b : Has(table[s], job[Flusher], s, k, b) => Has(table'[s], Idle, s, k, b)
    BY <2>3, <2>5 DEF Has, HasCopied
  <2>7. MarkedOwned'
    BY <2>1, <2>2, <2>4, <2>6, MarkedAt DEF MarkedOwned
  <2>8. job[Flusher] \in Job /\ job[Flusher].size \in 0..MaxSize
    <3>1. job[Flusher] \in Job
      BY <1>0, <2>1, AtWork
    <3> QED
      BY <3>1 DEF Job
  <2>9. /\ job[Flusher].fe.size = job[Flusher].size /\ isize[s] <= job[Flusher].size
        /\ Covers(table[s], job[Flusher].size)
        /\ \A k \in Idx : k * BlockSize < job[Flusher].size =>
             job[Flusher].fe.blocks[k] = table[s].blocks[k]
        /\ job[Flusher].fe.name = table[s].name /\ Fewer(table[s], job[Flusher].fe)
    BY <2>1, <2>4 DEF JobSound, CopyTrue
  <2>10. \A k \in Idx : job[Flusher].fe.blocks[k] # 0 <=> k * BlockSize < job[Flusher].size
    <3> SUFFICES ASSUME NEW k \in Idx
                 PROVE  job[Flusher].fe.blocks[k] # 0 <=> k * BlockSize < job[Flusher].size
      OBVIOUS
    <3>1. k >= BlocksNeeded(job[Flusher].size) <=> k * BlockSize >= job[Flusher].size
      BY <2>8, NeededIff
    <3>2. k * BlockSize \in Nat /\ job[Flusher].size \in Nat
      BY <2>8, LayoutAssumption DEF Idx, MaxSize
    <3>3. k * BlockSize < job[Flusher].size => job[Flusher].fe.blocks[k] # 0
      BY <2>9 DEF Covers
    <3>4. k * BlockSize >= job[Flusher].size => job[Flusher].fe.blocks[k] = 0
      BY <2>1, <3>1
    <3> QED
      BY <3>2, <3>3, <3>4
  <2>11. EntrySound(table'[s])
    <3>1. Packs(job[Flusher].fe)
      <4> SUFFICES ASSUME NEW k \in Idx, NEW m \in Idx, k < m, job[Flusher].fe.blocks[m] # 0
                   PROVE  job[Flusher].fe.blocks[k] # 0
        BY DEF Packs
      <4>1. k * BlockSize + BlockSize <= m * BlockSize /\ m * BlockSize < job[Flusher].size
        BY <2>10, StartsOrdered
      <4>2. /\ k * BlockSize \in Nat /\ m * BlockSize \in Nat /\ BlockSize \in Nat
            /\ job[Flusher].size \in Nat
        BY <2>8, LayoutAssumption DEF Idx, MaxSize
      <4>3. k * BlockSize < job[Flusher].size
        BY <4>1, <4>2
      <4> QED
        BY <2>10, <4>3
    <3>2. ~Live(job[Flusher].fe) => \A k \in Idx : job[Flusher].fe.blocks[k] = 0
      BY <2>4, <2>9 DEF EntrySound, Live, Fewer
    <3> QED
      BY <2>3, <2>9, <2>10, <3>1, <3>2 DEF EntrySound, Packs
  <2>12. SizeSound(table'[s], isize'[s])
    <3> SUFFICES ASSUME isize[s] # None PROVE Live(job[Flusher].fe) /\ Covers(job[Flusher].fe, isize[s])
      BY <2>2, <2>3 DEF SizeSound
    <3>1. Live(job[Flusher].fe)
      BY <2>4, <2>9 DEF SizeSound, Live
    <3>2. ASSUME NEW k \in Idx, k * BlockSize < isize[s] PROVE job[Flusher].fe.blocks[k] # 0
      <4>1. k * BlockSize \in Nat /\ isize[s] \in Int /\ job[Flusher].size \in Nat
        BY <1>0, <2>8, LayoutAssumption DEF Idx, MaxSize, Typed, TypeOK, None
      <4>2. k * BlockSize < job[Flusher].size
        BY <2>9, <3>2, <4>1
      <4> QED
        BY <2>10, <4>2
    <3> QED
      BY <3>1, <3>2 DEF Covers
  <2> QED
    BY <2>1, <2>2, <2>4, <2>7, <2>11, <2>12, IdleType, SoundAt
<1> QED
  BY <1>1, <1>2, <1>3

\* A cleared or new entry is sound
LEMMA FreshSound == EntrySound(EmptyEntry) /\ \A fn : EntrySound(NewEntry(fn))
<1>1. \A i \in Idx : ~(i * BlockSize < 0)
  BY LayoutAssumption DEF Idx
<1> QED
  BY <1>1 DEF EntrySound, EmptyEntry, NewEntry, NoBlocks

\* A removal has given back every block when it clears the entry
LEMMA UnlinksSound ==
  ASSUME RaceInv, NEW t \in Tasks,
         (\E fn \in Names : UnlinkBegin(t, fn)) \/ UnlinkPut(t) \/ UnlinkStore(t)
  PROVE  Sound'
<1> SUFFICES ASSUME ~overlap', ~lost', ~failed'
             PROVE  MarkedOwned' /\ EntriesSound' /\ SizesSound' /\ JobsSound'
  BY DEF Sound
<1>0. Typed
  BY DEF RaceInv
<1>1. ASSUME NEW fn \in Names, UnlinkBegin(t, fn)
      PROVE  MarkedOwned' /\ EntriesSound' /\ SizesSound' /\ JobsSound'
  <2>1. PICK s \in Slots, j \in Job :
          /\ StepAt(t, s, j) /\ t \in All /\ job[t] = Idle /\ j.op = "unlink" /\ j.i = 0
          /\ j.fe = table[s]
    BY <1>0, <1>1, UnlinkBegins
  <2>2. mounted /\ UNCHANGED <<used, table, disk, isize, lost, failed>>
    BY <1>1 DEF UnlinkBegin
  <2>3. /\ Typed /\ Copies /\ MarkedOwned /\ EntriesSound /\ SizesSound /\ JobsSound
        /\ EntrySound(table[s]) /\ SizeSound(table[s], isize[s])
    <3>1. ~lost /\ ~failed
      BY <2>2
    <3> QED
      BY <2>1, <3>1, SoundBefore
  <2>4. ~Works(job[t], s) /\ \A k \in Idx : 0 <= k
    BY <2>1, NotWorking DEF Idx
  <2>5. \A k \in Idx : \A b : Has(table[s], job[t], s, k, b) => Has(table'[s], j, s, k, b)
    BY <2>1, <2>2, <2>4 DEF Has, HasCopied
  <2>6. MarkedOwned'
    BY <2>1, <2>2, <2>3, <2>5, MarkedAt DEF MarkedOwned
  <2>7. JobSound(j, table'[s], isize'[s])
    BY <2>1 DEF JobSound
  <2> QED
    BY <2>1, <2>2, <2>3, <2>6, <2>7, SoundAt
<1>2. CASE UnlinkPut(t)
  <2>1. PICK s \in Slots, i \in Idx, j \in Job :
           /\ StepAt(t, s, j) /\ t \in All /\ job[t].op = "unlink"
           /\ job[t].at = "put" /\ job[t].slot = s
           /\ used' = used \ {job[t].fe.blocks[i]}
           /\ job[t].i = i /\ job[t].fe.blocks[i] # 0
           /\ j.op = "unlink" /\ j.fe = job[t].fe /\ j.i = i + 1 /\ job[t].fe \in Entry
    BY <1>0, <1>2, UnlinkPuts
  <2>2. UNCHANGED <<table, disk, isize, lost, failed>>
    BY <1>2 DEF UnlinkPut
  <2>3. /\ Typed /\ Copies /\ MarkedOwned /\ EntriesSound /\ SizesSound /\ JobsSound
        /\ EntrySound(table[s]) /\ SizeSound(table[s], isize[s]) /\ mounted
    <3>1. ~lost /\ ~failed
      BY <2>2
    <3> QED
      BY <2>1, <3>1, SoundBefore
  <2>4. Works(job[t], s) /\ Works(j, s)
    <3>1. j.at = "put" /\ j.slot = s
      BY <2>1 DEF StepAt, ShapeOf
    <3> QED
      BY <2>1, <3>1 DEF Works
  <2>5. \A k \in Idx : i <= k /\ k # i => i + 1 <= k
    BY DEF Idx
  <2>6. PICK b0 : b0 = job[t].fe.blocks[i]
    OBVIOUS
  <2>7. b0 \notin MetaBlocks
    BY <2>1, <2>6, MetaNoData
  <2>8. \A k \in Idx : \A b \in used' : Has(table[s], job[t], s, k, b) => Has(table'[s], j, s, k, b)
    BY <2>1, <2>4, <2>5 DEF Has, HasCopied
  <2>9. MetaBlocks \subseteq used' /\ used' \subseteq used
    BY <2>1, <2>3, <2>6, <2>7 DEF MarkedOwned
  <2>10. MarkedOwned'
    BY <2>1, <2>3, <2>8, <2>9, MarkedAt
  <2>11. JobSound(j, table'[s], isize'[s])
    BY <2>1 DEF JobSound
  <2> QED
    BY <2>1, <2>2, <2>3, <2>10, <2>11, SoundAt
<1>3. CASE UnlinkStore(t)
  <2>1. PICK s \in Slots :
           /\ StepAt(t, s, Idle) /\ t \in All /\ job[t].op = "unlink"
           /\ job[t].at = "put" /\ job[t].slot = s
           /\ Wrote(s, EmptyEntry) /\ job[t].fe \in Entry /\ ~Left(t)
           /\ isize' = [isize EXCEPT ![s] = None]
           /\ job[t].i \in 0..BlockCnt
    BY <1>0, <1>3, UnlinkStores
  <2>2. UNCHANGED <<used, disk>>
    BY <1>3 DEF UnlinkStore
  <2>3. table'[s] = EmptyEntry /\ ~lost /\ ~failed
    BY <2>1 DEF Wrote
  <2>4. /\ Typed /\ Copies /\ MarkedOwned /\ EntriesSound /\ SizesSound /\ JobsSound
        /\ EntrySound(table[s]) /\ CopyTrue(job[t], table[s]) /\ mounted
    BY <2>1, <2>3, SoundBefore
  <2>5. ASSUME NEW k \in Idx, job[t].i <= k PROVE job[t].fe.blocks[k] = 0
    <3>1. k \in Nat /\ k < BlockCnt /\ job[t].i \in Nat /\ BlockCnt \in Nat
      BY <2>1, LayoutAssumption DEF Idx
    <3>2. job[t].i \in Idx /\ job[t].fe.blocks[job[t].i] = 0
      BY <2>1, <2>5, <3>1 DEF Left, Idx
    <3>3. job[t].fe = table[s]
      BY <2>1, <2>4 DEF CopyTrue
    <3>4. job[t].i < k => table[s].blocks[k] = 0
      BY <2>4, <3>2, <3>3 DEF EntrySound
    <3> QED
      BY <2>5, <3>1, <3>2, <3>3, <3>4
  <2>6. \A k \in Idx : \A b : ~Has(table[s], job[t], s, k, b)
    BY <2>1, <2>5 DEF Has, HasCopied, Works
  <2>7. MarkedOwned'
    BY <2>1, <2>2, <2>4, <2>6, MarkedAt DEF MarkedOwned
  <2>8. isize'[s] = None /\ \A r \in Slots \ {s} : isize'[r] = isize[r]
    BY <1>0, <2>1 DEF Typed, TypeOK
  <2>9. EntrySound(table'[s]) /\ SizeSound(table'[s], isize'[s])
    BY <2>3, <2>8, FreshSound DEF SizeSound
  <2> QED
    BY <2>1, <2>2, <2>4, <2>7, <2>8, <2>9, IdleType, SoundAt
<1> QED
  BY <1>1, <1>2, <1>3

\* A new file has size 0 and no block
LEMMA CreateSound ==
  ASSUME RaceInv, NEW t \in Tasks, NEW fn \in Names, Create(t, fn)
  PROVE  Sound'
<1> SUFFICES ASSUME ~overlap', ~lost', ~failed'
             PROVE  MarkedOwned' /\ EntriesSound' /\ SizesSound' /\ JobsSound'
  BY DEF Sound
<1>0. Typed
  BY DEF RaceInv
<1>1. PICK s \in Slots :
        /\ StepAt(t, s, Idle) /\ t \in All /\ job[t] = Idle /\ ~Live(table[s])
        /\ Wrote(s, NewEntry(fn)) /\ isize' = [isize EXCEPT ![s] = 0]
  BY <1>0, Creates
<1>2. mounted /\ UNCHANGED <<used, disk>>
  BY DEF Create
<1>3. table'[s] = NewEntry(fn) /\ ~lost /\ ~failed
  BY <1>1 DEF Wrote
<1>4. /\ Typed /\ Copies /\ MarkedOwned /\ EntriesSound /\ SizesSound /\ JobsSound
      /\ EntrySound(table[s])
  BY <1>1, <1>3, SoundBefore
<1>5. \A k \in Idx : \A b : ~Has(table[s], job[t], s, k, b)
  <2>1. \A k \in Idx : table[s].blocks[k] = 0
    BY <1>1, <1>4 DEF EntrySound
  <2> QED
    BY <1>1, <2>1, NotWorking DEF Has
<1>6. MarkedOwned'
  BY <1>1, <1>2, <1>4, <1>5, MarkedAt DEF MarkedOwned
<1>7. isize'[s] = 0 /\ \A r \in Slots \ {s} : isize'[r] = isize[r]
  BY <1>0, <1>1 DEF Typed, TypeOK
<1>8. EntrySound(table'[s]) /\ SizeSound(table'[s], isize'[s])
  <2>1. Live(NewEntry(fn))
    BY NamesAssumption DEF Live, NewEntry
  <2>2. \A i \in Idx : ~(i * BlockSize < 0)
    BY LayoutAssumption DEF Idx
  <2> QED
    BY <1>3, <1>7, <2>1, <2>2, FreshSound DEF SizeSound, Covers
<1> QED
  BY <1>1, <1>2, <1>4, <1>6, <1>7, <1>8, IdleType, SoundAt

\* The disk has sound entries at any time
LEMMA CrashSound ==
  ASSUME RaceInv, Crash
  PROVE  Sound'
<1> SUFFICES ASSUME ~overlap', ~lost', ~failed'
             PROVE  MarkedOwned' /\ EntriesSound' /\ SizesSound' /\ JobsSound'
  BY DEF Sound
<1>1. ~overlap /\ ~lost /\ ~failed
  <2>1. lost' = (lost \/ \E s \in Slots : ReleasePending(s))
    BY DEF Crash
  <2>2. ~lost
    BY ONLY <2>1, ~lost', Zenon
  <2> QED
    BY <2>2 DEF Crash
<1>2. EntriesSound
  BY <1>1 DEF RaceInv, Sound
<1>3. \A t \in All : job'[t].op = "none"
  BY IdleType DEF Crash
<1> QED
  BY <1>2, <1>3 DEF Crash, MarkedOwned, EntriesSound, SizesSound, SizeSound, JobsSound

\* A truncation makes a size smaller; a mount takes sizes and blocks from sound entries
LEMMA AsideSound ==
  ASSUME RaceInv, Aside
  PROVE  Sound'
<1> SUFFICES ASSUME ~overlap', ~lost', ~failed'
             PROVE  MarkedOwned' /\ EntriesSound' /\ SizesSound' /\ JobsSound'
  BY DEF Sound
<1>1. UNCHANGED <<scene, table, job, overlap, failed>>
  BY AsideKeeps
<1>2. ~overlap /\ ~lost /\ ~failed
  BY <1>1, AsideLost
<1>3. Typed /\ MarkedOwned /\ EntriesSound /\ SizesSound /\ JobsSound
  BY <1>2 DEF RaceInv, Sound
<1>4. \A s, i, b : Owns(s, i, b)' <=> Owns(s, i, b)
  BY <1>1 DEF Owns
<1>5. MarkedOwned'
  <2>1. CASE Mount
    <3>1. Quiet /\ used' = MarkedBlocks(table)
      BY <1>3, <2>1 DEF Mount, Typed, Shapes
    <3>2. ASSUME NEW b \in used', b \notin MetaBlocks PROVE \E s \in Slots, i \in Idx : Owns(s, i, b)
      <4>1. PICK s \in Slots, i \in Idx : b # 0 /\ b = table[s].blocks[i]
        BY <1>2, <3>1, <3>2, MountMarks
      <4> QED
        BY <3>1, <4>1, QuietOwns
    <3>3. MetaBlocks \subseteq used'
      BY <1>2, <3>1, MountMarks
    <3> QED
      BY <1>4, <3>2, <3>3 DEF MarkedOwned
  <2>2. CASE Unmount
    BY <2>2 DEF MarkedOwned, Unmount
  <2>3. CASE UNCHANGED <<mounted, used>>
    BY <1>3, <1>4, <2>3 DEF MarkedOwned
  <2> QED
    BY <2>1, <2>2, <2>3 DEF Aside, Truncate, UpdateFails, Flush, OpenDir, CloseDir, ReadDir, vars
<1>6. EntriesSound'
  <2>1. ASSUME NEW s \in Slots, Flush(s) PROVE \A r \in Slots : disk'[r] \in {disk[r], table[r]}
    BY <1>3, <2>1 DEF Flush, Typed, TypeOK
  <2>2. CASE Unmount
    BY <1>1, <1>3, <2>2 DEF EntriesSound, Unmount
  <2>3. CASE UNCHANGED disk
    BY <1>1, <1>3, <2>3 DEF EntriesSound
  <2>4. CASE \A r \in Slots : disk'[r] \in {disk[r], table[r]}
    BY <1>1, <1>3, <2>4 DEF EntriesSound
  <2> QED
    BY <2>1, <2>2, <2>3, <2>4 DEF Aside, Truncate, UpdateFails, OpenDir, CloseDir, ReadDir, Mount, vars
<1>7. SizesSound' /\ JobsSound'
  <2>1. ASSUME NEW t \in Tasks, NEW s \in Slots, NEW size \in 0..MaxSize, Truncate(t, s, size)
        PROVE  SizesSound' /\ JobsSound'
    <3>1. isize[s] # None /\ size < isize[s] /\ isize' = [isize EXCEPT ![s] = size]
      BY <2>1 DEF Truncate
    <3>2. isize \in [Slots -> {None} \cup 0..MaxSize] /\ size \in Nat /\ isize[s] \in Nat
      BY <1>3, <3>1, LayoutAssumption DEF Typed, TypeOK, MaxSize
    <3>3. isize'[s] = size /\ \A r \in Slots \ {s} : isize'[r] = isize[r]
      BY <3>1, <3>2
    <3>4. \A r \in Slots : isize[r] \in Int
      BY <3>2, LayoutAssumption DEF None, MaxSize
    <3>5. Covers(table[s], size)
      <4>1. Covers(table[s], isize[s])
        BY <1>3, <3>1 DEF SizesSound, SizeSound
      <4>2. \A i \in Idx : i * BlockSize \in Nat
        BY LayoutAssumption DEF Idx
      <4>3. \A i \in Idx : i * BlockSize < size => i * BlockSize < isize[s]
        BY <3>1, <3>2, <4>2
      <4> QED
        BY <4>1, <4>3 DEF Covers
    <3>6. SizesSound'
      BY <1>1, <1>3, <3>1, <3>3, <3>5 DEF SizesSound, SizeSound
    <3>7. ASSUME NEW u \in All, job[u].op # "none"
          PROVE  JobSound(job[u], table[job[u].slot], isize'[job[u].slot])
      <4>1. JobSound(job[u], table[job[u].slot], isize[job[u].slot]) /\ job[u].slot \in Slots
        BY <1>3, <3>7, AtWork DEF JobsSound
      <4>2. CASE job[u].slot # s
        BY <3>3, <4>1, <4>2
      <4>3. CASE job[u].slot = s
        <5>1. job[u].size \in Nat
          <6>1. job[u] \in Job
            BY <1>3, <3>7, AtWork
          <6> QED
            BY <6>1, LayoutAssumption DEF Job, MaxSize
        <5>2. isize[s] <= job[u].size => size <= job[u].size
          BY <3>1, <3>2, <5>1
        <5> QED
          BY <3>3, <4>1, <4>3, <5>2 DEF JobSound
      <4> QED
        BY <4>2, <4>3
    <3> QED
      BY <1>1, <3>6, <3>7 DEF JobsSound
  <2>2. CASE Mount
    <3>1. ASSUME NEW s \in Slots PROVE SizeSound(table[s], isize'[s])
      <4>1. isize'[s] = IF Live(table[s]) THEN table[s].size ELSE None
        BY <2>2 DEF Mount
      <4> QED
        BY <1>3, <4>1 DEF SizeSound, EntriesSound, EntrySound, Covers
    <3>2. \A t \in All : job'[t].op = "none"
      BY <1>1, <1>3, <2>2, IdleType DEF Mount, Typed, Shapes, Quiet
    <3> QED
      BY <1>1, <3>1, <3>2 DEF SizesSound, JobsSound
  <2>3. CASE Unmount
    <3>1. \A t \in All : job'[t].op = "none"
      BY <1>1, <2>3, IdleType DEF Unmount, Quiet
    <3> QED
      BY <1>1, <2>3, <3>1 DEF Unmount, SizesSound, SizeSound, JobsSound
  <2>4. CASE UNCHANGED isize
    BY <1>1, <1>3, <2>4 DEF SizesSound, JobsSound
  <2> QED
    BY <2>1, <2>2, <2>3, <2>4 DEF Aside, UpdateFails, Flush, OpenDir, CloseDir, ReadDir, vars
<1> QED
  BY <1>5, <1>6, <1>7

\* Every step keeps what is marked owned, and entries sound
LEMMA NextSound == RaceInv /\ [Next]_vars => Sound'
BY WritesSound, UpdatesSound, UnlinksSound, CreateSound, CrashSound, AsideSound DEF Next, Aside

\* A formatted partition has nothing in it
LEMMA InitRace == Init => RaceInv
<1> SUFFICES ASSUME Init PROVE Copies /\ Owned /\ Sound
  BY InitTyped DEF RaceInv
<1>1. (\A t \in All : job[t].op = "none") /\ Quiet
  BY IdleType DEF Init, Quiet
<1>2. Copies
  BY <1>1 DEF Copies, OneJob, CopiesTrue
<1>3. \A s \in Slots : table[s] = EmptyEntry /\ disk[s] = EmptyEntry /\ isize[s] = None
  BY DEF Init
<1>4. \A s \in Slots, i \in Idx : \A b : ~Owns(s, i, b)
  BY <1>1, <1>3, QuietOwns DEF EmptyEntry, NoBlocks
<1>5. Owned
  BY <1>3, <1>4, FreshDistinct DEF Owned, OwnedOnce, OwnedMarked, EntriesDistinct
<1>6. Sound
  BY <1>1, <1>3, FreshSound DEF Init, Sound, MarkedOwned, EntriesSound, SizesSound, SizeSound, JobsSound
<1> QED
  BY <1>2, <1>5, <1>6

\* The invariant of the interleaved handlers
LEMMA RaceInvariant == Spec => []RaceInv
<1>1. RaceInv /\ [Next]_vars => RaceInv'
  BY NextTyped, NextCopies, NextOwned, NextSound DEF RaceInv
<1> QED
  BY <1>1, InitRace, PTL DEF Spec

-----------------------------------------------------------------------------
\* Handlers that work with true copies, and lose no entry that gives blocks up,
\* never let two files point to one block, but for a block that a removal or a
\* truncation under way has put already: however they interleave, and whichever
\* entry writes fail.
THEOREM FilesShareNoBlock == Spec => []NoTwoOwners
<1>1. RaceInv => NoTwoOwners
  <2> SUFFICES ASSUME RaceInv, ~overlap, ~lost, NEW s \in LiveSlots(table), NEW r \in LiveSlots(table),
                      s # r, NEW b \in Held(table[s]) \cap Held(table[r])
               PROVE  b \in PutAlready(s) \cup PutAlready(r)
    BY DEF NoTwoOwners
  <2>1. Typed /\ CopiesTrue /\ OwnedOnce /\ s \in Slots /\ r \in Slots
    BY DEF RaceInv, Copies, Owned, LiveSlots
  <2>2. b \in PutAlready(s) \/ \E i \in Idx : Owns(s, i, b)
    BY <2>1, HeldOwned
  <2>3. b \in PutAlready(r) \/ \E i \in Idx : Owns(r, i, b)
    BY <2>1, HeldOwned
  <2> QED
    BY <2>1, <2>2, <2>3 DEF OwnedOnce
<1> QED
  BY <1>1, RaceInvariant, PTL

\* The same of the entries on the disk, in whatever order buffers reach it:
\* two share a block only while an older, larger entry is still to be overwritten.
THEOREM DiskFilesShareNoBlock == Spec => []DiskSharesOnlyPending
<1>1. RaceInv => DiskSharesOnlyPending
  <2> SUFFICES ASSUME RaceInv, ~overlap, ~lost, NEW s \in LiveSlots(disk), NEW r \in LiveSlots(disk),
                      s # r, ~ReleasePending(s), ~ReleasePending(r),
                      NEW b \in Held(disk[s]) \cap Held(disk[r])
               PROVE  FALSE
    BY DEF DiskSharesOnlyPending
  <2>1. Typed /\ CopiesTrue /\ OwnedOnce /\ s \in Slots /\ r \in Slots
    BY DEF RaceInv, Copies, Owned, LiveSlots
  <2>2. \E i \in Idx : Owns(s, i, b)
    BY <2>1, DiskOwned
  <2>3. \E i \in Idx : Owns(r, i, b)
    BY <2>1, DiskOwned
  <2> QED
    BY <2>1, <2>2, <2>3 DEF OwnedOnce
<1> QED
  BY <1>1, RaceInvariant, PTL

\* When every handler has returned, the tracker is the one init_browsing would
\* build from the table.
THEOREM TrackerIsExact == Spec => []TrackerExactAtRest
<1>1. RaceInv => TrackerExactAtRest
  <2> SUFFICES ASSUME RaceInv, mounted, Quiet, ~overlap, ~lost, ~failed
               PROVE  used = MarkedBlocks(table)
    BY DEF TrackerExactAtRest
  <2>1. MarkedOwned /\ OwnedMarked
    BY DEF RaceInv, Owned, Sound
  <2>2. \A s \in Slots, i \in Idx : \A b : Owns(s, i, b) <=> b # 0 /\ table[s].blocks[i] = b
    BY QuietOwns
  <2>3. \A b : b \in MarkedBlocks(table) <=>
           b \in MetaBlocks \/ \E s \in Slots, i \in Idx : b # 0 /\ b = table[s].blocks[i]
    BY MountMarks
  <2>4. \A b : b \in used <=>
           b \in MetaBlocks \/ \E s \in Slots, i \in Idx : b # 0 /\ b = table[s].blocks[i]
    BY <2>1, <2>2 DEF MarkedOwned, OwnedMarked
  <2> QED
    BY <2>3, <2>4
<1> QED
  BY <1>1, RaceInvariant, PTL
=============================================================================
