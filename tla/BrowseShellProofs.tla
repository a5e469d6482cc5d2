------------------------- MODULE BrowseShellProofs -------------------------
(***************************************************************************)
(* Theorems about BrowseShell for any partition, any files and any texts,  *)
(* proved with TLAPS: which blocks two files can share, whether a name has *)
(* one entry, and what sfs_read prints.                                    *)
(***************************************************************************)
EXTENDS BrowseShell, TLAPS

\* Entries, of any size; a pointer may be the -1 of a failed allocation
Shape == [name : Names \cup {NoName}, size : Int, blocks : [Idx -> Pointers \cup {Bad}]]

\* No null pointer comes before a set one
Packed(e) == \A i, j \in Idx : j < i /\ e.blocks[i] # 0 => e.blocks[j] # 0

\* The blocks entry e holds that were not given back while it kept them
Kept(e) == Held(e) \ (stale \cup {Bad})

Shapes ==
  /\ version \in 1..3
  /\ run \in {"off", "idle", "input"}
  /\ \A s \in Slots : Packed(table[s])
  /\ table \in [Slots -> Shape]

\* Version 1 writes no data
Dataless == version = 1 => run # "input" /\ \A s \in Slots : Held(table[s]) = {}

\* At the prompt the tracker has every block that is kept
Tracked == run = "idle" => \A s \in LiveSlots(table) : Kept(table[s]) \subseteq used

Others == LiveSlots(table) \ {cmd.slot}

\* In sfs_write it has those of the other files, the file's own in version 2, and
\* those the call got, which no other file keeps
InputSound ==
  run = "input" =>
    /\ cmd.slot \in LiveSlots(table)
    /\ cmd.fe \in Shape /\ Packed(cmd.fe)
    /\ cmd.i \in 0..BlockCnt /\ \A j \in Idx : j < cmd.i => cmd.fe.blocks[j] # 0
    /\ Held(cmd.fe) \subseteq cmd.got \cup Held(table[cmd.slot])
    /\ cmd.got \subseteq used
    /\ version = 2 => Kept(table[cmd.slot]) \subseteq used
    /\ \A s \in Others : Kept(table[s]) \subseteq used /\ cmd.got \cap Kept(table[s]) = {}

ShareInv == Shapes /\ Dataless /\ NoSharing /\ Tracked /\ InputSound

-----------------------------------------------------------------------------
LEMMA Numbers ==
  /\ 0 \in Int /\ 0 \notin DataBlocks /\ Bad \notin DataBlocks /\ Bad # 0
  /\ Idx \subseteq Nat /\ BlockCnt \in Nat /\ BlockSize \in Nat
BY LayoutAssumption DEF DataBlocks, Bad, Idx

\* New and cleared entries hold nothing
LEMMA Fresh ==
  /\ EmptyEntry \in Shape /\ Packed(EmptyEntry) /\ Held(EmptyEntry) = {}
  /\ \A fn \in Names : NewEntry(fn) \in Shape /\ Packed(NewEntry(fn)) /\ Held(NewEntry(fn)) = {}
<1>1. NoBlocks \in [Idx -> Pointers \cup {Bad}]
  BY DEF NoBlocks, Pointers
<1>2. EmptyEntry \in Shape
  BY <1>1 DEF EmptyEntry, Shape
<1>3. \A fn \in Names : NewEntry(fn) \in Shape
  BY <1>1, NamesAssumption DEF NewEntry, Shape
<1>4. Packed(EmptyEntry) /\ Held(EmptyEntry) = {}
  BY DEF EmptyEntry, NoBlocks, Packed, Held
<1>5. \A fn \in Names : Packed(NewEntry(fn)) /\ Held(NewEntry(fn)) = {}
  BY DEF NewEntry, NoBlocks, Packed, Held
<1> QED
  BY <1>2, <1>3, <1>4, <1>5

\* The loops that stop at the first null pointer meet every block
LEMMA PackedChain ==
  ASSUME NEW e \in Shape, Packed(e)
  PROVE  Chain(e) = Held(e)
<1>1. \A i \in Idx : \A k \in 0..i : k \in Idx
  BY LayoutAssumption DEF Idx
<1>2. \A i \in Idx : e.blocks[i] # 0 => \A k \in 0..i : e.blocks[k] # 0
  BY <1>1, Numbers DEF Packed
<1>3. \A i \in Idx : (\A k \in 0..i : e.blocks[k] # 0) => e.blocks[i] # 0
  BY Numbers
<1> QED
  BY <1>2, <1>3 DEF Chain, Held

LEMMA ShareInit == Init => ShareInv
<1> SUFFICES ASSUME Init PROVE ShareInv
  OBVIOUS
<1>1. \A s \in Slots : table[s] = EmptyEntry
  BY DEF Init, Formatted
<1>2. Shapes
  BY <1>1, Fresh DEF Init, Formatted, Shapes
<1>3. Dataless /\ NoSharing
  BY <1>1, Fresh DEF Init, Dataless, NoSharing, LiveSlots
<1> QED
  BY <1>2, <1>3 DEF Init, ShareInv, Tracked, InputSound

-----------------------------------------------------------------------------
\* Starting marks the blocks of every entry
LEMMA StartKeeps == ASSUME ShareInv, Start PROVE ShareInv'
<1>1. Shapes' /\ Dataless' /\ NoSharing' /\ InputSound'
  BY DEF Start, Rebuilt, ShareInv, Shapes, Dataless, NoSharing, InputSound
<1>2. ASSUME NEW s \in LiveSlots(table), run' = "idle" PROVE Kept(table[s]) \subseteq used'
  <2>1. s \in Slots /\ Chain(table[s]) = Held(table[s])
    BY PackedChain DEF ShareInv, Shapes, LiveSlots
  <2>2. CASE version = 1
    BY <2>1, <2>2 DEF ShareInv, Dataless, Kept
  <2>3. CASE version # 1
    BY <2>1, <2>3 DEF Start, Rebuilt, MarkedBlocks, Kept
  <2> QED
    BY <2>2, <2>3
<1>3. Tracked'
  BY <1>2 DEF Start, Rebuilt, Tracked, Kept
<1> QED
  BY <1>1, <1>3 DEF ShareInv

\* Taking an entry away gives back what it holds, which no other file keeps
LEMMA GivenBackIs ==
  ASSUME ShareInv, NEW s \in LiveSlots(table)
  PROVE  /\ GivenBack(table[s]) \subseteq Held(table[s]) \ {Bad}
         /\ version = 2 => GivenBack(table[s]) = {}
         /\ \A t \in LiveSlots(table) \ {s} : GivenBack(table[s]) \cap Kept(table[t]) = {}
<1>1. s \in Slots /\ Chain(table[s]) = Held(table[s])
  BY PackedChain DEF ShareInv, Shapes, LiveSlots
<1>2. GivenBack(table[s]) \subseteq Held(table[s]) \ {Bad}
  BY <1>1 DEF GivenBack
<1>3. \A t \in LiveSlots(table) \ {s} : GivenBack(table[s]) \cap Kept(table[t]) = {}
  BY <1>2 DEF ShareInv, NoSharing, Kept
<1> QED
  BY <1>2, <1>3 DEF GivenBack

LEMMA CreateKeeps == ASSUME ShareInv, NEW fn \in Names, Create(fn) PROVE ShareInv'
<1>1. PICK s \in Slots : table' = [table EXCEPT ![s] = NewEntry(fn)]
  BY DEF Create
<1>2. \A t \in Slots : table'[t] = IF t = s THEN NewEntry(fn) ELSE table[t]
  BY <1>1 DEF ShareInv, Shapes
<1>3. run = "idle" /\ run' = run /\ used' = used /\ stale' = stale /\ version' = version
  BY DEF Create
<1>4. Shapes'
  BY <1>1, <1>2, <1>3, Fresh DEF ShareInv, Shapes
<1>5. Dataless'
  BY <1>2, <1>3, Fresh DEF ShareInv, Dataless
<1>6. NoSharing'
  BY <1>2, <1>3, Fresh DEF ShareInv, NoSharing, LiveSlots
<1>7. Tracked'
  BY <1>2, <1>3, Fresh DEF ShareInv, Tracked, Kept, LiveSlots
<1> QED
  BY <1>3, <1>4, <1>5, <1>6, <1>7 DEF ShareInv, InputSound

LEMMA RemoveKeeps == ASSUME ShareInv, NEW fn \in Names, Remove(fn) PROVE ShareInv'
<1>1. PICK s \in Slots : /\ Found(s, fn)
                         /\ used' = used \ GivenBack(table[s])
                         /\ table' = [table EXCEPT ![s] = EmptyEntry]
  BY DEF Remove
<1>2. /\ s \in LiveSlots(table)
      /\ \A t \in Slots : table'[t] = IF t = s THEN EmptyEntry ELSE table[t]
  BY <1>1 DEF ShareInv, Shapes, Found, IsFirst, SlotsNamed, LiveSlots
<1>3. run = "idle" /\ run' = run /\ stale' = stale /\ version' = version
  BY DEF Remove
<1>4. Shapes'
  BY <1>1, <1>2, <1>3, Fresh DEF ShareInv, Shapes
<1>5. Dataless'
  BY <1>2, <1>3, Fresh DEF ShareInv, Dataless
<1>6. NoSharing'
  BY <1>2, <1>3, Fresh DEF ShareInv, NoSharing, LiveSlots
<1>7. Tracked'
  <2>1. ASSUME NEW t \in LiveSlots(table)' PROVE Kept(table[t])' \subseteq used'
    <3>1. CASE t = s
      BY <2>1, <1>2, <3>1, Fresh DEF Kept, LiveSlots
    <3>2. CASE t # s
      <4>1. t \in LiveSlots(table) /\ Kept(table[t])' = Kept(table[t])
        BY <1>2, <1>3, <2>1, <3>2 DEF Kept, LiveSlots
      <4> QED
        BY <1>1, <1>2, <1>3, <3>2, <4>1, GivenBackIs DEF ShareInv, Tracked
    <3> QED
      BY <3>1, <3>2
  <2> QED
    BY <2>1 DEF Tracked
<1> QED
  BY <1>3, <1>4, <1>5, <1>6, <1>7 DEF ShareInv, InputSound
-----------------------------------------------------------------------------
(* sfs_write *)

LEMMA WriteStartKeeps ==
  ASSUME ShareInv, NEW fn \in Names, NEW text \in Texts, WriteStart(fn, text)
  PROVE  ShareInv'
<1>1. PICK s \in Slots :
        /\ Found(s, fn)
        /\ used' = used \ GivenBack(table[s])
        /\ cmd' = [slot |-> s, fe |-> table[s], i |-> 0, got |-> {}, text |-> text]
  BY DEF WriteStart
<1>2. s \in LiveSlots(table)
  BY <1>1 DEF Found, IsFirst, SlotsNamed, LiveSlots
<1>3. /\ run = "idle" /\ run' = "input" /\ version > 1
      /\ table' = table /\ stale' = stale /\ version' = version
  BY DEF WriteStart
<1>4. Shapes' /\ Dataless' /\ NoSharing' /\ Tracked'
  BY <1>3 DEF ShareInv, Shapes, Dataless, NoSharing, Tracked
<1>5. /\ cmd'.slot = s /\ cmd'.fe = table[s] /\ cmd'.i = 0 /\ cmd'.got = {}
      /\ table[s] \in Shape /\ Packed(table[s])
  BY <1>1 DEF ShareInv, Shapes
<1>6. /\ version = 2 => Kept(table[s]) \subseteq used'
      /\ \A t \in LiveSlots(table) \ {s} : Kept(table[t]) \subseteq used'
  BY <1>1, <1>2, <1>3, GivenBackIs DEF ShareInv, Tracked
<1>7. InputSound'
  BY <1>2, <1>3, <1>5, <1>6, Numbers DEF InputSound, Others, Kept
<1> QED
  BY <1>4, <1>7 DEF ShareInv

\* The entry with its next pointer set
LEMMA ExtendedIs ==
  ASSUME ShareInv, run = "input", cmd.i # BlockCnt, NEW b \in DataBlocks \cup {Bad}
  PROVE  /\ Extended(b) \in Shape /\ Packed(Extended(b))
         /\ \A j \in Idx : j < cmd.i + 1 => Extended(b).blocks[j] # 0
         /\ Held(Extended(b)) \subseteq Held(cmd.fe) \cup {b}
<1>1. /\ cmd.fe \in Shape /\ cmd.i \in Idx /\ Packed(cmd.fe)
      /\ \A j \in Idx : j < cmd.i => cmd.fe.blocks[j] # 0
  BY LayoutAssumption DEF ShareInv, InputSound, Idx
<1>2. /\ Extended(b).blocks = [cmd.fe.blocks EXCEPT ![cmd.i] = b]
      /\ Extended(b) \in Shape
  BY <1>1 DEF Extended, Shape, Pointers
<1>3. \A j \in Idx : Extended(b).blocks[j] = IF j = cmd.i THEN b ELSE cmd.fe.blocks[j]
  BY <1>1, <1>2 DEF Shape
<1>4. b # 0
  BY Numbers
<1>5. \A j \in Idx : j < cmd.i + 1 => Extended(b).blocks[j] # 0
  BY <1>1, <1>3, <1>4, Numbers
<1>6. Packed(Extended(b))
  BY <1>1, <1>3, <1>4, <1>5, Numbers DEF Packed
<1>7. Held(Extended(b)) \subseteq Held(cmd.fe) \cup {b}
  BY <1>3 DEF Held
<1> QED
  BY <1>2, <1>5, <1>6, <1>7

\* A block that get_data_block returns is one no other file keeps
LEMMA FreeIs ==
  ASSUME ShareInv, run = "input", NEW b \in DataBlocks, FreeFirst(b)
  PROVE  \A s \in Others : b \notin Kept(table[s])
BY DEF ShareInv, InputSound, FreeFirst, IsFirst, FreeBlocks

LEMMA WriteBlockKeeps == ASSUME ShareInv, WriteBlock PROVE ShareInv'
<1>1. PICK b \in DataBlocks :
        /\ FreeFirst(b) /\ used' = used \cup {b}
        /\ cmd' = [cmd EXCEPT !.fe = Extended(b), !.i = cmd.i + 1, !.got = cmd.got \cup {b}]
  BY DEF WriteBlock, PutText
<1>2. /\ run = "input" /\ cmd.i # BlockCnt /\ run' = run
      /\ table' = table /\ stale' = stale /\ version' = version
  BY DEF WriteBlock
<1>3. Shapes' /\ Dataless' /\ NoSharing' /\ Tracked'
  BY <1>2 DEF ShareInv, Shapes, Dataless, NoSharing, Tracked
<1>4. /\ cmd'.slot = cmd.slot /\ cmd'.fe = Extended(b)
      /\ cmd'.i = cmd.i + 1 /\ cmd'.got = cmd.got \cup {b}
  BY <1>1
<1>5. cmd.i + 1 \in 0..BlockCnt
  BY <1>2, LayoutAssumption DEF ShareInv, InputSound
<1>6. \A s \in Others : b \notin Kept(table[s])
  BY <1>1, <1>2, FreeIs
<1>7. InputSound'
  BY <1>1, <1>2, <1>4, <1>5, <1>6, ExtendedIs DEF ShareInv, InputSound, Others, Kept
<1> QED
  BY <1>3, <1>7 DEF ShareInv

\* However sfs_write ends: of the pointers it stores, those it did not get were
\* the file's before, and version 3 has given those back
LEMMA FinishKeeps ==
  ASSUME ShareInv, run = "input",
         NEW fe \in Shape, Packed(fe), NEW size \in Int, NEW got,
         used \subseteq used', got \subseteq used',
         Held(fe) \subseteq got \cup Held(table[cmd.slot]) \cup {Bad},
         \A s \in Others : got \cap Kept(table[s]) = {},
         Finish(fe, size, got)
  PROVE  ShareInv'
<1> DEFINE e == [fe EXCEPT !.size = size]
<1>1. e \in Shape /\ Packed(e) /\ Held(e) = Held(fe)
  BY DEF Shape, Packed, Held
<1>2. /\ cmd.slot \in LiveSlots(table) /\ cmd.slot \in Slots
      /\ \A s \in Slots : table'[s] = IF s = cmd.slot THEN e ELSE table[s]
      /\ table' \in [Slots -> Shape]
  BY <1>1 DEF Finish, ShareInv, Shapes, InputSound, LiveSlots
<1> HIDE DEF e
<1>3. /\ run' = "idle" /\ version' = version /\ version # 1
      /\ stale' = stale \cup (GivenBack(fe) \ got)
  BY DEF Finish, ShareInv, Dataless
<1>4. Shapes' /\ Dataless' /\ InputSound'
  BY <1>1, <1>2, <1>3 DEF ShareInv, Shapes, Dataless, InputSound
<1>5. version = 3 => Held(e) \ (stale' \cup {Bad}) \subseteq got
  BY <1>1, <1>3, PackedChain DEF GivenBack
<1>6. version = 2 => Held(e) \ {Bad} \subseteq got \cup Held(table[cmd.slot])
  BY <1>1
<1>7. version = 2 \/ version = 3
  BY <1>3 DEF ShareInv, Shapes
<1>8. \A s \in Others : Held(e) \cap Held(table[s]) \subseteq stale' \cup {Bad}
  <2> SUFFICES ASSUME NEW s \in Others, NEW b, b \in Held(e), b \in Held(table[s]),
                      b \notin stale', b # Bad
               PROVE  FALSE
    OBVIOUS
  <2>1. b \notin stale /\ b \in Kept(table[s]) /\ b \notin got
    BY <1>3 DEF Kept
  <2>2. b \in Held(table[cmd.slot]) /\ version = 2
    BY <1>5, <1>6, <1>7, <2>1
  <2> QED
    BY <1>2, <2>1, <2>2 DEF ShareInv, NoSharing, Others
<1>9. NoSharing'
  <2> SUFFICES ASSUME NEW s \in LiveSlots(table)', NEW t \in LiveSlots(table)', s # t
               PROVE  Held(table'[s]) \cap Held(table'[t]) \subseteq stale' \cup {Bad}
    BY DEF NoSharing
  <2>1. s \in Slots /\ t \in Slots
    BY DEF LiveSlots
  <2>2. CASE s = cmd.slot
    <3>1. t \in Others /\ table'[t] = table[t] /\ table'[s] = e
      BY <1>2, <2>1, <2>2 DEF Others, LiveSlots
    <3> QED
      BY <1>8, <3>1
  <2>3. CASE t = cmd.slot
    <3>1. s \in Others /\ table'[s] = table[s] /\ table'[t] = e
      BY <1>2, <2>1, <2>3 DEF Others, LiveSlots
    <3> QED
      BY <1>8, <3>1
  <2>4. CASE s # cmd.slot /\ t # cmd.slot
    <3>1. s \in LiveSlots(table) /\ t \in LiveSlots(table)
          /\ table'[s] = table[s] /\ table'[t] = table[t]
      BY <1>2, <2>1, <2>4 DEF LiveSlots
    <3> QED
      BY <1>3, <3>1 DEF ShareInv, NoSharing
  <2> QED
    BY <2>2, <2>3, <2>4
<1>10. Tracked'
  <2> SUFFICES ASSUME NEW s \in LiveSlots(table)' PROVE Held(table'[s]) \ (stale' \cup {Bad}) \subseteq used'
    BY DEF Tracked, Kept
  <2>1. CASE s = cmd.slot
    <3>1. CASE version = 3
      BY <1>2, <1>5, <2>1, <3>1
    <3>2. CASE version = 2
      BY <1>2, <1>3, <1>6, <2>1, <3>2 DEF ShareInv, InputSound, Kept
    <3> QED
      BY <1>7, <3>1, <3>2
  <2>2. CASE s # cmd.slot
    <3>1. s \in Others /\ table'[s] = table[s]
      BY <1>2, <2>2 DEF Others, LiveSlots
    <3> QED
      BY <1>3, <3>1 DEF ShareInv, InputSound, Kept
  <2> QED
    BY <2>1, <2>2
<1> QED
  BY <1>4, <1>9, <1>10 DEF ShareInv
\* The three ways in which sfs_write ends
LEMMA WriteEndKeeps ==
  ASSUME ShareInv, \/ WriteNoRoom \/ WriteEnds
                   \/ \E rest \in 1..(BlockSize - 1) : WritePartial(rest)
  PROVE  ShareInv'
<1>1. run = "input" /\ cmd.i \in Nat /\ cmd.i * BlockSize \in Int
  <2>1. run = "input"
    BY DEF WriteNoRoom, WriteEnds, WritePartial
  <2> QED
    BY <2>1, Numbers DEF ShareInv, InputSound
<1>2. /\ cmd.fe \in Shape /\ Packed(cmd.fe) /\ cmd.got \subseteq used
      /\ Held(cmd.fe) \subseteq cmd.got \cup Held(table[cmd.slot])
      /\ \A s \in Others : cmd.got \cap Kept(table[s]) = {}
  BY <1>1 DEF ShareInv, InputSound
\* Nothing more is got
<1>3. ASSUME Finish(cmd.fe, cmd.i * BlockSize, cmd.got), used' = used PROVE ShareInv'
  BY <1>1, <1>2, <1>3, FinishKeeps
<1>4. ASSUME NEW rest \in 1..(BlockSize - 1), WritePartial(rest) PROVE ShareInv'
  <2>1. CASE Finish(cmd.fe, cmd.i * BlockSize, cmd.got) /\ UNCHANGED <<used, data>>
    BY <2>1, <1>3
  <2>2. ASSUME cmd.i # BlockCnt, NEW b \in DataBlocks, FreeFirst(b), PutText(b),
               Finish(Extended(b), cmd.i * BlockSize + rest, cmd.got \cup {b})
        PROVE  ShareInv'
    <3>1. used' = used \cup {b}
      BY <2>2 DEF PutText
    <3>2. Extended(b) \in Shape /\ Packed(Extended(b))
          /\ Held(Extended(b)) \subseteq Held(cmd.fe) \cup {b}
      BY <1>1, <2>2, ExtendedIs
    <3>3. \A s \in Others : (cmd.got \cup {b}) \cap Kept(table[s]) = {}
      BY <1>1, <1>2, <2>2, FreeIs
    <3>4. cmd.i * BlockSize + rest \in Int
      BY <1>1, Numbers
    <3> QED
      BY <1>1, <1>2, <2>2, <3>1, <3>2, <3>3, <3>4, FinishKeeps
  <2>3. ASSUME cmd.i # BlockCnt, Finish(Extended(Bad), cmd.i * BlockSize, cmd.got), used' = used
        PROVE  ShareInv'
    <3>1. Extended(Bad) \in Shape /\ Packed(Extended(Bad))
          /\ Held(Extended(Bad)) \subseteq Held(cmd.fe) \cup {Bad}
      BY <1>1, <2>3, ExtendedIs
    <3> QED
      BY <1>1, <1>2, <2>3, <3>1, FinishKeeps
  <2> QED
    BY <1>4, <2>1, <2>2, <2>3 DEF WritePartial
<1> QED
  BY <1>3, <1>4 DEF WriteNoRoom, WriteEnds

-----------------------------------------------------------------------------
LEMMA ShareStep == ShareInv /\ [Next]_vars => ShareInv'
<1> SUFFICES ASSUME ShareInv, [Next]_vars PROVE ShareInv'
  OBVIOUS
<1>1. CASE Format
  <2>1. table' = [s \in Slots |-> EmptyEntry] /\ run' = "off" /\ version' = version
    BY <1>1 DEF Format, Formatted
  <2>2. Shapes' /\ Dataless' /\ NoSharing'
    BY <2>1, Fresh DEF ShareInv, Shapes, Dataless, NoSharing, LiveSlots
  <2> QED
    BY <2>1, <2>2 DEF ShareInv, Tracked, InputSound
<1>2. CASE Start
  BY <1>2, StartKeeps
<1>3. CASE Quit \/ Interrupt
  BY <1>3 DEF Quit, Interrupt, ShareInv, Shapes, Dataless, NoSharing, Tracked, InputSound
<1>4. ASSUME NEW fn \in Names, NEW perm \in Perms, Chperm(fn, perm) PROVE ShareInv'
  BY <1>4 DEF Chperm, ShareInv, Shapes, Dataless, NoSharing, Tracked, InputSound, Kept, Others
<1>5. CASE UNCHANGED vars
  BY <1>5 DEF vars, ShareInv, Shapes, Dataless, NoSharing, Tracked, InputSound, Kept, Others
<1> QED
  BY <1>1, <1>2, <1>3, <1>4, <1>5, CreateKeeps, RemoveKeeps, WriteStartKeeps,
     WriteBlockKeeps, WriteEndKeeps DEF Next

\* In any sequence of commands, kills and restarts of any of the three shells, on
\* a partition of any size, two files share a block only after sfs_write of
\* version 3 gave it back and kept the pointer.
THEOREM SharedOnlyWhenStale == Spec => []NoSharing
<1>1. ShareInv => NoSharing
  BY DEF ShareInv
<1> QED
  BY <1>1, ShareInit, ShareStep, PTL DEF Spec
-----------------------------------------------------------------------------
(* Names *)

\* Names of at most 15 characters
Whole == \A n \in Names : Stored[n] = n

\* Until something is removed the files come first and have different names;
\* sfs_write brings the name back that it found
NamesInv ==
  /\ run = "input" => cmd.fe.name = table[cmd.slot].name
  /\ ~removed => /\ \A s, t \in Slots : t < s /\ Live(table[s]) => Live(table[t])
                 /\ \A s, t \in LiveSlots(table) : table[s].name = table[t].name => s = t

\* A table with the same names
LEMMA SameNames ==
  ASSUME NamesInv, ~removed' => ~removed, run' # "input",
         \A s \in Slots : table'[s].name = table[s].name
  PROVE  NamesInv'
BY DEF NamesInv, LiveSlots, Live

LEMMA NamesStep == Whole /\ ShareInv /\ NamesInv /\ [Next]_vars => NamesInv'
<1> SUFFICES ASSUME Whole, ShareInv, NamesInv, [Next]_vars PROVE NamesInv'
  OBVIOUS
<1>1. CASE Format
  BY <1>1 DEF Format, Formatted, EmptyEntry, NamesInv, LiveSlots, Live
<1>2. CASE Start \/ Quit \/ Interrupt
  BY <1>2, SameNames DEF Start, Rebuilt, Quit, Interrupt
<1>3. ASSUME NEW fn \in Names, Create(fn) PROVE NamesInv'
  <2>1. PICK s \in Slots : Creatable(s, fn) /\ table' = [table EXCEPT ![s] = NewEntry(fn)]
    BY <1>3 DEF Create
  <2>2. /\ \A t \in Slots : table'[t] = IF t = s THEN NewEntry(fn) ELSE table[t]
        /\ NewEntry(fn).name = fn /\ fn # NoName
        /\ run = "idle" /\ run' = run /\ removed' = removed
    BY <1>3, <2>1, NamesAssumption DEF Create, ShareInv, Shapes, NewEntry, Whole
  <2>3. /\ ~Live(table[s]) /\ \A t \in Slots : ~Live(table[t]) => s <= t
        /\ \A t \in Slots : Live(table[t]) /\ table[t].name = fn => t > s
    BY <2>1 DEF Creatable, IsFirst, FreeSlots, SlotsNamed
  <2>4. SUFFICES ASSUME ~removed
                 PROVE /\ \A u, t \in Slots : t < u /\ Live(table'[u]) => Live(table'[t])
                       /\ \A u, t \in LiveSlots(table)' : table'[u].name = table'[t].name => u = t
    BY <2>2 DEF NamesInv
  <2>5. \A t \in Slots : (t < s <=> Live(table[t])) /\ t \in Int
    BY <2>3, <2>4, LayoutAssumption DEF NamesInv, Slots
  <2>6. \A t \in Slots : (t <= s <=> Live(table'[t])) /\ t \in Int
    BY <2>2, <2>5 DEF Live
  <2>7. \A t \in Slots : Live(table[t]) => table[t].name # fn
    BY <2>3, <2>5
  <2>8. \A u, t \in LiveSlots(table)' : table'[u].name = table'[t].name => u = t
    <3> SUFFICES ASSUME NEW u \in LiveSlots(table)', NEW t \in LiveSlots(table)',
                        table'[u].name = table'[t].name, u # t
                 PROVE  FALSE
      OBVIOUS
    <3>1. u \in Slots /\ t \in Slots /\ u <= s /\ t <= s
      BY <2>6 DEF LiveSlots
    <3>2. (u # s => Live(table[u])) /\ (t # s => Live(table[t]))
      BY <2>5, <3>1
    <3> QED
      BY <2>2, <2>4, <2>7, <3>1, <3>2 DEF NamesInv, LiveSlots
  <2> QED
    BY <2>6, <2>8
<1>4. ASSUME NEW fn \in Names, Remove(fn) PROVE NamesInv'
  BY <1>4 DEF Remove, NamesInv
<1>5. ASSUME NEW fn \in Names, NEW text \in Texts, WriteStart(fn, text) PROVE NamesInv'
  BY <1>5 DEF WriteStart, NamesInv, LiveSlots, Live
<1>6. CASE WriteBlock
  <2>1. PICK b \in DataBlocks :
          cmd' = [cmd EXCEPT !.fe = Extended(b), !.i = cmd.i + 1, !.got = cmd.got \cup {b}]
    BY <1>6 DEF WriteBlock
  <2>2. cmd'.fe.name = cmd.fe.name /\ cmd'.slot = cmd.slot
    BY <1>6, <2>1 DEF WriteBlock, ShareInv, InputSound, Shape, Extended
  <2> QED
    BY <1>6, <2>2 DEF WriteBlock, NamesInv, LiveSlots, Live
<1>7. ASSUME NEW fe \in Shape, NEW size, NEW got, fe.name = cmd.fe.name, run = "input",
             Finish(fe, size, got)
      PROVE  NamesInv'
  <2>1. \A s \in Slots : table'[s].name = table[s].name
    BY <1>7 DEF Finish, NamesInv, ShareInv, Shapes, Shape
  <2> QED
    BY <1>7, <2>1, SameNames DEF Finish
<1>8. CASE WriteNoRoom \/ WriteEnds
  BY <1>7, <1>8 DEF WriteNoRoom, WriteEnds, ShareInv, InputSound
<1>9. ASSUME NEW rest \in 1..(BlockSize - 1), WritePartial(rest) PROVE NamesInv'
  <2>1. run = "input" /\ cmd.fe \in Shape
    BY <1>9 DEF WritePartial, ShareInv, InputSound
  <2>2. ASSUME NEW b \in DataBlocks \cup {Bad}, cmd.i # BlockCnt
        PROVE  Extended(b) \in Shape /\ Extended(b).name = cmd.fe.name
    BY <2>1, <2>2, ExtendedIs DEF Extended, Shape
  <2> QED
    BY <1>7, <1>9, <2>1, <2>2 DEF WritePartial
<1>10. CASE UNCHANGED vars \/ \E fn \in Names, perm \in Perms : Chperm(fn, perm)
  BY <1>10 DEF vars, Chperm, NamesInv, LiveSlots, Live
<1> QED
  BY <1>1, <1>2, <1>3, <1>4, <1>5, <1>6, <1>8, <1>9, <1>10 DEF Next

\* With names that are stored whole, sfs_create makes no name twice as long as
\* nothing was removed, although it compares only the entries before the first
\* free one: every file is the one its name finds.
THEOREM NamesFindTheirFiles == Whole /\ Spec => []OneEntryPerName
<1>1. Init => NamesInv
  BY DEF Init, Formatted, EmptyEntry, NamesInv, LiveSlots, Live
<1>2. NamesInv => OneEntryPerName
  <2> SUFFICES ASSUME NamesInv, ~removed, NEW s \in LiveSlots(table)
               PROVE  Found(s, table[s].name)
    BY DEF OneEntryPerName
  <2>1. s \in Slots /\ s <= s
    BY LayoutAssumption DEF LiveSlots, Slots
  <2>2. SlotsNamed(table, table[s].name) = {s}
    BY <2>1 DEF SlotsNamed, NamesInv, LiveSlots
  <2> QED
    BY <2>1, <2>2 DEF Found, IsFirst
<1>3. Whole => []Whole
  <2>1. Whole => Whole'
    BY DEF Whole
  <2> QED
    BY <2>1, PTL
<1> QED
  BY <1>1, <1>2, <1>3, ShareInit, ShareStep, NamesStep, PTL DEF Spec
-----------------------------------------------------------------------------
(* What sfs_read prints *)

\* Block i of file s has what its last sfs_write put there
Holds(s, i) ==
  table[s].blocks[i] \in DataBlocks /\ data[table[s].blocks[i]] = <<last[s], i>>

\* Every block that a size covers does, but for those given back, those of an
\* interrupted call, and those the call in progress got
FilesHold ==
  \A s \in LiveSlots(table) \ damaged : \A i \in Covered(s) :
    \/ table[s].blocks[i] \in stale
    \/ run = "input" /\ s = cmd.slot /\ table[s].blocks[i] \in cmd.got
    \/ Holds(s, i)

\* The call in progress has put the text it took in into the blocks it got
TextHeld ==
  run = "input" =>
    /\ cmd.text \in Texts /\ cmd.got \subseteq DataBlocks
    /\ \A j \in Idx : j < cmd.i =>
         cmd.fe.blocks[j] \in cmd.got /\ data[cmd.fe.blocks[j]] = <<cmd.text, j>>

Contents == data \in [DataBlocks -> (Texts \cup {NoText}) \X Idx] /\ last \in [Slots -> Texts \cup {NoText}]

ReadInv == Contents /\ FilesHold /\ TextHeld

\* Sizes cover the blocks that start below them
LEMMA CoveredBelow ==
  ASSUME NEW i \in Idx, NEW n \in 0..BlockCnt
  PROVE  /\ i * BlockSize < n * BlockSize => i < n
         /\ \A rest \in 1..(BlockSize - 1) : i * BlockSize < n * BlockSize + rest => i < n + 1
         /\ ~(i * BlockSize < 0)
<1>1. i \in Nat /\ n \in Nat /\ BlockSize \in Nat \ {0}
  BY LayoutAssumption DEF Idx
<1>2. i * BlockSize \in Nat /\ n * BlockSize \in Nat /\ (n + 1) * BlockSize = n * BlockSize + BlockSize
  BY <1>1
<1>3. i >= n => i * BlockSize >= n * BlockSize
  BY <1>1
<1>4. i >= n + 1 => i * BlockSize >= (n + 1) * BlockSize
  BY <1>1
<1> QED
  BY <1>1, <1>2, <1>3, <1>4

LEMMA ReadInit == Init => ReadInv
<1> SUFFICES ASSUME Init PROVE ReadInv
  OBVIOUS
<1>1. 0 \in Idx
  BY LayoutAssumption DEF Idx
<1>2. Contents
  BY <1>1 DEF Init, Formatted, Contents
<1>3. LiveSlots(table) = {}
  BY DEF Init, Formatted, EmptyEntry, LiveSlots, Live
<1> QED
  BY <1>2, <1>3 DEF Init, ReadInv, FilesHold, TextHeld

\* A block that get_data_block returns holds nothing that is still to be read
LEMMA FreeHoldsNothing ==
  ASSUME ShareInv, ReadInv, run = "input", NEW b \in DataBlocks, FreeFirst(b)
  PROVE  /\ \A s \in Others, i \in Idx : table[s].blocks[i] = b => b \in stale
         /\ b \notin cmd.got
<1>1. \A s \in Others : b \notin Kept(table[s])
  BY FreeIs
<1>2. b # 0 /\ b # Bad
  BY Numbers
<1>3. \A s \in Others, i \in Idx : table[s].blocks[i] = b => b \in stale
  BY <1>1, <1>2 DEF Kept, Held
<1>4. b \notin cmd.got
  BY DEF ShareInv, InputSound, FreeFirst, IsFirst, FreeBlocks
<1> QED
  BY <1>3, <1>4

\* So the other files keep their text when it is written, and the call's own
\* blocks keep what the call has put there
LEMMA PutKeeps ==
  ASSUME ShareInv, ReadInv, run = "input", cmd.i # BlockCnt, NEW b \in DataBlocks, FreeFirst(b),
         PutText(b)
  PROVE  /\ data' \in [DataBlocks -> (Texts \cup {NoText}) \X Idx]
         /\ \A s \in Others \ damaged : \A i \in Covered(s) :
              \/ table[s].blocks[i] \in stale
              \/ table[s].blocks[i] \in DataBlocks /\ data'[table[s].blocks[i]] = <<last[s], i>>
         /\ \A j \in Idx : j < cmd.i + 1 =>
              /\ Extended(b).blocks[j] \in cmd.got \cup {b}
              /\ data'[Extended(b).blocks[j]] = <<cmd.text, j>>
         /\ \A c \in DataBlocks \ {b} : data'[c] = data[c]
<1>1. cmd.i \in Idx /\ cmd.text \in Texts /\ cmd.got \subseteq DataBlocks /\ cmd.fe \in Shape
  BY LayoutAssumption DEF ShareInv, InputSound, ReadInv, TextHeld, Idx
<1>2. data \in [DataBlocks -> (Texts \cup {NoText}) \X Idx] /\ data' = [data EXCEPT ![b] = <<cmd.text, cmd.i>>]
  BY DEF ReadInv, Contents, PutText
<1>3. data'[b] = <<cmd.text, cmd.i>> /\ \A c \in DataBlocks \ {b} : data'[c] = data[c]
  BY <1>2
<1>4. data' \in [DataBlocks -> (Texts \cup {NoText}) \X Idx]
  BY <1>1, <1>2
<1>5. ASSUME NEW s \in Others \ damaged, NEW i \in Covered(s)
      PROVE  \/ table[s].blocks[i] \in stale
             \/ table[s].blocks[i] \in DataBlocks /\ data'[table[s].blocks[i]] = <<last[s], i>>
  <2>1. i \in Idx /\ s \in LiveSlots(table) \ damaged /\ s # cmd.slot
    BY DEF Covered, Others
  <2>2. table[s].blocks[i] \in stale \/ Holds(s, i)
    BY <2>1 DEF ReadInv, FilesHold
  <2>3. table[s].blocks[i] = b => b \in stale
    BY <2>1, FreeHoldsNothing
  <2> QED
    BY <1>3, <2>2, <2>3 DEF Holds
<1>6. ASSUME NEW j \in Idx, j < cmd.i + 1
      PROVE  /\ Extended(b).blocks[j] \in cmd.got \cup {b}
             /\ data'[Extended(b).blocks[j]] = <<cmd.text, j>>
  <2>1. Extended(b).blocks[j] = IF j = cmd.i THEN b ELSE cmd.fe.blocks[j]
    BY <1>1 DEF Extended, Shape
  <2>2. CASE j = cmd.i
    BY <1>3, <2>1, <2>2
  <2>3. CASE j # cmd.i
    <3>1. j < cmd.i
      BY <1>1, <1>6, <2>3 DEF Idx
    <3>2. cmd.fe.blocks[j] \in cmd.got /\ data[cmd.fe.blocks[j]] = <<cmd.text, j>>
      BY <3>1 DEF ReadInv, TextHeld
    <3>3. cmd.fe.blocks[j] \in DataBlocks \ {b}
      BY <1>1, <3>2, FreeHoldsNothing
    <3> QED
      BY <1>3, <2>1, <2>3, <3>2, <3>3
  <2> QED
    BY <2>2, <2>3
<1> QED
  BY <1>3, <1>4, <1>5, <1>6

\* The end of sfs_write: the file has the text in the blocks its new size covers
LEMMA FinishReads ==
  ASSUME ShareInv, ReadInv, run = "input", NEW fe \in Shape, NEW size \in Int, NEW got,
         Finish(fe, size, got), data' \in [DataBlocks -> (Texts \cup {NoText}) \X Idx],
         \A i \in Idx : i * BlockSize < size =>
           fe.blocks[i] \in DataBlocks /\ data'[fe.blocks[i]] = <<cmd.text, i>>,
         \A s \in Others \ damaged : \A i \in Covered(s) :
           \/ table[s].blocks[i] \in stale
           \/ table[s].blocks[i] \in DataBlocks /\ data'[table[s].blocks[i]] = <<last[s], i>>
  PROVE  ReadInv'
<1>1. cmd.text \in Texts /\ cmd.slot \in Slots
  BY DEF ReadInv, TextHeld, ShareInv, InputSound, LiveSlots
<1>2. last' = [last EXCEPT ![cmd.slot] = cmd.text] /\ last \in [Slots -> Texts \cup {NoText}]
  BY DEF Finish, ReadInv, Contents
<1>3. /\ last' \in [Slots -> Texts \cup {NoText}] /\ last'[cmd.slot] = cmd.text
      /\ \A s \in Slots \ {cmd.slot} : last'[s] = last[s]
  BY <1>1, <1>2
<1>4. PICK e : e = [fe EXCEPT !.size = size]
  OBVIOUS
<1>5. e.blocks = fe.blocks /\ e.size = size
  BY <1>4 DEF Shape
<1>6. /\ table'[cmd.slot] = e /\ \A s \in Slots \ {cmd.slot} : table'[s] = table[s]
  BY <1>1, <1>4 DEF Finish, ShareInv, Shapes
<1>7. /\ run' = "idle" /\ stale \subseteq stale' /\ damaged' = damaged \ {cmd.slot}
  BY DEF Finish
<1>8. ASSUME NEW s \in LiveSlots(table)' \ damaged', NEW i \in Covered(s)'
      PROVE  table'[s].blocks[i] \in stale' \/ Holds(s, i)'
  <2>1. s \in Slots /\ i \in Idx /\ i * BlockSize < table'[s].size
    BY DEF LiveSlots, Covered
  <2>2. CASE s = cmd.slot
    <3>1. fe.blocks[i] \in DataBlocks /\ data'[fe.blocks[i]] = <<cmd.text, i>>
      BY <1>5, <1>6, <2>1, <2>2
    <3> QED
      BY <1>3, <1>5, <1>6, <2>2, <3>1 DEF Holds
  <2>3. CASE s # cmd.slot
    <3>1. s \in Others \ damaged /\ i \in Covered(s) /\ table'[s] = table[s] /\ last'[s] = last[s]
      BY <1>3, <1>6, <1>7, <2>1, <2>3 DEF Others, LiveSlots, Covered
    <3>2. \/ table[s].blocks[i] \in stale
          \/ table[s].blocks[i] \in DataBlocks /\ data'[table[s].blocks[i]] = <<last[s], i>>
      BY <3>1
    <3> QED
      BY <1>7, <3>1, <3>2 DEF Holds
  <2> QED
    BY <2>2, <2>3
<1>9. FilesHold'
  BY <1>8 DEF FilesHold
<1> QED
  BY <1>3, <1>7, <1>9 DEF ReadInv, Contents, TextHeld

\* The ways in which sfs_write ends
LEMMA WriteEndReads ==
  ASSUME ShareInv, ReadInv, \/ WriteNoRoom \/ WriteEnds
                            \/ \E rest \in 1..(BlockSize - 1) : WritePartial(rest)
  PROVE  ReadInv'
<1>1. run = "input"
  BY DEF WriteNoRoom, WriteEnds, WritePartial
<1>2. /\ cmd.fe \in Shape /\ cmd.i \in 0..BlockCnt /\ cmd.got \subseteq DataBlocks
      /\ data \in [DataBlocks -> (Texts \cup {NoText}) \X Idx]
      /\ \A j \in Idx : j < cmd.i =>
           cmd.fe.blocks[j] \in cmd.got /\ data[cmd.fe.blocks[j]] = <<cmd.text, j>>
  BY <1>1 DEF ShareInv, InputSound, ReadInv, Contents, TextHeld
<1>3. cmd.i \in Nat /\ cmd.i * BlockSize \in Int
  BY <1>2, Numbers
<1>4. \A s \in Others \ damaged : \A i \in Covered(s) :
        \/ table[s].blocks[i] \in stale
        \/ table[s].blocks[i] \in DataBlocks /\ data[table[s].blocks[i]] = <<last[s], i>>
  BY DEF Others, ReadInv, FilesHold, Holds
<1>5. ASSUME NEW fe \in Shape, \A j \in Idx : j < cmd.i => fe.blocks[j] = cmd.fe.blocks[j],
             Finish(fe, cmd.i * BlockSize, cmd.got), data' = data
      PROVE  ReadInv'
  <2>1. \A i \in Idx : i * BlockSize < cmd.i * BlockSize =>
           fe.blocks[i] \in DataBlocks /\ data'[fe.blocks[i]] = <<cmd.text, i>>
    BY <1>2, <1>5, CoveredBelow
  <2> QED
    BY <1>1, <1>2, <1>3, <1>4, <1>5, <2>1, FinishReads
<1>6. ASSUME NEW rest \in 1..(BlockSize - 1), WritePartial(rest) PROVE ReadInv'
  <2>1. CASE Finish(cmd.fe, cmd.i * BlockSize, cmd.got) /\ UNCHANGED <<used, data>>
    BY <1>2, <1>5, <2>1
  <2>2. ASSUME cmd.i # BlockCnt, NEW b \in DataBlocks, FreeFirst(b), PutText(b),
               Finish(Extended(b), cmd.i * BlockSize + rest, cmd.got \cup {b})
        PROVE  ReadInv'
    <3>1. Extended(b) \in Shape
      BY <1>1, <2>2, ExtendedIs
    <3>2. \A i \in Idx : i * BlockSize < cmd.i * BlockSize + rest =>
           Extended(b).blocks[i] \in DataBlocks /\ data'[Extended(b).blocks[i]] = <<cmd.text, i>>
      <4> SUFFICES ASSUME NEW i \in Idx, i * BlockSize < cmd.i * BlockSize + rest
                   PROVE  /\ Extended(b).blocks[i] \in DataBlocks
                          /\ data'[Extended(b).blocks[i]] = <<cmd.text, i>>
        OBVIOUS
      <4>1. i < cmd.i + 1
        BY <1>2, CoveredBelow
      <4> QED
        BY <1>1, <1>2, <2>2, <4>1, PutKeeps
    <3>3. cmd.i * BlockSize + rest \in Int
      BY <1>3, Numbers
    <3>4. /\ data' \in [DataBlocks -> (Texts \cup {NoText}) \X Idx]
          /\ \A s \in Others \ damaged : \A i \in Covered(s) :
               \/ table[s].blocks[i] \in stale
               \/ table[s].blocks[i] \in DataBlocks /\ data'[table[s].blocks[i]] = <<last[s], i>>
      BY <1>1, <2>2, PutKeeps
    <3> QED
      BY <1>1, <2>2, <3>1, <3>2, <3>3, <3>4, FinishReads
  <2>3. ASSUME cmd.i # BlockCnt, Finish(Extended(Bad), cmd.i * BlockSize, cmd.got), data' = data
        PROVE  ReadInv'
    <3>1. Extended(Bad) \in Shape
      BY <1>1, <2>3, ExtendedIs
    <3>2. \A j \in Idx : j < cmd.i => Extended(Bad).blocks[j] = cmd.fe.blocks[j]
      BY <1>2, <1>3, LayoutAssumption DEF Extended, Shape, Idx
    <3> QED
      BY <1>5, <2>3, <3>1, <3>2
  <2> QED
    BY <1>6, <2>1, <2>2, <2>3 DEF WritePartial
<1> QED
  BY <1>2, <1>5, <1>6 DEF WriteNoRoom, WriteEnds

\* Every step keeps what files hold
LEMMA ReadStep == ShareInv /\ ReadInv /\ [Next]_vars => ReadInv'
<1> SUFFICES ASSUME ShareInv, ReadInv, [Next]_vars PROVE ReadInv'
  OBVIOUS
<1>0. Contents
  BY DEF ReadInv
<1>1. CASE Format
  <2>1. LiveSlots(table)' = {} /\ run' = "off" /\ data' = data /\ last' \in [Slots -> Texts \cup {NoText}]
    BY <1>1 DEF Format, Formatted, EmptyEntry, LiveSlots, Live
  <2> QED
    BY <1>0, <2>1 DEF ReadInv, Contents, FilesHold, TextHeld
<1>2. CASE Start \/ Quit
  <2>1. run # "input" /\ run' # "input" /\ UNCHANGED <<table, data, last, stale, damaged>>
    BY <1>2 DEF Start, Rebuilt, Quit
  <2> QED
    BY <1>0, <2>1 DEF ReadInv, Contents, FilesHold, TextHeld, Holds, Covered
<1>3. ASSUME NEW s \in Slots, NEW e, table' = [table EXCEPT ![s] = e],
             e = EmptyEntry \/ \E fn \in Names : e = NewEntry(fn),
             last' = [last EXCEPT ![s] = NoText], damaged' = damaged \ {s},
             run = "idle", UNCHANGED <<run, data, stale>>
      PROVE  ReadInv'
  <2>1. table'[s] = e /\ e.size = 0 /\ \A t \in Slots \ {s} : table'[t] = table[t]
    BY <1>3 DEF ShareInv, Shapes, EmptyEntry, NewEntry
  <2>2. /\ last' \in [Slots -> Texts \cup {NoText}]
        /\ \A t \in Slots \ {s} : last'[t] = last[t]
    BY <1>0, <1>3 DEF Contents
  <2>3. ASSUME NEW t \in LiveSlots(table)' \ damaged', NEW i \in Covered(t)'
        PROVE  table'[t].blocks[i] \in stale' \/ Holds(t, i)'
    <3>1. t \in Slots /\ i \in Idx /\ i * BlockSize < table'[t].size /\ 0 \in 0..BlockCnt
      BY LayoutAssumption DEF LiveSlots, Covered
    <3>2. t # s
      BY <2>1, <3>1, CoveredBelow
    <3>3. t \in LiveSlots(table) \ damaged /\ i \in Covered(t) /\ table'[t] = table[t]
      BY <1>3, <2>1, <3>1, <3>2 DEF LiveSlots, Covered
    <3>4. table[t].blocks[i] \in stale \/ Holds(t, i)
      BY <1>3, <3>3 DEF ReadInv, FilesHold
    <3> QED
      BY <1>3, <2>2, <3>1, <3>2, <3>3, <3>4 DEF Holds
  <2> QED
    BY <1>0, <1>3, <2>2, <2>3 DEF ReadInv, Contents, FilesHold, TextHeld
<1>4. ASSUME NEW fn \in Names, Create(fn) PROVE ReadInv'
  BY <1>3, <1>4 DEF Create
<1>5. ASSUME NEW fn \in Names, Remove(fn) PROVE ReadInv'
  BY <1>3, <1>5 DEF Remove
<1>6. ASSUME NEW fn \in Names, NEW perm \in Perms, Chperm(fn, perm) PROVE ReadInv'
  BY <1>0, <1>6 DEF Chperm, ReadInv, Contents, FilesHold, TextHeld, Holds, Covered
<1>7. ASSUME NEW fn \in Names, NEW text \in Texts, WriteStart(fn, text) PROVE ReadInv'
  <2>1. run = "idle" /\ run' = "input" /\ UNCHANGED <<table, data, last, stale, damaged>>
    BY <1>7 DEF WriteStart
  <2>2. cmd'.text = text /\ cmd'.got = {} /\ cmd'.i = 0
    BY <1>7 DEF WriteStart
  <2>3. \A j \in Idx : ~(j < 0)
    BY DEF Idx
  <2> QED
    BY <1>0, <2>1, <2>2, <2>3 DEF ReadInv, Contents, FilesHold, TextHeld, Holds, Covered
<1>8. CASE WriteBlock
  <2>1. PICK b \in DataBlocks :
          /\ FreeFirst(b) /\ PutText(b)
          /\ cmd' = [cmd EXCEPT !.fe = Extended(b), !.i = cmd.i + 1, !.got = cmd.got \cup {b}]
    BY <1>8 DEF WriteBlock
  <2>2. /\ run = "input" /\ cmd.i # BlockCnt
        /\ UNCHANGED <<run, table, last, stale, damaged>>
    BY <1>8 DEF WriteBlock
  <2>3. cmd.text \in Texts /\ cmd.got \subseteq DataBlocks /\ cmd.slot \in LiveSlots(table)
    BY <2>2 DEF ReadInv, TextHeld, ShareInv, InputSound
  <2>4. /\ cmd'.slot = cmd.slot /\ cmd'.fe = Extended(b) /\ cmd'.text = cmd.text
        /\ cmd'.i = cmd.i + 1 /\ cmd'.got = cmd.got \cup {b}
    BY <2>1
  <2>5. /\ data' \in [DataBlocks -> (Texts \cup {NoText}) \X Idx]
        /\ \A s \in Others \ damaged : \A i \in Covered(s) :
             \/ table[s].blocks[i] \in stale
             \/ table[s].blocks[i] \in DataBlocks /\ data'[table[s].blocks[i]] = <<last[s], i>>
        /\ \A j \in Idx : j < cmd.i + 1 =>
             /\ Extended(b).blocks[j] \in cmd.got \cup {b}
             /\ data'[Extended(b).blocks[j]] = <<cmd.text, j>>
        /\ \A c \in DataBlocks \ {b} : data'[c] = data[c]
    BY <2>1, <2>2, PutKeeps
  <2>6. TextHeld'
    BY <2>3, <2>4, <2>5 DEF TextHeld
  <2>7. ASSUME NEW s \in LiveSlots(table) \ damaged, NEW i \in Covered(s)
        PROVE  \/ table[s].blocks[i] \in stale
               \/ s = cmd.slot /\ table[s].blocks[i] \in cmd.got \cup {b}
               \/ table[s].blocks[i] \in DataBlocks /\ data'[table[s].blocks[i]] = <<last[s], i>>
    <3>1. CASE s = cmd.slot
      <4>1. \/ table[s].blocks[i] \in stale \/ table[s].blocks[i] \in cmd.got \/ Holds(s, i)
        BY <3>1 DEF ReadInv, FilesHold
      <4> QED
        BY <2>5, <3>1, <4>1 DEF Holds
    <3>2. CASE s # cmd.slot
      BY <2>5, <3>2 DEF Others
    <3> QED
      BY <3>1, <3>2
  <2>8. FilesHold'
    BY <2>2, <2>4, <2>7 DEF FilesHold, Holds, Covered
  <2> QED
    BY <1>0, <2>2, <2>5, <2>6, <2>8 DEF ReadInv, Contents
<1>9. CASE Interrupt
  <2>1. /\ run = "input" /\ run' = "off" /\ UNCHANGED <<table, data, last, stale>>
        /\ damaged' = IF cmd.got \cap Held(table[cmd.slot]) = {} THEN damaged
                      ELSE damaged \cup {cmd.slot}
    BY <1>9 DEF Interrupt
  <2>2. ASSUME NEW s \in LiveSlots(table) \ damaged', NEW i \in Covered(s)
        PROVE  table[s].blocks[i] \in stale \/ Holds(s, i)
    <3>1. s \notin damaged /\ (s = cmd.slot => cmd.got \cap Held(table[s]) = {}) /\ i \in Idx
      BY <2>1 DEF Covered
    <3>2. cmd.got \subseteq DataBlocks /\ 0 \notin DataBlocks
      BY <2>1, Numbers DEF ReadInv, TextHeld
    <3>3. s = cmd.slot => table[s].blocks[i] \notin cmd.got
      BY <3>1, <3>2 DEF Held
    <3> QED
      BY <3>1, <3>3 DEF ReadInv, FilesHold
  <2> QED
    BY <1>0, <2>1, <2>2 DEF ReadInv, Contents, FilesHold, TextHeld, Holds, Covered
<1>10. CASE UNCHANGED vars
  BY <1>0, <1>10 DEF vars, ReadInv, Contents, FilesHold, TextHeld, Holds, Covered
<1> QED
  BY <1>1, <1>2, <1>4, <1>5, <1>6, <1>7, <1>8, <1>9, <1>10, WriteEndReads DEF Next

\* sfs_read prints the text that the last sfs_write of the file took in, whole
\* and in order, on a partition of any size and over any commands, quits,
\* interrupted writes and restarts; it never follows the pointer of -1.
THEOREM ReadsWhatWasWritten == Spec => []ReadBack
<1>1. ShareInv /\ ReadInv => ReadBack
  <2> SUFFICES ASSUME ShareInv, ReadInv, NEW s \in Slots, Sound(s)
               PROVE  Printed(s) = [i \in Covered(s) |-> <<last[s], i>>]
    BY DEF ReadBack
  <2>1. s \in LiveSlots(table) \ damaged
    BY DEF Sound, LiveSlots
  <2>2. ASSUME NEW i \in Covered(s) PROVE Holds(s, i)
    BY <2>1 DEF Sound, ReadInv, FilesHold
  <2>3. ASSUME NEW i \in Covered(s) PROVE \A k \in 0..i : table[s].blocks[k] # 0
    <3>1. i \in Idx /\ table[s].blocks[i] # 0
      BY <2>2, Numbers DEF Covered, Holds
    <3>2. \A k \in 0..i : k \in Idx
      BY <3>1, LayoutAssumption DEF Idx
    <3>3. Packed(table[s])
      BY DEF ShareInv, Shapes
    <3>4. \A k \in 0..i : k = i \/ k < i
      BY <3>1, Numbers
    <3> QED
      BY <3>1, <3>2, <3>3, <3>4 DEF Packed
  <2>4. {j \in Covered(s) : \A k \in 0..j : table[s].blocks[k] # 0} = Covered(s)
    BY <2>3
  <2>5. \A i \in Covered(s) : data[table[s].blocks[i]] = <<last[s], i>>
    BY <2>2 DEF Holds
  <2> QED
    BY <2>4, <2>5 DEF Printed
<1> QED
  BY <1>1, ReadInit, ReadStep, ShareInit, ShareStep, PTL DEF Spec
=============================================================================
