---------------------------- MODULE BrowseShell ----------------------------
(***************************************************************************)
(* The user-space shells on a Simula partition: part19.c (version 1: list, *)
(* create, remove), SimulaFS/browse_sfs.c (version 2: chperm, read, write) *)
(* and RealFS/browse_sfs.c (version 3: gives blocks back, checks           *)
(* permissions), with format_sfs.c.  A shell can be quit, or killed while  *)
(* sfs_write waits for input, and started again on what it left on disk.   *)
(*                                                                         *)
(* Abstracted: the bytes of a block to the text and the part of it that    *)
(* was written there last, permissions to the two bits that are looked at, *)
(* timestamps, and the wording of the commands.  The builds modelled have  *)
(* an off_t of 32 bits, where lseek by -sb.entry_size moves back.          *)
(***************************************************************************)
EXTENDS SfsOps

CONSTANTS Texts,      \* what users type into sfs_write
          Perms       \* the permissions users set with chperm, subsets of {"r", "w"}

ASSUME PermsAssumption == Perms \subseteq SUBSET {"r", "w"}

VARIABLES version,    \* which of the three programs
          run,        \* "off", "idle" at the prompt, "input" in sfs_write
          used,       \* used_blocks, of the running shell
          table,      \* the entries on the partition
          perms,      \* fe.perms of each entry
          data,       \* data[b]: text and part written last to block b
          cmd,        \* sfs_write in progress
          last,       \* history: the text of the last sfs_write of the entry that ended
          stale,      \* history: blocks given back while an entry kept pointing to them
          damaged,    \* history: entries with a block overwritten by an interrupted sfs_write
          removed     \* history: a file was removed since formatting

vars == <<version, run, used, table, perms, data, cmd, last, stale, damaged, removed>>

NoText == "none"
Bad    == -1          \* what get_data_block returns on a full partition
NoCmd  == [slot |-> 0, fe |-> EmptyEntry, i |-> 0, got |-> {}, text |-> NoText]

TypeOK ==
  /\ version \in 1..3
  /\ run \in {"off", "idle", "input"}
  /\ used \subseteq Blocks
  /\ \A s \in Slots : /\ table[s].name \in Names \cup {NoName}
                      /\ table[s].size \in 0..MaxSize
                      /\ table[s].blocks \in [Idx -> Pointers \cup {Bad}]
  /\ perms \in [Slots -> SUBSET {"r", "w"}]
  /\ data \in [DataBlocks -> (Texts \cup {NoText}) \X Idx]
  /\ last \in [Slots -> Texts \cup {NoText}]
  /\ stale \subseteq DataBlocks /\ damaged \subseteq Slots /\ removed \in BOOLEAN

-----------------------------------------------------------------------------
\* format_sfs.c writes the super block and clears the entries
Formatted(t, p, l) ==
  /\ t = [s \in Slots |-> EmptyEntry]
  /\ p = [s \in Slots |-> {}]
  /\ l = [s \in Slots |-> NoText]

Init == /\ version \in 1..3 /\ run = "off" /\ used = {}
        /\ data = [b \in DataBlocks |-> <<NoText, 0>>] /\ cmd = NoCmd
        /\ Formatted(table, perms, last)
        /\ stale = {} /\ damaged = {} /\ removed = FALSE

Format == /\ run = "off"
          /\ Formatted(table', perms', last')
          /\ stale' = {} /\ damaged' = {} /\ removed' = FALSE
          /\ UNCHANGED <<version, run, used, data, cmd>>

-----------------------------------------------------------------------------
\* What init_browsing marks.  With 32-bit addresses used_blocks[0xFFFFFFFF] is the
\* byte before the array, in the allocator's header: a pointer of -1 marks no block
Rebuilt == MarkedBlocks(table) \ {Bad}

\* main opens the partition, browse_sfs rebuilds the tracker
Start == /\ run = "off"
         /\ run'  = "idle"
         /\ used' = IF version = 1 THEN {} ELSE Rebuilt
         /\ UNCHANGED <<version, table, perms, data, cmd, last, stale, damaged, removed>>

\* quit, or the end of the commands: shut_browsing frees the tracker, and free()
\* may abort if the byte before it was marked; all commands are on disk by then
Quit == /\ run = "idle"
        /\ run' = "off" /\ used' = {}
        /\ UNCHANGED <<version, table, perms, data, cmd, last, stale, damaged, removed>>

\* sfs_lookup returns the first entry with the name
Found(s, fn) == IsFirst(s, SlotsNamed(table, fn))

\* Variant: the names are not compared
CreatableUnchecked(s, fn) == IsFirst(s, FreeSlots(table))

\* sfs_create takes the first free entry, having compared only those before it
Creatable(s, fn) == /\ IsFirst(s, FreeSlots(table))
                    /\ \A t \in SlotsNamed(table, fn) : t > s

Create(fn) ==
  /\ run = "idle"
  /\ \E s \in Slots :
       /\ Creatable(s, fn)
       /\ table'   = [table EXCEPT ![s] = NewEntry(fn)]
       /\ perms'   = [perms EXCEPT ![s] = {"r", "w"}]
       /\ last'    = [last EXCEPT ![s] = NoText]
       /\ damaged' = damaged \ {s}
  /\ UNCHANGED <<version, run, used, data, cmd, stale, removed>>

\* put_data_block on every pointer up to the first null one, in version 3;
\* put_data_block(-1) clears the byte before the array
GivenBack(e) == IF version = 3 THEN Chain(e) \ {Bad} ELSE {}

\* sfs_remove: version 3 gives the blocks back first
Remove(fn) ==
  /\ run = "idle"
  /\ \E s \in Slots :
       /\ Found(s, fn)
       /\ used'  = used \ GivenBack(table[s])
       /\ table' = [table EXCEPT ![s] = EmptyEntry]
       /\ perms' = [perms EXCEPT ![s] = {}]
       /\ last'  = [last EXCEPT ![s] = NoText]
       /\ damaged' = damaged \ {s}
  /\ removed' = TRUE
  /\ UNCHANGED <<version, run, data, cmd, stale>>

\* sfs_chperm, through sfs_update
Chperm(fn, perm) ==
  /\ run = "idle" /\ version > 1
  /\ \E s \in Slots : Found(s, fn) /\ perms' = [perms EXCEPT ![s] = perm]
  /\ UNCHANGED <<version, run, used, table, data, cmd, last, stale, damaged, removed>>

-----------------------------------------------------------------------------
\* sfs_write looks the file up and, in version 3, gives its blocks back; then
\* it waits for text
WriteStart(fn, text) ==
  /\ run = "idle" /\ version > 1
  /\ \E s \in Slots :
       /\ Found(s, fn)
       /\ version = 3 => "w" \in perms[s]
       /\ used' = used \ GivenBack(table[s])
       /\ cmd'  = [slot |-> s, fe |-> table[s], i |-> 0, got |-> {}, text |-> text]
  /\ run' = "input"
  /\ UNCHANGED <<version, table, perms, data, last, stale, damaged, removed>>

\* get_data_block returns the first unused block
FreeFirst(b) == IsFirst(b, FreeBlocks(used))

\* Variant: get_data_block does not mark the block it returns
PutTextUnmarked(b) ==
  /\ UNCHANGED used
  /\ data' = [data EXCEPT ![b] = <<cmd.text, cmd.i>>]

\* A block of the text goes to block b, the entry's next
PutText(b) ==
  /\ used' = used \cup {b}
  /\ data' = [data EXCEPT ![b] = <<cmd.text, cmd.i>>]

\* Variant: the pointers are stored one place too early
ExtendedEarly(b) == [cmd.fe EXCEPT !.blocks[IF cmd.i = 0 THEN 0 ELSE cmd.i - 1] = b]

Extended(b) == [cmd.fe EXCEPT !.blocks[cmd.i] = b]

\* The while loop: a whole block was read, and there is room for it
WriteBlock ==
  /\ run = "input" /\ cmd.i # BlockCnt
  /\ \E b \in DataBlocks :
       /\ FreeFirst(b)
       /\ PutText(b)
       /\ cmd' = [cmd EXCEPT !.fe = Extended(b), !.i = @ + 1, !.got = @ \cup {b}]
  /\ UNCHANGED <<version, run, table, perms, last, stale, damaged, removed>>

\* The end of sfs_write: the entry goes to the table.  Blocks it still points
\* to and that this call did not get were given back before (version 3).
Finish(fe, size, got) ==
  /\ table'   = [table EXCEPT ![cmd.slot] = [fe EXCEPT !.size = size]]
  /\ last'    = [last EXCEPT ![cmd.slot] = cmd.text]
  /\ stale'   = stale \cup (GivenBack(fe) \ got)
  /\ damaged' = damaged \ {cmd.slot}
  /\ run' = "idle" /\ cmd' = NoCmd
  /\ UNCHANGED <<version, perms, removed>>

\* A whole block was read and there is no room: the loop is left
WriteNoRoom ==
  /\ run = "input"
  /\ cmd.i = BlockCnt \/ FreeBlocks(used) = {}
  /\ Finish(cmd.fe, cmd.i * BlockSize, cmd.got)
  /\ UNCHANGED <<used, data>>

\* The input ends after whole blocks
WriteEnds ==
  /\ run = "input"
  /\ Finish(cmd.fe, cmd.i * BlockSize, cmd.got)
  /\ UNCHANGED <<used, data>>

\* The input ends in the middle of a block, rest bytes into it
WritePartial(rest) ==
  /\ run = "input"
  /\ \/ /\ cmd.i = BlockCnt
        /\ Finish(cmd.fe, cmd.i * BlockSize, cmd.got)
        /\ UNCHANGED <<used, data>>
     \/ /\ cmd.i # BlockCnt
        /\ \E b \in DataBlocks :
             /\ FreeFirst(b)
             /\ PutText(b)
             /\ Finish(Extended(b), cmd.i * BlockSize + rest, cmd.got \cup {b})
     \/ /\ cmd.i # BlockCnt /\ FreeBlocks(used) = {}
        /\ Finish(Extended(Bad), cmd.i * BlockSize, cmd.got)
        /\ UNCHANGED <<used, data>>

\* The user interrupts the program while it reads the text
Interrupt ==
  /\ run = "input"
  /\ run' = "off" /\ used' = {} /\ cmd' = NoCmd
  /\ damaged' = IF cmd.got \cap Held(table[cmd.slot]) = {} THEN damaged
                ELSE damaged \cup {cmd.slot}
  /\ UNCHANGED <<version, table, perms, data, last, stale, removed>>

Next ==
  \/ Format \/ Start \/ Quit
  \/ \E fn \in Names : \/ Create(fn) \/ Remove(fn)
                       \/ \E perm \in Perms : Chperm(fn, perm)
                       \/ \E text \in Texts : WriteStart(fn, text)
  \/ WriteBlock \/ WriteNoRoom \/ WriteEnds
  \/ \E rest \in 1..(BlockSize - 1) : WritePartial(rest)
  \/ Interrupt

Spec == Init /\ [][Next]_vars

-----------------------------------------------------------------------------
\* The pointers of entry s that its size covers
Covered(s) == {i \in Idx : i * BlockSize < table[s].size}

\* sfs_read prints block after block, up to the size or to a null pointer
Printed(s) ==
  [i \in {j \in Covered(s) : \A k \in 0..j : table[s].blocks[k] # 0} |->
     data[table[s].blocks[i]]]

\* Entries whose blocks nobody else was given and no interrupted call overwrote
Sound(s) == /\ Live(table[s]) /\ s \notin damaged
            /\ \A i \in Covered(s) : table[s].blocks[i] \notin stale
            /\ run = "input" => s # cmd.slot

\* What sfs_read prints is the text that the last sfs_write of the file took
\* in, whole and in order, over any sequence of commands, quits, interrupted
\* writes and restarts; the pointer of -1 a full partition leaves is never read.
ReadBack == \A s \in Slots : Sound(s) => Printed(s) = [i \in Covered(s) |-> <<last[s], i>>]

\* No two files point to one block, unless a rewrite that needed fewer blocks
\* gave it back and kept the pointer (version 3 only: version 2 gives nothing back).
NoSharing ==
  \A s, t \in LiveSlots(table) :
    s # t => (Held(table[s]) \cap Held(table[t])) \ {Bad} \subseteq stale

\* As long as nothing was removed, a name has one entry: every file that
\* sfs_list shows is the one that remove, read and write of its name reach.
OneEntryPerName ==
  removed \/ \A s \in LiveSlots(table) : Found(s, table[s].name)
=============================================================================
