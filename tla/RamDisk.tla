------------------------------ MODULE RamDisk ------------------------------
(***************************************************************************)
(* The sectors of DiskOnRAM (ram_device.c, partition.c) and the requests   *)
(* that rb_transfer of ram_block.c serves, over the life of the drivers:   *)
(* the memory comes and goes with the resource "ram" of ram_block, the     *)
(* partitions with "live", when add_disk lets the kernel read the tables.  *)
(*                                                                         *)
(* Abstracted: a sector to what was copied there last, by which request    *)
(* and from which place in the program's memory; memory that vmalloc       *)
(* returns has no known contents.  Lengths of segments are in halves of a  *)
(* sector.  PartEntry is the 16 bytes it has where unsigned long has 4,    *)
(* and every start_head and end_head is 0.                                 *)
(***************************************************************************)
EXTENDS DriverLife, FiniteSets

CONSTANTS SegLists,   \* the segments of a request, as lengths in half sectors
          Near,       \* bound: requests start within so many sectors of where they can
          MaxWrites   \* bound: writes between two loads

ASSUME RequestsAssumption ==
  /\ SegLists \subseteq Seq(Nat \ {0})
  /\ Near \in Nat /\ MaxWrites \in Nat

VARIABLES ram,     \* sector -> what was copied there, where that is known
          parts,   \* the partitions the kernel found
          last,    \* history: sector -> what programs wrote there last
          writes   \* history: write requests since the memory was taken

diskVars == <<vars, ram, parts, last, writes>>

RB_DEVICE_SIZE == 1024
SectorsPerCyl  == 32

-----------------------------------------------------------------------------
(* partition.c *)

\* start and end are <<sector, cylinder>>
PartEntry(type, start, end, abs_start_sec, sec_in_part) ==
  [type |-> type, start |-> start, end |-> end, abs |-> abs_start_sec, cnt |-> sec_in_part]

Linux    == 131
Extended == 5

def_part_table ==
  << PartEntry(Linux, <<2, 0>>, <<32, 9>>, 1, 319),
     PartEntry(Extended, <<1, 10>>, <<32, 19>>, 320, 320),
     PartEntry(Linux, <<1, 20>>, <<32, 31>>, 640, 384) >>

\* Variant: the last boot record is written a cylinder late
def_log_part_br_cylLate == <<10, 14, 19>>

def_log_part_br_cyl == <<10, 14, 18>>

\* A logical partition, and the link to the next boot record
def_log_part_table ==
  << << PartEntry(Linux, <<2, 10>>, <<32, 13>>, 1, 127),
        PartEntry(Extended, <<1, 14>>, <<32, 17>>, 128, 128) >>,
     << PartEntry(Linux, <<2, 14>>, <<32, 17>>, 1, 127),
        PartEntry(Extended, <<1, 18>>, <<32, 19>>, 256, 64) >>,
     << PartEntry(Linux, <<2, 18>>, <<32, 19>>, 1, 63) >> >>

\* What new leaves of old
Over(new, old) ==
  [s \in DOMAIN new \cup DOMAIN old |-> IF s \in DOMAIN new THEN new[s] ELSE old[s]]

copy_mbr == [s \in {0} |-> <<"table", 0, 0>>]

copy_br(i) == [s \in {def_log_part_br_cyl[i] * SectorsPerCyl} |-> <<"table", i, 0>>]

copy_mbr_n_br ==
  LET from[i \in 0..Len(def_log_part_table)] ==
        IF i = 0 THEN copy_mbr ELSE Over(copy_br(i), from[i - 1])
  IN from[Len(def_log_part_table)]

-----------------------------------------------------------------------------
(* The kernel reads the tables *)

Known(mem, s) == IF s \in DOMAIN mem THEN mem[s] ELSE <<"unknown", 0, 0>>

\* The table of the boot record at sector br, if there is one
BootTable(mem, br) ==
  IF Known(mem, br)[1] = "table" /\ Known(mem, br)[2] # 0
  THEN def_log_part_table[Known(mem, br)[2]] ELSE <<>>

\* The logical partitions: those of the boot record where the extended partition
\* starts and of the ones it links to
Logical(mem, extended) ==
  LET br[n \in 1..Len(def_log_part_table)] ==
        IF n = 1 THEN extended
        ELSE IF Len(BootTable(mem, br[n - 1])) = 2
        THEN extended + BootTable(mem, br[n - 1])[2].abs
        ELSE br[n - 1]
  IN {[BootTable(mem, br[n])[1] EXCEPT !.abs = br[n] + @] :
        n \in {m \in 1..Len(def_log_part_table) : BootTable(mem, br[m]) # <<>>}}

\* An extended partition is there for programs too, as its first two sectors (room for a
\* boot loader): its boot record and what comes next
Found(mem) ==
  IF Known(mem, 0) # <<"table", 0, 0>> THEN {}
  ELSE UNION {IF e.type = Extended THEN {[e EXCEPT !.cnt = 2]} \cup Logical(mem, e.abs)
              ELSE {e} : e \in {def_part_table[i] : i \in DOMAIN def_part_table}}

-----------------------------------------------------------------------------
(* ram_block.c *)

SumOfFirst(lengths) ==
  LET sum[i \in 0..Len(lengths)] == IF i = 0 THEN 0 ELSE sum[i - 1] + lengths[i]
  IN sum

\* sectors, of each segment
Sectors(segs) == [i \in 1..Len(segs) |-> segs[i] \div 2]

\* sector_offset after the first i segments
Offset(segs, i) == SumOfFirst(Sectors(segs))[i]

\* Where segment i begins in the request's data, in half sectors
Place(segs, i) == SumOfFirst(segs)[i - 1]

Count(segs) == SumOfFirst(segs)[Len(segs)] \div 2

\* Variant: sector_offset is moved before the copy
MovesLate(segs) ==
  UNION {{<<Offset(segs, i) + k, Place(segs, i) + 2 * k>> : k \in 0..(Sectors(segs)[i] - 1)} :
           i \in DOMAIN segs}

\* What rb_transfer copies: sectors from the start of the request, and the place
\* of each in its data
Moves(segs) ==
  UNION {{<<Offset(segs, i - 1) + k, Place(segs, i) + 2 * k>> : k \in 0..(Sectors(segs)[i] - 1)} :
           i \in DOMAIN segs}

\* rb_transfer returns 0
Succeeds(segs) ==
  /\ \A i \in DOMAIN segs : segs[i] % 2 = 0
  /\ Offset(segs, Len(segs)) = Count(segs)

\* Where requests to partition p start.  The block layer lets none through that
\* leaves the partition.
Inside(p, segs) ==
  LET room == p.cnt - Count(segs)
  IN (0..(Near - 1) \cup (room - Near + 1)..room) \cap 0..room

\* ramdevice_write, of every segment: what sectors start on hold then
Written(start, segs, n) ==
  [s \in {start + m[1] : m \in Moves(segs)} |->
     <<"data", n, (CHOOSE m \in Moves(segs) : start + m[1] = s)[2]>>]

\* rb_request takes a write request off the queue, under the queue's lock, and
\* ends it with what rb_transfer returns; after an error its sectors are anyone's guess
rb_request(p, off, segs) ==
  LET start == p.abs + off
      asked == start..(start + Count(segs) - 1)
  IN /\ opened /\ writes < MaxWrites
     /\ writes' = writes + 1
     /\ ram'  = Over(Written(start, segs, writes'), ram)
     /\ last' = IF Succeeds(segs)
                THEN Over([s \in asked |-> <<"data", writes', 2 * (s - start)>>], last)
                ELSE [s \in DOMAIN last \ asked |-> last[s]]
     /\ UNCHANGED <<vars, parts>>

-----------------------------------------------------------------------------
Empty == [s \in {} |-> 0]

DiskInit == Init /\ ram = Empty /\ parts = {} /\ last = Empty /\ writes = 0

\* A step of a driver's life: ramdevice_init writes the tables, ramdevice_cleanup
\* frees the memory, add_disk has the partitions read
Live ==
  /\ Next
  /\ IF "ram" \in held /\ "ram" \in held'
     THEN UNCHANGED <<ram, last, writes>>
     ELSE /\ ram' = IF "ram" \in held' THEN copy_mbr_n_br ELSE Empty
          /\ last' = Empty /\ writes' = 0
  /\ parts' = IF "live" \notin held' THEN {} ELSE IF "live" \in held THEN parts ELSE Found(ram)

Transfer ==
  \E p \in parts, segs \in SegLists : \E off \in Inside(p, segs) : rb_request(p, off, segs)

DiskNext == Live \/ Transfer

DiskSpec == DiskInit /\ [][DiskNext]_diskVars

-----------------------------------------------------------------------------
\* ramdevice_read, of every segment: a read request that succeeds brings every
\* sector, in order, with what was last written there, through whichever partition,
\* however the writes before were cut into segments, wherever they went and
\* whichever of them failed.
ReadsWhatWasWritten ==
  \A p \in parts, segs \in SegLists : \A off \in Inside(p, segs) :
    Succeeds(segs) =>
      /\ {m[2] : m \in Moves(segs)} = {2 * j : j \in 0..(Count(segs) - 1)}
      /\ \A m \in Moves(segs) :
           LET s == p.abs + off + m[2] \div 2
           IN s \in DOMAIN last => Known(ram, p.abs + off + m[1]) = last[s]

SectorsOf(p) == p.abs..(p.abs + p.cnt - 1)

\* <<sector, cylinder>> as a sector of the device
FromGeometry(c) == c[2] * SectorsPerCyl + c[1] - 1

\* The boot records that programs cannot reach: all but the one that the extended
\* partition begins with
OutOfReach == {s \in DOMAIN copy_mbr_n_br : s # def_part_table[2].abs}

\* Whatever programs write through partitions, the kernel would find the same six
\* again, unless somebody wrote on the boot record that the extended partition
\* begins with: then it would find those that are not logical.  All are inside the
\* device and clear of the other boot records; those that hold data are clear of
\* that one too and apart from each other, and both ways in which their entries say
\* where they are agree.
LayoutSound ==
  "live" \in held /\ driver = "ram_block" =>
    /\ Cardinality(parts) = 6
    /\ Found(ram) = IF BootTable(ram, def_part_table[2].abs) # <<>> THEN parts
                    ELSE {p \in parts : p.abs \in {e.abs : e \in {def_part_table[i] : i \in 1..3}}}
    /\ \A p \in parts :
         /\ SectorsOf(p) \subseteq 0..(RB_DEVICE_SIZE - 1)
         /\ SectorsOf(p) \cap OutOfReach = {}
         /\ p.type # Extended =>
              /\ SectorsOf(p) \cap DOMAIN copy_mbr_n_br = {}
              /\ FromGeometry(p.start) = p.abs
              /\ FromGeometry(p.end) = p.abs + p.cnt - 1
              /\ \A q \in parts \ {p} :
                   q.type # Extended => SectorsOf(p) \cap SectorsOf(q) = {}
=============================================================================
