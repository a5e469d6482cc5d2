# linuxpedia: models, checks and proofs

linuxpedia is a collection of Linux device drivers, a small file system and
examples.  This directory holds TLA+ models of the parts that keep state, TLC
configurations that check them on small instances, and proofs that TLAPS checks
for every value of the constants.

## The system: inventory

The repository is not one program.  Its modules share the kernel, not state;
within each one the actors are the processes that make system calls, the kernel
threads that call the driver back, and `insmod`/`rmmod`.

| Part | State | Operations | What is hard | What makes it correct |
|---|---|---|---|---|
| **Simula file system** (`lfy_dd_series/18-25-Filesystem/7_nov12/RealSFSInAction`) | entry table on the partition; `info->used_blocks` in memory; VFS inodes, dentries and buffers | `sfs_fill_super`, `sfs_kill_sb`, lookup, create, unlink, `sfs_get_block`, `sfs_write_begin`, `sfs_write_inode`, readdir, fsync | four caches of one fact (table, tracker, inode, buffer), write-back later than the call, removal while open, running out, remounting, no locks around the table | tracker = what the table points to; no block with two owners; a buffer points where the table does; the size a program saw is the one saved |
| **its formatter** (`format_real_sfs.c`) | the layout of the partition | `main` | rounding of the table's size | the layout fits the partition |
| **its forerunners in the kernel** (`5_sep12`, `6_oct12`) | what a mount has taken | fill and kill of the super block, module init and exit | failures half-way through a mount | what a mount took is given back once |
| **the shells** (`2_june12/part19.c`, `3_july12` and `4_aug12/browse_sfs.c`) | the same table and tracker, one process | create, list, remove, chperm, read, write | failed allocations, shorter rewrites, quitting and being killed while input is read | what is read is what was written; no block with two owners; a name finds its file |
| **lkm5 `sleep.c`** (`/proc/sleep`) | `Already_Open`, `WaitQ`, the module's use count, `finished` | `module_open`, `module_close`, `module_output`, load, unload | test-then-set with sleep in between, wake-ups, signals, references on every way out | one opener; no lost wake-up; references balance; killed processes leave |
| **charexample, lkm3_char** (`chardev.c`) | `Device_Open`, `Message`, `Message_Ptr` | open, release, read, write, three ioctls | counter without a lock, message that fills the buffer | device free again after the last close; a read ends at the terminator |
| **mod4, mod5/module5** | `flagopen`, the byte recorded last, the port | open, release, read, write, ioctl | the same, and two copies of one byte | the same; a program reads back its own byte |
| **vdrv, query_ioctl, ofcd, ocd, proc_window, procex, procfs1, exp_debugfs, our_glob_syms, platform_test, platform_driver, spi_example** | what the driver has registered or mapped | init, exit | failure half-way through init | what init took is given back once, on each failure and at exit |
| **DiskOnRAM** (`ram_block.c`, `ram_device.c`, `partition.c`) | sectors, request queue | request transfer, partition table, geometry | sector arithmetic at the limits | each sector of a request is copied once, inside the device |
| **interrupt, timer, hrtimer, tasklet examples** | the pending callback | arm, callback, exit | callback against unload | no callback after exit |
| kprobes, simple modules, scripts, exercises, notes | none | | | |

In the file system the interactions are calls: a program's system call enters
the VFS, which takes its locks, consults its dentry and inode caches, and calls
the handlers in `real_sfs.c`; these call the operations in `real_sfs_ops.c`,
which read and write whole entries of the table and bits of the tracker.  The
flusher thread calls `sfs_write_inode` at any moment later, memory reclaim drops
pages, dentries and inodes.  In `sleep.c` the interaction is the shared flag and
the wait queue.

`PROJECT.json` lists every component with its status, and under `hazards` the
places where each of these parts could go wrong.

## Modules

| Module | Models |
|---|---|
| `SfsOps` | the operations of `real_sfs_ops.c` as operators on the table and the tracker |
| `RealSfs` | the handlers of `real_sfs.c` under the VFS; properties |
| `BlockPool` | abstract: blocks are free or owned by one file |
| `FileStore` | abstract: names with sizes, open files; no caches |
| `MCRealSfs` | constants for TLC |
| `SfsOpsProofs` | lemmas about the operators of `SfsOps`, shared by the proofs about `RealSfs` and `SfsRace` |
| `RealSfsProofs` | proofs about `RealSfs`: types, the two caches, the accounting of blocks, what inodes keep |
| `RealSfsRefineProofs` | proofs that `RealSfs` implements `BlockPool` and `FileStore` |
| `SfsRace` | the handlers step by step: the flusher against programs, I/O errors, crashes, directory listing; properties |
| `MCSfsRace` | constants for TLC |
| `SfsRaceProofs` | proofs about `SfsRace` |
| `BrowseShell` | the user-space shells, on the operators of `SfsOps`; properties |
| `MCBrowseShell` | constants for TLC |
| `BrowseShellProofs` | proofs about `BrowseShell` |
| `SleepOpen` | `module_open`, `module_close`, `module_output` of `sleep.c`, the wait queue, signals; properties |
| `MCSleepOpen` | constants for TLC |
| `SleepOpenProofs` | proofs about `SleepOpen` |
| `ExclusiveOpen` | the open counter and the module references of four character drivers |
| `CharDev` | extends it by the message of `charexample` and `lkm3_char`; properties |
| `PortDev` | extends that by the byte of the parallel port in `module4` and `module5`; a property |
| `MCCharDev` | constants for TLC |
| `CharDevProofs` | proofs about the counter and the references, the message and the port byte |
| `DriverLife` | what twenty-eight drivers and mounts take and give back when loaded, failing to load, and unloaded; properties |
| `RamDisk` | extends it by the sectors, partition tables and requests of DiskOnRAM; properties |
| `MCRamDisk` | constants for TLC |
| `RamDiskProofs` | proofs about `DriverLife` and `RamDisk` |

### RealSfs

`table` is the entry table on the partition as `read_sb_from_real_sfs`,
`read_entry_from_real_sfs` and their writers see it (through the buffer cache,
so a write is seen at once), `used` the blocks marked in `info->used_blocks`.
`dcache`, `inodes` and `writing` are the VFS's: the dentry of each name, the
in-memory inodes (their entry, size, link count, hashing, dirtiness, whether they
are open, and the blocks their buffers are mapped to), and which block is between
`sfs_write_begin` and `generic_write_end`.  Each handler is one action.  Data
bytes, permissions and times are left out; names are kept only as far as being
cut to fifteen characters on disk (`Stored`), sizes are in bytes.

Handlers are atomic.  The VFS's directory mutex justifies that among lookup,
create and unlink, its inode mutex between write and truncate; it does not
between `sfs_write_inode` and the others, nor between two files.  What happens
there is the subject of `SfsRace`.

`Workload` names what programs and the flusher do beyond the plainest use,
because the properties differ in what they survive:

| | plain | `seek` | `mid_write` | `unlink_open` | `copy_fault` | `read_error` |
|---|---|---|---|---|---|---|
| `OneInodePerFile`, `NamesFound` | hold | hold | hold | hold | hold | hold |
| `DentryTruth`, `NeverExistsAlready` | hold | hold | hold | hold | hold | fail |
| `SizeWillBeSaved`, `StoreSpec` | hold | hold | hold | fail | hold | fail |
| `MappedOwned` | holds | holds | fails | fails | fails | holds |
| `AccountingExact` | holds | fails | fails | fails | fails | holds |
| `NoCrossLink`, `RemountAgrees`, `ReadableBelowSize` | hold | fail | fail | fail | fail | hold |

- `seek`: a file with a hole keeps the blocks after the hole at removal
  (`sfs_remove` stops at the first null pointer) and loses them at the next mount
  (`init_browsing` stops there too), after which they are handed out twice.  A
  file that was grown has bytes for which `sfs_get_block` finds no block.
- `mid_write`: `sfs_write_inode` between `sfs_write_begin` and the end of the write
  still has the old size, and `sfs_update` gives the new block back although a
  buffer is mapped to it; `copy_fault` is the same with the write never moving
  the size.
- `unlink_open`: `sfs_inode_unlink` removes the entry at once; the inode that is
  still open goes on using the entry's number, which may be another file's by then.
- `read_error`: `sfs_lookup` returns -1 for an entry it could not read as for a name it
  did not find, and `sfs_inode_lookup` makes a negative dentry of both.  A file that
  exists cannot be seen then; the duplicate test of `sfs_create`, made again under
  the directory's mutex, keeps its name from being stored twice.  A failed read in
  `sfs_update` loses a size, as the inode counts as written.

`Unmount` asks for no file to be open, which the VFS sees to, and for nothing else.
`sfs_kill_sb` frees the tracker and `info` first, and `kill_block_super` then has
`sfs_write_inode` write the inodes that are still dirty through the freed memory.
`Leftover` says what comes of it: each unsaved size gets to the table or is lost.
What another user of that memory may have written there, and where a write
through it could then go, is not modelled.  So `StoreSpec` promises that unmounting
takes a size back to the last one saved at worst, and `SizeWillBeSaved` that nothing else
loses one.

A write covers a part of two blocks at most: `WriteBegin` maps one, `WriteFails` and
`WriteRefused` are the requests of which the second or the first block is refused.
The write that ends a handler goes to a buffer just read and succeeds here; `SfsRace`
has failing ones.

### SfsRace

The same handlers, cut where they read an entry, take or give back one block, and
write the whole entry back.  `table` is the entries as the buffers have them, `disk` as
the disk has them; `job[t]` is the handler a task, or the flusher, is in, with its copy of
the entry.  The VFS's mutexes keep two writers of a file apart, and two changes of
the directory; nothing keeps the flusher apart from either.  An inode is reduced
to the size it will be saved with; unmounting loses it, as it may in `RealSfs`.  A behaviour has one `scene`: entry reads and
writes that fail (`"io"`), a machine that crashes (`"crash"`), or a program that lists the
directory (`"list"`).

Three histories say when the code is already known to go wrong, and the
properties hold until then; each of them is needed, as TLC finds a violation
without it:

- `overlap`: a handler began on an entry while another was at work on it.  A
  flusher that read the entry before `sfs_get_block` stored it writes its old copy
  back, and the new pointer is gone with its block still marked; between the
  store and the end of the write it gives the new block back.  A flusher that
  read the entry before unlink and create reused it overwrites the new file.
- `lost`: a write of an entry that gave blocks up did not reach the disk, by a
  crash or by `-EIO`.  The blocks were handed to another file meanwhile.
- `failed`: `write_to_real_sfs` returned `-EIO` or `-EINVAL` and its callers, which test for
  -1, went on.  The tracker then has blocks the table does not point to, until the
  next mount; and the entry may have a hole, past which the next mount marks
  nothing.

What the properties say is that there is no other way: different files may be
written, truncated, removed and saved at once in any interleaving (the tracker's
lock is enough for that), and a crash at any point leaves shared blocks only
between an entry and one whose smaller version was still to be written.
`ListingWhole` says that a listing brings no name twice, whatever happens.  That it
brings every name that stayed it claims before `overlap` only (an outdated entry may
bring a removed file back), and not where one call returned a part of the
names: `sfs_readdir` lists at position 2 only, and what did not fit is never returned.

### BrowseShell

One process runs one of the three versions of the shell (`version`) on the entries
(`table`, `perms`) and blocks (`data`) of the partition, with its tracker in memory (`used`).
A command is one action, but for `sfs_write`, which reads text block by block: it is
`WriteStart`, any number of `WriteBlock`, and an end, and it can be killed in between
(`Interrupt`).  `data` says of a block which text and which part of it was put there
last, so that `ReadBack` compares what `sfs_read` prints with what `sfs_write` took in.

- A full partition makes `sfs_write` store -1 as a pointer.  It lies past the size and
  is never read.  At the next start `init_browsing` marks `used_blocks[0xFFFFFFFF]`, which
  with addresses of 32 bits is the byte before the array, in the allocator's
  header: the shell goes on with the tracker it would have had (`Rebuilt`), and at
  worst `free` aborts when it is quit, after everything was written.
- A rewrite that needs fewer blocks keeps pointers to blocks that were given
  back.  `stale` records these; two files never share any others.
- After a removal `sfs_create` takes the hole without comparing the names that
  come later, and a name can have two entries.  `OneEntryPerName` holds until then.

`lseek(handle, -sb.entry_size, SEEK_CUR)` has an unsigned operand: it steps back where
`off_t` has 32 bits, and 4 GB forward where it has 64.  The model is of the former.

### SleepOpen

One process takes a step at a time; a step is what happens between two points
where the code sleeps, tests shared state or makes it visible: `Enter`, `Get`
(`try_module_get`), `Test` of `Already_Open`, `Wait`, `Prepare` and `Sleep`
(`wait_event_interruptible`), `CheckSignals` (the loop over `is_sig`), `SetOpen`, `Read`,
`Close`, `Wake`, `Put`.  With `Preempt` TRUE the processes interleave anywhere (several
processors, or a preemptible kernel); with FALSE a process keeps the processor
until it sleeps or returns to user mode.  `Signals` says where signals are queued:
`"private"` to the thread, `"shared"` to the process.

### ExclusiveOpen and CharDev

`ExclusiveOpen` is the protocol that `device_open`/`device_release` of `charexample/chardev.c` and
`lkm3_char/chardev.c`, `module4_open`/`module4_release` and `module5_open`/`module5_release` share: test a
counter (`count`), load it (`reg`), store it plus one; at release load and store
it minus one.  Each of these is a step of its own, so that two tasks can be
anywhere in them.  `file` says which open file a task has, `refs` is the use count of
the module.  `setting` is chosen at the start and never changes:

- `driver`: the two that set `.owner` have their references taken by the kernel before
  open is entered, the others call `try_module_get` themselves at its end;
- `serial`: the kernel runs one open handler at a time (kernels that take the big
  lock in `chrdev_open`) or not;
- `forks`: programs share an open file by `fork`, so that release is not called at
  every close.

`CharDev` adds the message buffer and its pointer: `device_read`, `device_write`,
`IOCTL_SET_MSG` with the length its loop really finds (the first character is
fetched twice), `IOCTL_GET_MSG`.  A file operation is one step of a task that is
`Alone` with the device.  `Full` says whether programs also write texts that fill
the buffer; with it `ReadsInside` fails, as no terminator is left.

`PortDev` adds the port and the byte recorded for it.  `module4_write` sends and
records in two steps; `module5_ioctl` sends and never records, so that `MODULE5_GVALUE`
always returns 0, although a comment promises the last value written.  For
`MODULE5_IOCRESET`, a command without argument, `err` is tested and was never set: both
outcomes are allowed.

### DriverLife and RamDisk

Each driver is a table: the steps of its init in order, for each the undo list of
its failure path, and the list of its exit.  A step is `checked` (a failure is
noticed), `missed` (the code tests for another value than the kernel returns, NULL
against an error pointer for instance, and goes on), `minded` (init goes on and
exit remembers) or `sure`.  One machine runs the tables: `Insmod`, `Take`, `Fail`,
`Loaded`, `Rmmod`, `GiveBack`, `Gone`, against `Open`/`Close` by programs and
`CallBack`/`Return` by timers, tasklets, interrupts and probes.

A mount of the file system is a table too (`sfs_init`, `real_sfs`, `real_sfs_minimal`, `real_sfs_bb`):
`sfs_fill_super` takes the block size, `info`, the tracker and the root inode, `sfs_kill_sb` gives
back, also after `sfs_fill_super` failed.  It is of kernels before 3.4, where
`d_alloc_root` is called; `d_make_root` drops the inode itself when it fails, and the code
would drop it once more.

`LeftBehind` and `CutShort` record what the code does not give back, and whose code can
be reached after it is gone: `vdrv` keeps its mapping when a later step fails,
`query_ioctl` its region when `cdev_add` fails, `exp_debugfs` its directory when a file
cannot be made, `platform_test` its two devices (`platform_device_del` drops no
reference); `timer1`'s `del_timer` does not wait for a running timer, `jprobe`'s init
returns no value.  `NotItsOwn` names what failure paths free that they have no
more: `info` and the tracker of a failed mount, which stay in `s_fs_info` for `sfs_kill_sb`,
and the entry of `procfs1`; `FreesEarly` the mount whose `info` is freed before the last
inodes are written back, and only while it is unmounted.  The properties say that
there is nothing else.

`rb_major` is unsigned, and the test in `rb_init` is `rb_major <= 0`: an error of
`register_blkdev` passes for a major number (`missed`), the undo list of that step is dead
code (with its message, "rb: Unable to get Major Number"), and the disk goes live
without one.  What the disk's handlers use, `Used`, is there nevertheless.  Of a `missed` resource
`GivesBackItsOwn` lets the driver give back what it believes it has.

`Used` names what handlers and callbacks use of what init takes: the memory of `vdrv`,
memory, queue and disk of `ram_block`, `info` and tracker of a mount, the I/O port of
`module4` and `module5`.  The others work on static data.  The port is asked for after
`cdev_add` has published the device, and used even when somebody else has it ("but
we'll use it anyways!"): `UsedAnyway` exempts these two cases from `HandlersReady`.

`RamDisk` follows the memory of DiskOnRAM from `ramdevice_init` to `ramdevice_cleanup`: the tables
that `copy_mbr_n_br` writes, the partitions the kernel finds there when the disk goes
live, and write requests to them.  A request is one step, as `rb_request` runs with
the queue's lock held.  A sector is what was copied there last, by which request
and from which place of its data; segments may end inside a sector, and then the
request fails.  The sizes and addresses are the code's own (1024 sectors, 32 to a
cylinder).  Requests start anywhere within `Near` sectors of the two ends of what a
partition leaves them.  The kernel finds six: two primary ones, three logical ones, and the extended partition itself, as its
first two sectors.  Through it programs reach the boot record at sector 320 and the
first sector of the first logical partition.  An entry of the partition table has the 16 bytes that `copy_mbr` copies
where `unsigned long` has 4; where it has 8 an entry has 24 and the tables are cut.

## Runs

| Run | Shows | Size |
|---|---|---|
| `sfs_plain` | the plainest workload, with failing reads of the table: tracker, buffers, names and inodes | 80,293 states |
| `sfs_refine` | with a table that can be read: true dentries, sizes that will be saved, and `RealSfs` implements `BlockPool` and `FileStore` | 66,875 states |
| `sfs_hole_leak` | violation: "Free up all allocated blocks" does not hold after a seek | |
| `sfs_long_names` | violation: "already exists. Should never happen." can happen, by a name that is cut | |
| `sfs_race` | two programs and the flusher step by step, with failing writes, with crashes, with listings | 530,367 states |
| `browse` | three versions of the shell, any sequence of commands, kills and restarts | 1,637,664 states |
| `sleep_smp` | two processes, any interleaving: references, flag, wake-ups, killed processes, lone waiters | 8,944 states |
| `sleep_uni` | three processes without preemption: exclusion, end of file | 2,662 states |
| `sleep_signals` | violation: a process-wide signal does not interrupt the open | |
| `chardev` | four drivers, every interleaving of loads and stores: references, code, message, port byte; with one open at a time also counter and exclusion | 102,170 states |
| `chardev_busy` | violation: a lost increment leaves the device busy for ever | |
| `driver_life` | every failure of every step of twenty-eight drivers and mounts; partitions and transfers of DiskOnRAM | 68,950 states |

Bounds.  Two names, two inode objects and two entries are the least with which a
name can be reused in another entry, an inode outlive its file, and a table be
full.  `sfs_plain` has two bytes a block, the least that makes rounding matter, and two
data blocks against four pointers (two entries of two): one file can have them
all.  `sfs_refine` has three, so that the pointers of a file can run out before the
partition does, and one byte a block; what it checks is not about rounding.  Names and inode objects are symmetric in the
runs that check safety only.  In `SleepOpen` two processes give every pairwise race; a
third one, without preemption, gives the queue with two waiters.  In `CharDev` two
tasks give the races of two opens and of an open with a release; a buffer of
three characters over two letters holds a message that is shorter than, as long
as, and just too long for what is left of it.  `DriverLife` has no bound: the tables
are as long as the code.  `RamDisk` has `MaxWrites` = 2 writes between two loads, that
start at one of the first two or the last two places (`Near` = 2) of each of the six
partitions, the least with which one overwrites the other in part; the segment lists are whole sectors, one
and several, and halves that add up to a sector or do not.  `SfsRace` has two
entries, two blocks and two programs beside the flusher: every pair of handlers,
on one file and on two, and a partition that runs out; `Longest` caps the blocks of a
file by scene (two with I/O errors; one with crashes, where the lagging disk
multiplies the states; one for listings, which look at names only).  Its
constraint `Clean` stops at states after `overlap` or `lost`, of which nothing is
claimed.  `BrowseShell` has two entries of two blocks of two bytes over two data
blocks: one file can take them all, and text can end inside a block.  No other
counter is capped by a guard: every variable is bounded by the constants.

`OneInodePerFile` and `NamesFound` are checked on the plain workload with failing reads,
`DentryTruth` on the plain one; that they hold in every workload
(`DentryTruth` in those with a readable table) is proved.

Deadlock is checked in every run: there is always something a program may do next.

Fairness.  Safety runs assume none.  `sleep_smp` and `sleep_signals` use
`FairSpec`: a process inside `module_open` or `module_close` goes on taking steps (the
scheduler runs what is runnable), and a process that was killed has its file
closed (the kernel does that on exit).  Nobody has to open, to close, or to send
a signal.

## Violations

- `sfs_hole_leak` (`real_sfs_ops.c:238`), `sfs_long_names` (`real_sfs_ops.c:196`),
  `sleep_signals` (`sleep.c:159`) and `chardev_busy` (`charexample/chardev.c:48`): see `findings` in
  `PROJECT.json`.
- `sfs_lookup` returns -1 for an entry it could not read (`real_sfs_ops.c:217`), and
  `sfs_inode_lookup` makes a negative dentry of that (`real_sfs.c:222`): with `read_error`
  in the workload `DentryTruth` and `NeverExistsAlready` fail, and a create of a name that is
  in the table reaches "already exists. Should never happen."  The cleanup of a
  failing create meets the same: `sfs_remove` looks the name up again
  (`real_sfs.c:174`), and if that read fails the entry stays, with a negative dentry
  (`CreateUndone`).
- A negative error of `register_blkdev` passes the test of the unsigned `rb_major`
  (`ram_block.c:164`), as the table of `ram_block` in `DriverLife` says.
- With preemption, two processes pass the test at `sleep.c:125` before either sets the
  flag at line 185; `OneHolder` fails there and is checked, and proved, without it.

## Proofs

All theorems hold for every value of the constants that satisfies the named
assumptions: `LayoutAssumption` and `NamesAssumption` of the file system's layout and names,
`ValuesAssumption`, `WorkloadAssumption` and `NegativeAssumption` of `RealSfs`, `TasksAssumption` of
`SfsRace`, `PermsAssumption` of `BrowseShell`, `ProcsAssumption` of `SleepOpen`, `TasksAssumption`,
`MessageAssumption` and `BytesAssumption` of the character drivers, `RequestsAssumption` of `RamDisk`.
They say what kind of thing a constant is, or that two special values differ.
Some theorems are about a part of what can happen, and say so in their statement:
`Plain`, `Tame`, `Whole`, `~Preempt`, `ReadsToEnd`.

`RealSfs`, handlers atomic:

- `RealSfsProofs!TypeCorrect`: `Spec => []TypeOK`, in every workload.  `TypeOK` is
  inductive with the VFS's own rules in it: a dentry's inode exists, a write in
  progress has its file open, nothing is cached while unmounted.  It says that a
  block pointer is null or in the data area, so no handler ever hands out the
  super block or the table.
- `InodeCacheExact`: `Spec => []OneInodePerFile`, in every workload.  The
  lemma `InodeLife` says of any step that it makes one inode, hashed only where
  the entry has none, or keeps each inode's entry and hashing or discards it.
- `NamesAreFound` (`NamesFound`: no name is in two entries, `NamesStoredOnce`, and a dentry
  with an inode has the right one, `InodesOfTheirNames`), in every workload, for
  names that are stored whole; `DentryCacheTrue` (`DentryTruth`), if moreover the table can be
  read.  They are inductive together: `sfs_create` tests for the name itself, so that
  the names need no true dentries, and a dentry with an inode comes from the scan.
- Under `Plain` (no workload but failing reads of the table, names stored whole), each as a theorem of its own:
  `AccountingCorrect` (`AccountingExact`), `BlocksHaveOneOwner` (`NoCrossLink`), `RemountIsFaithful`
  (`RemountAgrees`) and `BytesHaveBlocks` (`ReadableBelowSize`).  None of them is inductive.  `AccountInv` adds what
  makes them so: of an entry, that no null pointer comes before a set one (so that
  the loops that stop at the first null pointer meet all), that the size is backed
  by blocks, and that a free entry has none; of an inode, that it is linked and
  hashed and its entry live, that a buffer is mapped below the size or for the
  write in progress, and that this write has its block and starts at the end of
  file at most.  The arithmetic is in `NeededIff`: the blocks `sfs_update` gives back
  are exactly those that start at or past the size.
- `SizesAreSaved` (`SizeWillBeSaved`) under `Tame`: names are stored whole, the table can be read and
  no file is removed while it is open, but programs may seek, copies fail, and the flusher come in the
  middle of a write.  `BuffersStayOwned` (`MappedOwned`) under `Plain`, and under `Tame` with `seek` only.  Their
  invariant, `InodesKept`, needs nothing of the tracker: an inode is linked and hashed and
  its entry live, a clean one has the entry's size, and buffers are mapped to the
  entry's blocks, below the size or for the write in progress.  The lemma `OneInodeStep`
  says that a step at one inode and its entry does not disturb another
  (`OneInodePerFile`), so that each handler is looked at alone.
- `RemovalFreesAll` (`RemoveFreesAll`) under `Plain` and `NeverExists` (`NeverExistsAlready`) for names that are stored
  whole and a readable table: it takes a richer workload, as in the run
  `sfs_hole_leak`, to break the one, and a long name, as in `sfs_long_names`, or a failed read in a
  lookup to break the other.
- `PointersNeverMove`: `BlocksStay`, in every workload: a pointer that is set is cleared
  before it is set again.  No run checks it; `PoolSpec` says the same of the blocks of a file.
- `RealSfsRefineProofs!ImplementsBlockPool`: `Spec => PoolSpec` under `Plain`.  With `AccountInv` a
  block is free, mounted or not, when no entry points to it; a step that drops
  pointers is a release (unmounting may drop some of several files), `sfs_get_block`
  takes, and the others stutter.
- `RealSfsRefineProofs!ImplementsFileStore`: `Spec => StoreSpec` under `Tame`: whatever becomes of
  blocks then, names and sizes are right.  The size a program
  would see of a name is that of its hashed inode, else that of its entry, and
  `SeenFacts` shows that unique names and unique inodes leave no choice in it.  `FileStore`
  also has the size last saved of each name (`kept`), which is the entry's.  A step
  that only fills or empties a cache stutters, the flusher saves one name
  (`FlushStep`), writing and truncating change the size of one name, which takes that
  an open file has a dentry (`OpenNamed`), and unmounting is `Detach`, which loses any of the
  unsaved sizes (`UnmountStep`).  `SizesAreSaved` is why dropping an inode changes nothing.

`SfsRace`, handlers step by step, any number of programs, entries and blocks:

- `SfsRaceProofs!FilesShareNoBlock` (`NoTwoOwners`), `DiskFilesShareNoBlock` (`DiskSharesOnlyPending`) and
  `TrackerIsExact` (`TrackerExactAtRest`).  The invariant `RaceInv` is in four parts, each claimed
  as long as the histories `overlap`, `lost` and `failed` let it hold: types and what each
  task can be at (`Typed`); a handler's copy of an entry differs from the entry by what
  the handler did itself (`Copies`); each block has one owner, which is the copy of the
  handler that works on an entry, else the entry (`Owned`), and is marked; and every
  marked block has an owner, sizes are covered by blocks, and handlers are going to
  write entries that are sound (`Sound`).  The lemma `OwnsAt` reduces a step of a handler to
  what its own entry owns before and after; one lemma per handler then says what
  that is.
- `SfsRaceProofs!ListingIsWhole` (`ListingWhole`).  `DirInv` says that names come at position 2 only
  and once, and that a name that stayed is still in the table.

The shells:

- `BrowseShellProofs!SharedOnlyWhenStale`: `NoSharing`, for any partition, files and texts.
  `ShareInv` adds that no null pointer comes before a set one (so that the loops
  that stop at the first null pointer give back and mark every block), and what
  the tracker has: at the prompt all blocks that are kept, in the middle of
  `sfs_write` those of the other files and those the call got.
- `BrowseShellProofs!ReadsWhatWasWritten`: `ReadBack`.  `ReadInv` says of every block that a size
  covers that it holds its part of the text (`FilesHold`), and of the call in progress
  that its blocks hold what it took in so far (`TextHeld`).  A block that
  `get_data_block` returns is held by nobody (`FreeHoldsNothing`, from `ShareInv`), so that filling
  it changes no other file.
- `BrowseShellProofs!NamesFindTheirFiles`: `OneEntryPerName`, for names that are stored whole:
  until a removal the files come first in the table, so that the entries before
  the first free one are all there are.

The drivers:

- `SleepOpenProofs`: `RefsAlwaysExact`, `FlagNeverStuck`, `WakeupsNotLost` and
  `ExclusiveWithoutPreemption`, for any number of processes.  The inductive invariant
  joins the three to the type invariant: a wake-up is not lost because whoever
  clears the flag is at `wake_up` next, and a sleeper re-tests after it is queued.
- `SleepOpenProofs!MessageComesFirst`: `EndAfterMessage`, an action property, without preemption
  and for programs that read to the end.  While `finished` is 1 the process that has
  the file open has heard the message (`EndHeard`); only exclusion (`UniInv`) makes it the
  same one that reads next.
- `CharDevProofs`: `UseCountExact`, `OpenCounterExact`, `OneProgram` and `OwnedCodeStays`, for any
  number of tasks, of `PortSpec`, the specification the run `chardev` checks: reading,
  writing and the port leave the counter and the references alone
  (`PortStepLocks`).  The references are inductive with the facts that a task with a
  file is outside of open and release, and that nobody is anywhere while the
  module is not loaded.  The counter needs more (`CountInv`): with one open at a time
  it is 0 or 1 and says which, and the value a task has loaded is still the
  counter's when it stores.
- `CharDevProofs`: `ReadingEndsInside`, `SettingSets` and `OwnByteRead`, for any buffer, texts and
  bytes.  Behind the first is that the last place of the buffer stays NUL;
  behind the last, that one task has a file, so that the byte on the port is the
  one it is about to record.
- `RamDiskProofs`: `AllGivenBack` (`NothingLeft`), `OnlyItsOwn` (`GivesBackItsOwn`), `ParentsOutlast` (`ParentsLast`),
  `NobodyInGoneCode` (`CodeStays`) and `HandlersAreReady` (`HandlersReady`), of the life of every driver.
  `WellBuilt` is what can be read off a table without running it: each failure path
  and the exit give back all that was taken (`UndoSound`), once (`OwnOnce`) and children
  before parents (`ChildrenFirst`); the driver is published when nothing can fail any
  more, and unpublished before what it calls back with is taken away (`Shielded`), and after
  what its handlers use was taken (`Equipped`), but for the I/O port.  `TablesBuilt` shows it of each table,
  with one lemma per driver.  `DriverInv` is the rest, for any table that is `WellBuilt`: where a
  driver is in its life (`Position`), that it has what the steps done have taken (`Holdings`) or,
  once it gives back, what is on the list still to do (`Listed`), and when somebody can
  be inside (`Insiders`).  The list is shortened from the front, and `TailIs`, `OnceTail` and
  `ChildrenTail` say what that leaves of it.  `DiskDriverLives`: the disk's
  specification implements that of drivers, so that all five hold of what the run
  `driver_life` checks.
- `RamDiskProofs!DiskReadsWhatWasWritten` (`ReadsWhatWasWritten`) and `LayoutStaysSound` (`LayoutSound`), for
  requests of any number of segments of any lengths, anywhere in a partition, and
  any number of writes.  `DiskInv` joins where `ram_block` is in its life (`Life`: what it has
  is what so many steps of its init take, and what is left to give back is that in
  reverse), that the sectors with the tables are as they were written, but for
  the boot record that programs can reach (`Legible`), and that every sector a program wrote has what it wrote.  The lemmas under it say
  what `rb_transfer`'s loop computes: a request never leaves its sectors, even when it
  fails (`MovesInside`), and one that succeeds copies each of them, from its place
  (`MovesAll`); what the kernel makes of the tables (`FoundIs`), and of what is left of them without that boot record
  (`FoundWithout`); that the five partitions with data are apart (`FiveApart`) and where the
  sixth lies (`SixPlaced`).  The sums over segments are recursive functions;
  that they are sums is shown without induction, by taking the least place where
  they would not be (`LeastOf`).

Only model-checked: liveness (`KilledLeaves`, `LeftAloneGetsIn`), as it rests on fairness, which
is out of the prover's reach.  What it rests on beside fairness is proved: a
sleeper is woken by whoever clears the flag (`WakeupsNotLost`) and nobody leaves the flag set (`FlagNeverStuck`).

## Not modelled

- The formatter's computation of the layout from the size of the partition: a few
  divisions, whose result is what `LayoutAssumption` asks for (a partition of less
  than ten blocks gets no entries, one of 2 TB and more a size that wrapped).
- `fsync` of the file system, which writes buffers of an inode that `RealSfs` does not
  have apart from the table; a second mount, for which the global `sfs_root_inode` is
  overwritten.
- What other users of memory do to the tracker and `info` that `sfs_kill_sb` has freed while
  the last inodes are still written through them.
- Data bytes of files in the kernel's file system, permissions there, and times:
  no property needs them.
- File operations of several tasks on one open message device at once, and
  `query_ioctl`'s three variables, which a reader can see half set.
- Requests to the whole RAM disk, past the partitions, which may overwrite the
  tables.
- The kernel, except for the part of the VFS, of the scheduler, of wait queues, of
  `chrdev_open`, of the block layer and of the registration functions that the code
  relies on, which is marked external in `map`.
- Client programs, the kernel list example, modules that only log, exercises,
  scripts, notes and captured documentation: they keep no state that another
  actor sees.

## Plan

Every module of the plan is there, and every safety property that a run checks is
proved, for every value of the constants, in the workloads in which the table of `RealSfs`
says that it holds.  What is left is liveness, for a prover that knows fairness.
