----------------------------- MODULE DriverLife -----------------------------
(***************************************************************************)
(* What the drivers take when they are loaded and give back when they are  *)
(* unloaded, or when loading fails half-way.  Each driver is a table: the  *)
(* steps of its init function in order, what each failure path gives back, *)
(* and what its exit function gives back.  One machine runs any of them,   *)
(* while programs open its device and the kernel calls its callbacks back. *)
(* A mount of the Simula file system is such a table too: sfs_fill_super   *)
(* takes, sfs_kill_sb gives back, also after sfs_fill_super has failed.    *)
(*                                                                         *)
(* A step can fail in three ways: "checked", and init stops; "missed", the *)
(* code tests for another value than the kernel returns (or for none) and  *)
(* goes on; "minded", init goes on and exit remembers; a "sure" step does  *)
(* not fail.                                                               *)
(***************************************************************************)
EXTENDS Integers, Sequences

CONSTANT Nothing  \* what a resource is built on if it needs no other

Step(takes, check, undo) == [takes |-> takes, check |-> check, undo |-> undo]

-----------------------------------------------------------------------------
(* The drivers *)

\* Variant: the device is published before the memory its handlers use
vdrvEarly ==
  [init |-> << Step("region", "checked", <<>>),
               Step("cdev", "missed", <<"region">>),
               Step("vram", "checked", <<"cdev", "region">>),
               Step("class", "missed", <<"cdev", "region">>),
               Step("device", "missed", <<"class", "cdev", "region">>) >>,
   exit |-> <<"cdev", "device", "class", "region", "vram">>]

vdrv ==
  [init |-> << Step("vram", "checked", <<>>),
               Step("region", "checked", <<>>),
               Step("class", "missed", <<"region">>),
               Step("device", "missed", <<"class", "region">>),
               Step("cdev", "missed", <<"device", "class", "region">>) >>,
   exit |-> <<"cdev", "device", "class", "region", "vram">>]

ofcd ==
  [init |-> << Step("region", "checked", <<>>),
               Step("class", "missed", <<"region">>),
               Step("device", "missed", <<"class", "region">>),
               Step("cdev", "missed", <<"device", "class", "region">>) >>,
   exit |-> <<"cdev", "device", "class", "region">>]

ocd ==
  [init |-> << Step("region", "checked", <<>>),
               Step("class", "missed", <<"region">>),
               Step("device", "missed", <<"class", "region">>),
               Step("cdev", "missed", <<"device", "class", "region">>) >>,
   exit |-> <<"cdev", "device", "class", "region">>]

query_ioctl ==
  [init |-> << Step("region", "checked", <<>>),
               Step("cdev", "checked", <<>>),
               Step("class", "checked", <<"cdev", "region">>),
               Step("device", "checked", <<"class", "cdev", "region">>) >>,
   exit |-> <<"device", "class", "cdev", "region">>]

module4 ==
  [init |-> << Step("region", "checked", <<>>),
               Step("cdev", "checked", <<"region">>),
               Step("ioport", "minded", <<>>) >>,
   exit |-> <<"ioport", "cdev", "region">>]

module5 ==
  [init |-> << Step("region", "checked", <<>>),
               Step("cdev", "checked", <<"region">>),
               Step("ioport", "minded", <<>>) >>,
   exit |-> <<"ioport", "cdev", "region">>]

procex ==
  [init |-> << Step("dir", "checked", <<>>),
               Step("jiffies", "checked", <<"dir">>),
               Step("foo", "checked", <<"jiffies", "dir">>),
               Step("bar", "checked", <<"foo", "jiffies", "dir">>),
               Step("symlink", "checked", <<"bar", "foo", "jiffies", "dir">>) >>,
   exit |-> <<"symlink", "bar", "foo", "jiffies", "dir">>]

\* Variant: the failure path removes the directory first
proc_windowSwapped ==
  [init |-> << Step("dir", "checked", <<>>),
               Step("file", "checked", <<"dir">>),
               Step("symlink", "checked", <<"dir", "file">>) >>,
   exit |-> <<"symlink", "file", "dir">>]

proc_window ==
  [init |-> << Step("dir", "checked", <<>>),
               Step("file", "checked", <<"dir">>),
               Step("symlink", "checked", <<"file", "dir">>) >>,
   exit |-> <<"symlink", "file", "dir">>]

our_glob_syms ==
  [init |-> << Step("class", "checked", <<>>) >>, exit |-> <<"class">>]

\* debugfs: removing the directory removes what is in it
exp_debugfs ==
  [init |-> << Step("debugdir", "missed", <<>>),
               Step("text", "missed", <<>>),
               Step("number", "checked", <<>>),
               Step("hexnum", "checked", <<>>) >>,
   exit |-> <<"debugdir">>]

\* Two devices: each is allocated, given its data, and added
platform_test ==
  [init |-> << Step("devices", "checked", <<>>),
               Step("pdev0", "checked", <<"devices">>),
               Step("data0", "checked", <<"pdev0", "devices">>),
               Step("added0", "checked", <<"pdev0", "devices">>),
               Step("pdev1", "checked", <<"added0", "devices">>),
               Step("data1", "checked", <<"pdev1", "added0", "devices">>),
               Step("added1", "checked", <<"pdev1", "added0", "devices">>) >>,
   exit |-> <<"added1", "added0", "devices">>]

\* Variant: a failing alloc_disk leaves the major number registered
ram_blockForgetting ==
  [init |-> << Step("ram", "checked", <<>>),
               Step("major", "missed", <<"ram">>),
               Step("queue", "checked", <<"major", "ram">>),
               Step("disk", "checked", <<"queue", "ram">>),
               Step("live", "sure", <<>>) >>,
   exit |-> <<"live", "disk", "queue", "major", "ram">>]

\* Variant: exit frees the disk twice
ram_blockTwice ==
  [init |-> << Step("ram", "checked", <<>>),
               Step("major", "missed", <<"ram">>),
               Step("queue", "checked", <<"major", "ram">>),
               Step("disk", "checked", <<"queue", "major", "ram">>),
               Step("live", "sure", <<>>) >>,
   exit |-> <<"live", "disk", "disk", "queue", "major", "ram">>]

\* The major number is unsigned, and the test is that it is <= 0: an error passes
\* for a number, and the undo list of that step is never used
ram_block ==
  [init |-> << Step("ram", "checked", <<>>),
               Step("major", "missed", <<"ram">>),
               Step("queue", "checked", <<"major", "ram">>),
               Step("disk", "checked", <<"queue", "major", "ram">>),
               Step("live", "sure", <<>>) >>,
   exit |-> <<"live", "disk", "queue", "major", "ram">>]

timer1 == [init |-> << Step("timer", "sure", <<>>) >>, exit |-> <<"timer">>]

\* Variant: exit does not cancel the timer
hrtimer1Forgetting == [init |-> << Step("hrtimer", "sure", <<>>) >>, exit |-> <<>>]

hrtimer1 == [init |-> << Step("hrtimer", "sure", <<>>) >>, exit |-> <<"hrtimer">>]

taskletex == [init |-> << Step("tasklet", "sure", <<>>) >>, exit |-> <<"tasklet">>]

myirqtest == [init |-> << Step("irq", "checked", <<>>) >>, exit |-> <<"irq">>]

kprobe == [init |-> << Step("kprobe", "missed", <<>>) >>, exit |-> <<"kprobe">>]

kprobe_example == [init |-> << Step("kprobe", "checked", <<>>) >>, exit |-> <<"kprobe">>]

\* myinit returns no value: what the kernel sees may be a failure
jprobe ==
  [init |-> << Step("kprobe", "missed", <<>>), Step("value", "checked", <<>>) >>,
   exit |-> <<"kprobe">>]

jprobe_example == [init |-> << Step("kprobe", "checked", <<>>) >>, exit |-> <<"kprobe">>]

\* The failure path removes the entry that was not made
procfs1 == [init |-> << Step("entry", "checked", <<"entry">>) >>, exit |-> <<"entry">>]

\* The bus calls probe and remove back
platform_driver ==
  [init |-> << Step("busdriver", "checked", <<>>) >>, exit |-> <<"busdriver">>]

spi_example ==
  [init |-> << Step("busdriver", "checked", <<>>) >>, exit |-> <<"busdriver">>]

\* One probe: the buffer goes whether or not the transfer succeeded
spi_example_transfer ==
  [init |-> << Step("buf", "checked", <<>>), Step("sync", "checked", <<"buf">>) >>,
   exit |-> <<"buf">>]

\* The module of a file system: a mount keeps it in use
sfs_init ==
  [init |-> << Step("fstype", "checked", <<>>) >>, exit |-> <<"fstype">>]

\* Reading the super block, allocating the tracker, reading the entries
init_browsing ==
  << Step("super", "checked", <<"info">>),
     Step("tracker", "checked", <<"info">>),
     Step("entries", "checked", <<"tracker", "info">>) >>

\* sfs_fill_super.  Once init_browsing has set s_fs_info, a failure gives tracker
\* and info back, and then the kernel calls sfs_kill_sb, which does so again.
sfs_fill_super ==
  << Step("info", "checked", <<>>) >>
  \o init_browsing
  \o << Step("rootinode", "checked", <<"tracker", "info", "tracker", "info">>),
        Step("mount", "checked", <<"rootinode", "tracker", "info", "tracker", "info">>) >>

\* sfs_kill_sb gives back what the flusher uses before it stops the flusher
real_sfs == [init |-> sfs_fill_super, exit |-> <<"tracker", "info", "mount", "rootinode">>]

real_sfs_minimal ==
  [init |-> sfs_fill_super, exit |-> <<"tracker", "info", "mount", "rootinode">>]

real_sfs_bb ==
  [init |-> << Step("rootinode", "checked", <<>>),
               Step("mount", "checked", <<"rootinode">>) >>,
   exit |-> <<"mount", "rootinode">>]

Tables ==
  [vdrv |-> vdrv, ofcd |-> ofcd, query_ioctl |-> query_ioctl, module4 |-> module4,
   module5 |-> module5, procex |-> procex, proc_window |-> proc_window,
   our_glob_syms |-> our_glob_syms, exp_debugfs |-> exp_debugfs,
   platform_test |-> platform_test, ram_block |-> ram_block, timer1 |-> timer1,
   hrtimer1 |-> hrtimer1, taskletex |-> taskletex, myirqtest |-> myirqtest,
   kprobe |-> kprobe, kprobe_example |-> kprobe_example, jprobe |-> jprobe,
   ocd |-> ocd, jprobe_example |-> jprobe_example, procfs1 |-> procfs1,
   platform_driver |-> platform_driver, spi_example |-> spi_example,
   spi_example_transfer |-> spi_example_transfer, sfs_init |-> sfs_init,
   real_sfs |-> real_sfs, real_sfs_minimal |-> real_sfs_minimal,
   real_sfs_bb |-> real_sfs_bb]

\* What driver d leaves behind, once and for all, when a load fails or it is
\* unloaded
LeftBehind(d) ==
  CASE d = "vdrv"          -> {"vram"}
    [] d = "query_ioctl"   -> {"region"}
    [] d = "exp_debugfs"   -> {"debugdir", "text", "number", "hexnum"}
    [] d = "platform_test" -> {"pdev0", "pdev1"}
    [] d = "jprobe"        -> {"kprobe"}
    [] OTHER               -> {}

\* Drivers whose code can still be entered or run after it is gone: init fails
\* after the device was published; del_timer does not wait; the probe stays
CutShort == {"query_ioctl", "timer1", "jprobe"}

\* What failure paths of driver d give back that they have not got, or no more
NotItsOwn(d) ==
  CASE d \in {"real_sfs", "real_sfs_minimal"} -> {"info", "tracker"}
    [] d = "procfs1" -> {"entry"}
    [] OTHER         -> {}

\* Drivers whose exit frees what a callback uses before it stops the callback
FreesEarly == {"real_sfs"}

-----------------------------------------------------------------------------
(* The kernel *)

\* What a resource is built on
Under(r) ==
  CASE r = "device" -> "class"
    [] r \in {"jiffies", "foo", "bar", "symlink", "file"} -> "dir"
    [] r = "live"   -> "disk"
    [] r = "mount"  -> "rootinode"
    [] r \in {"added0", "data0"} -> "pdev0"
    [] r \in {"added1", "data1"} -> "pdev1"
    [] OTHER        -> Nothing

\* Through these programs reach the driver
Published == {"cdev", "live", "fstype", "mount"}

\* What the driver's handlers use of what it takes, while its device is open or a
\* callback runs.  The handlers of all other drivers work on static data, on what
\* they take themselves, and on what the kernel hands them.
Used(d) ==
  CASE d = "vdrv"      -> {"vram"}
    [] d = "ram_block" -> {"ram", "queue", "disk"}
    [] d = "real_sfs"  -> {"info", "tracker"}
    [] d \in {"module4", "module5"} -> {"ioport"}
    [] OTHER           -> {}

\* These call the driver back, a mount through the flusher; giving one back waits
\* for a running callback, but for del_timer
Callbacks == {"timer", "hrtimer", "tasklet", "irq", "kprobe", "busdriver", "mount"}

Waits(r) == r \in Callbacks \ {"timer"}

\* Steps that can fail but leave nothing to give back
Checks == {"value", "data0", "data1", "sync", "super", "entries"}

-----------------------------------------------------------------------------
VARIABLES driver,
          stage,    \* "out", "init", "undo", "live" or "exit"
          done,     \* steps of init behind us
          todo,     \* what is left to give back
          held,     \* what the driver has
          missed,   \* what it wrongly believes it has
          opened,   \* a program has the device open
          running   \* a callback is running

vars == <<driver, stage, done, todo, held, missed, opened, running>>

Table == Tables[driver]

Init ==
  /\ driver \in DOMAIN Tables
  /\ stage = "out"
  /\ done = 0 /\ todo = <<>>
  /\ held = {} /\ missed = {}
  /\ opened = FALSE /\ running = FALSE

\* Loading, again maybe, with what an earlier load left behind
Insmod ==
  /\ stage = "out" /\ ~opened /\ ~running
  /\ stage' = "init"
  /\ done' = 0 /\ missed' = {}
  /\ UNCHANGED <<driver, todo, held, opened, running>>

\* The next step of init succeeds, if what it builds on is there
Take ==
  /\ stage = "init" /\ done < Len(Table.init)
  /\ LET r == Table.init[done + 1].takes
     IN /\ Under(r) \in held \cup {Nothing}
        /\ held' = held \cup ({r} \ Checks)
  /\ done' = done + 1
  /\ UNCHANGED <<driver, stage, todo, missed, opened, running>>

\* The next step of init fails
Fail ==
  /\ stage = "init" /\ done < Len(Table.init)
  /\ LET s == Table.init[done + 1]
     IN \/ /\ s.check = "checked"
           /\ stage' = "undo" /\ todo' = s.undo
           /\ UNCHANGED <<done, missed>>
        \/ /\ s.check \in {"missed", "minded"}
           /\ done' = done + 1
           /\ missed' = missed \cup {s.takes}
           /\ UNCHANGED <<stage, todo>>
  /\ UNCHANGED <<driver, held, opened, running>>

Loaded ==
  /\ stage = "init" /\ done = Len(Table.init)
  /\ stage' = "live"
  /\ UNCHANGED <<driver, done, todo, held, missed, opened, running>>

\* rmmod, with no program holding a reference
Rmmod ==
  /\ stage = "live" /\ ~opened
  /\ stage' = "exit" /\ todo' = Table.exit
  /\ UNCHANGED <<driver, done, held, missed, opened, running>>

\* The failure path or exit gives the next thing back
GiveBack ==
  /\ stage \in {"undo", "exit"} /\ todo # <<>>
  /\ Waits(Head(todo)) => ~running
  /\ held' = IF Head(todo) = "debugdir" /\ "debugdir" \in held THEN {} ELSE held \ {Head(todo)}
  /\ missed' = missed \ {Head(todo)}
  /\ todo' = Tail(todo)
  /\ UNCHANGED <<driver, stage, done, opened, running>>

\* The code is freed; when init failed the kernel waits for nobody
Gone ==
  /\ stage \in {"undo", "exit"} /\ todo = <<>>
  /\ stage' = "out"
  /\ UNCHANGED <<driver, done, todo, held, missed, opened, running>>

\* A program opens the device; once the module is going it cannot
Open ==
  /\ stage \in {"init", "live"} /\ held \cap Published # {}
  /\ ~opened /\ opened' = TRUE
  /\ UNCHANGED <<driver, stage, done, todo, held, missed, running>>

Close ==
  /\ opened /\ opened' = FALSE
  /\ UNCHANGED <<driver, stage, done, todo, held, missed, running>>

\* Hardware, a timer or a probed function calls back; that a timer does so once
\* makes no difference here
CallBack ==
  /\ held \cap Callbacks # {}
  /\ ~running /\ running' = TRUE
  /\ UNCHANGED <<driver, stage, done, todo, held, missed, opened>>

Return ==
  /\ running /\ running' = FALSE
  /\ UNCHANGED <<driver, stage, done, todo, held, missed, opened>>

Next ==
  \/ Insmod \/ Take \/ Fail \/ Loaded \/ Rmmod \/ GiveBack \/ Gone
  \/ Open \/ Close \/ CallBack \/ Return

Spec == Init /\ [][Next]_vars

-----------------------------------------------------------------------------
\* A driver that has failed to load, or is unloaded, has given everything back,
\* but for what LeftBehind says of it
NothingLeft == stage = "out" => held \subseteq LeftBehind(driver)

\* Failure paths and exit give back only what the driver has, once; exceptions are
\* what a test of the wrong value made it believe it has, and, on failure paths,
\* what NotItsOwn says of it
GivesBackItsOwn ==
  [][GiveBack => \/ Head(todo) \in held \cup missed
                 \/ stage = "undo" /\ Head(todo) \in NotItsOwn(driver)]_vars

\* Nothing is given back while something built on it is still there
ParentsLast == \A r \in held : Under(r) \in held \cup {Nothing}

\* Nobody is inside code that is gone: no open device, no running callback
CodeStays ==
  stage = "out" /\ driver \notin CutShort => ~opened /\ ~running

\* A program may write to the I/O port before the driver has asked for it, and when
\* somebody else has it: "but we'll use it anyways!"
UsedAnyway == IF stage = "init" THEN {"ioport"} ELSE {"ioport"} \cap missed

\* While the device is open, or a callback runs, what the handlers use is there,
\* in the middle of loading and unloading too, but for a driver that FreesEarly
\* when it goes, and for UsedAnyway
HandlersReady ==
  opened \/ (running /\ ~(driver \in FreesEarly /\ stage = "exit"))
    => Used(driver) \subseteq held \cup UsedAnyway
=============================================================================
