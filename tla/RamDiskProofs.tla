--------------------------- MODULE RamDiskProofs ----------------------------
(***************************************************************************)
(* Theorems about DriverLife and about RamDisk, which extends it, proved   *)
(* with TLAPS.  First that what init takes is given back, in order, by     *)
(* every driver, and that its code outlives whoever is in it: what can be  *)
(* read off each table is lifted to the life of its driver.  Then, for     *)
(* requests of any number of segments, of any lengths and anywhere in a    *)
(* partition, that DiskOnRAM reads what was written.                       *)
(***************************************************************************)
EXTENDS RamDisk, WellFoundedInduction, FiniteSetTheorems, TLAPS

-----------------------------------------------------------------------------
(* The tables *)

\* What k steps of init have taken, and what a list gives back
Behind(t, k) == {t.init[i].takes : i \in 1..k} \ Checks
In(list)     == {list[a] : a \in 1..Len(list)}

\* A list gives back only what is in S, each once, or what is in own; and the
\* directory of debugfs, with which all goes, last
OwnOnce(list, S, own) ==
  \A a \in 1..Len(list) :
    /\ \/ list[a] \in own
       \/ list[a] \in S /\ \A b \in 1..Len(list) : b # a => list[b] # list[a]
    /\ list[a] = "debugdir" => a = Len(list)

\* It gives back what is built on a thing before the thing
ChildrenFirst(list, S) ==
  \A r \in S, a \in 1..Len(list) :
    Under(r) # Nothing /\ list[a] = Under(r) => \E b \in 1..(a - 1) : list[b] = r

\* A failure path, or exit, that is right when S has been taken
UndoSound(list, S, d, own) ==
  /\ list \in Seq(In(list))
  /\ S \subseteq LeftBehind(d) \cup In(list)
  /\ OwnOnce(list, S, own)
  /\ ChildrenFirst(list, S \cup LeftBehind(d))

\* No step that can stop init comes after the driver was published, and what
\* lets the kernel call back is there until nobody is called
Shielded(d, t) ==
  d \notin CutShort =>
    /\ LeftBehind(d) \cap (Published \cup Callbacks) = {}
    /\ "timer" \notin Behind(t, Len(t.init))
    /\ "debugdir" \in Behind(t, Len(t.init)) => Behind(t, Len(t.init)) \cap Callbacks = {}
    /\ \A i, k \in 1..Len(t.init) :
         i < k /\ t.init[i].takes \in Published => t.init[k].check # "checked"

\* What the handlers use is taken, for certain, before the driver is published, but
\* for the I/O port
Equipped(d, t) ==
  Used(d) # {} =>
    /\ d \notin CutShort
    /\ d \notin FreesEarly => Behind(t, Len(t.init)) \cap Callbacks = {}
    /\ Behind(t, Len(t.init)) \cap Callbacks \subseteq Published
    /\ "ioport" \in Used(d) => "ioport" \in Behind(t, Len(t.init))
    /\ \A u \in Used(d) \ {"ioport"}, i \in 1..Len(t.init) :
         t.init[i].takes \in Published =>
           \E j \in 1..(i - 1) :
             /\ t.init[j].takes = u /\ u \notin Checks
             /\ t.init[j].check \in {"checked", "sure"}

\* What can be read off the table of driver d
WellBuilt(d, t) ==
  /\ Len(t.init) \in Nat
  /\ LeftBehind(d) \subseteq Behind(t, Len(t.init))
  /\ \A k \in 0..(Len(t.init) - 1) :
       t.init[k + 1].check = "checked" =>
         UndoSound(t.init[k + 1].undo, Behind(t, k), d, NotItsOwn(d))
  /\ UndoSound(t.exit, Behind(t, Len(t.init)), d, {})
  /\ Shielded(d, t)
  /\ Equipped(d, t)
  /\ "live" \in Behind(t, Len(t.init)) => d = "ram_block"

-----------------------------------------------------------------------------
(* Where a driver is in its life *)

Position ==
  /\ driver \in DOMAIN Tables
  /\ stage \in {"out", "init", "undo", "live", "exit"}
  /\ done \in 0..Len(Table.init)
  /\ stage = "live" => done = Len(Table.init)
  /\ held \subseteq Behind(Table, Len(Table.init))

\* What it has, apart from what earlier loads left, is what init took
Holdings ==
  /\ stage = "out" => held \subseteq LeftBehind(driver)
  /\ stage \in {"init", "live"} =>
       /\ held \subseteq LeftBehind(driver) \cup Behind(Table, done)
       /\ Behind(Table, done) \subseteq held \cup missed
       /\ \A j \in 1..done :
            Table.init[j].check \in {"checked", "sure"} => Table.init[j].takes \in held \cup Checks

\* What it has is on the list of what is left to give back, and so on
Listed ==
  stage \in {"undo", "exit"} =>
    /\ todo \in Seq(In(todo))
    /\ held \subseteq LeftBehind(driver) \cup In(todo)
    /\ OwnOnce(todo, held \cup missed, IF stage = "undo" THEN NotItsOwn(driver) ELSE {})
    /\ ChildrenFirst(todo, held)

\* A program is inside only when init has published the driver, and a callback
\* runs only while what it came through is held
Insiders ==
  driver \notin CutShort =>
    /\ opened => /\ stage \in {"init", "live"}
                 /\ \E i \in 1..done : Table.init[i].takes \in Published
    /\ running => held \cap (Callbacks \ {"timer"}) # {}

DriverInv == Position /\ Holdings /\ Listed /\ ParentsLast /\ Insiders

\* Where nothing was taken an empty failure path is right
LEMMA NothingUndone == ASSUME NEW d, NEW own PROVE UndoSound(<<>>, {}, d, own)
<1>1. ChildrenFirst(<<>>, LeftBehind(d))
  BY DEF ChildrenFirst
<1> QED
  BY <1>1 DEF UndoSound, OwnOnce

\* Its failure paths leave the memory of the device behind
LEMMA vdrv_Built == WellBuilt("vdrv", vdrv)
<1>1. /\ Len(vdrv.init) = 5
      /\ Behind(vdrv, 0) = {}
      /\ Behind(vdrv, 1) = {"vram"}
      /\ Behind(vdrv, 5) = {"vram", "region", "class", "device", "cdev"}
  BY DEF vdrv, Step, Behind, Checks
<1>2. \A k \in 0..4 :
        \/ k = 0 /\ vdrv.init[k + 1].undo = <<>>
        \/ k = 1 /\ vdrv.init[k + 1].undo = <<>>
        \/ vdrv.init[k + 1].check # "checked"
  BY DEF vdrv, Step
<1>3. /\ UndoSound(<<>>, {}, "vdrv", {})
      /\ UndoSound(<<>>, {"vram"}, "vdrv", {})
  BY DEF UndoSound, In, OwnOnce, ChildrenFirst, Under, LeftBehind
<1>4. UndoSound(<<"cdev", "device", "class", "region", "vram">>,
                {"vram", "region", "class", "device", "cdev"}, "vdrv", {})
  BY DEF UndoSound, In, OwnOnce, ChildrenFirst, Under, LeftBehind
<1>5. Shielded("vdrv", vdrv)
  <2>1. LeftBehind("vdrv") = {"vram"}
    BY DEF LeftBehind
  <2> QED
    BY <1>1, <2>1 DEF Shielded, vdrv, Step, Published, Callbacks
<1>6. Equipped("vdrv", vdrv)
  <2>1. \A i \in 1..5 : vdrv.init[i].takes \in Published => i = 5
    BY DEF vdrv, Step, Published
  <2>2. /\ 1 \in 1..(5 - 1) /\ vdrv.init[1].takes = "vram" /\ vdrv.init[1].check = "checked"
    BY DEF vdrv, Step
  <2> QED
    BY <1>1, <2>1, <2>2 DEF Equipped, Used, Checks, Callbacks, CutShort, FreesEarly
<1>7. \A k \in 0..4 : vdrv.init[k + 1].check = "checked" =>
        UndoSound(vdrv.init[k + 1].undo, Behind(vdrv, k), "vdrv", NotItsOwn("vdrv"))
  BY <1>1, <1>2, <1>3 DEF NotItsOwn
<1>8. UndoSound(vdrv.exit, Behind(vdrv, 5), "vdrv", {})
  BY <1>1, <1>4 DEF vdrv
<1> QED
  BY <1>1, <1>5, <1>6, <1>7, <1>8 DEF WellBuilt, LeftBehind

\* The same without memory of its own; ocd's table is ofcd's
LEMMA ofcd_Built == ASSUME NEW d \in {"ofcd", "ocd"} PROVE WellBuilt(d, ofcd)
<1>1. /\ Len(ofcd.init) = 4
      /\ Behind(ofcd, 0) = {}
      /\ Behind(ofcd, 4) = {"region", "class", "device", "cdev"}
  BY DEF ofcd, Step, Behind, Checks
<1>2. \A k \in 0..3 :
        \/ k = 0 /\ ofcd.init[k + 1].undo = <<>>
        \/ ofcd.init[k + 1].check # "checked"
  BY DEF ofcd, Step
<1>3. /\ UndoSound(<<>>, {}, d, {})
  BY DEF UndoSound, In, OwnOnce, ChildrenFirst, Under, LeftBehind
<1>4. UndoSound(<<"cdev", "device", "class", "region">>,
                {"region", "class", "device", "cdev"}, d, {})
  BY DEF UndoSound, In, OwnOnce, ChildrenFirst, Under, LeftBehind
<1>5. Shielded(d, ofcd)
  BY <1>1 DEF Shielded, ofcd, Step, LeftBehind, CutShort, Published, Callbacks
<1>6. Equipped(d, ofcd)
  BY DEF Equipped, Used
<1>7. \A k \in 0..3 : ofcd.init[k + 1].check = "checked" =>
        UndoSound(ofcd.init[k + 1].undo, Behind(ofcd, k), d, NotItsOwn(d))
  BY <1>1, <1>2, <1>3 DEF NotItsOwn
<1>8. UndoSound(ofcd.exit, Behind(ofcd, 4), d, {})
  BY <1>1, <1>4 DEF ofcd
<1> QED
  BY <1>1, <1>5, <1>6, <1>7, <1>8 DEF WellBuilt, LeftBehind

\* A cdev that cannot be added leaves the region behind
LEMMA query_ioctl_Built == WellBuilt("query_ioctl", query_ioctl)
<1>1. /\ Len(query_ioctl.init) = 4
      /\ Behind(query_ioctl, 0) = {}
      /\ Behind(query_ioctl, 1) = {"region"}
      /\ Behind(query_ioctl, 2) = {"region", "cdev"}
      /\ Behind(query_ioctl, 3) = {"region", "cdev", "class"}
      /\ Behind(query_ioctl, 4) = {"region", "cdev", "class", "device"}
  BY DEF query_ioctl, Step, Behind, Checks
<1>2. \A k \in 0..3 :
        \/ k = 0 /\ query_ioctl.init[k + 1].undo = <<>>
        \/ k = 1 /\ query_ioctl.init[k + 1].undo = <<>>
        \/ k = 2 /\ query_ioctl.init[k + 1].undo = <<"cdev", "region">>
        \/ k = 3 /\ query_ioctl.init[k + 1].undo = <<"class", "cdev", "region">>
  BY DEF query_ioctl, Step
<1>3. /\ UndoSound(<<>>, {}, "query_ioctl", {})
      /\ UndoSound(<<>>, {"region"}, "query_ioctl", {})
      /\ UndoSound(<<"cdev", "region">>, {"region", "cdev"}, "query_ioctl", {})
      /\ UndoSound(<<"class", "cdev", "region">>, {"region", "cdev", "class"}, "query_ioctl", {})
  BY DEF UndoSound, In, OwnOnce, ChildrenFirst, Under, LeftBehind
<1>4. UndoSound(<<"device", "class", "cdev", "region">>,
                {"region", "cdev", "class", "device"}, "query_ioctl", {})
  BY DEF UndoSound, In, OwnOnce, ChildrenFirst, Under, LeftBehind
<1>5. Shielded("query_ioctl", query_ioctl)
  BY <1>1 DEF Shielded, query_ioctl, Step, LeftBehind, CutShort, Published, Callbacks
<1>6. Equipped("query_ioctl", query_ioctl)
  BY DEF Equipped, Used
<1>7. \A k \in 0..3 : query_ioctl.init[k + 1].check = "checked" =>
        UndoSound(query_ioctl.init[k + 1].undo,
                  Behind(query_ioctl, k), "query_ioctl", NotItsOwn("query_ioctl"))
  BY <1>1, <1>2, <1>3 DEF NotItsOwn
<1>8. UndoSound(query_ioctl.exit, Behind(query_ioctl, 4), "query_ioctl", {})
  BY <1>1, <1>4 DEF query_ioctl
<1> QED
  BY <1>1, <1>5, <1>6, <1>7, <1>8 DEF WellBuilt, LeftBehind

\* The I/O ports may be missing; exit minds that.  module5's table is module4's
LEMMA module4_Built == ASSUME NEW d \in {"module4", "module5"} PROVE WellBuilt(d, module4)
<1>1. /\ Len(module4.init) = 3
      /\ Behind(module4, 0) = {}
      /\ Behind(module4, 1) = {"region"}
      /\ Behind(module4, 3) = {"region", "cdev", "ioport"}
  BY DEF module4, Step, Behind, Checks
<1>2. \A k \in 0..2 :
        \/ k = 0 /\ module4.init[k + 1].undo = <<>>
        \/ k = 1 /\ module4.init[k + 1].undo = <<"region">>
        \/ module4.init[k + 1].check # "checked"
  BY DEF module4, Step
<1>3. /\ UndoSound(<<>>, {}, d, {})
      /\ UndoSound(<<"region">>, {"region"}, d, {})
  BY DEF UndoSound, In, OwnOnce, ChildrenFirst, Under, LeftBehind
<1>4. UndoSound(<<"ioport", "cdev", "region">>, {"region", "cdev", "ioport"}, d, {})
  BY DEF UndoSound, In, OwnOnce, ChildrenFirst, Under, LeftBehind
<1>5. Shielded(d, module4)
  BY <1>1 DEF Shielded, module4, Step, LeftBehind, CutShort, Published, Callbacks
<1>6. Equipped(d, module4)
  <2>1. Used(d) = {"ioport"}
    BY DEF Used
  <2> QED
    BY <1>1, <2>1 DEF Equipped, Callbacks, CutShort
<1>7. \A k \in 0..2 : module4.init[k + 1].check = "checked" =>
        UndoSound(module4.init[k + 1].undo, Behind(module4, k), d, NotItsOwn(d))
  BY <1>1, <1>2, <1>3 DEF NotItsOwn
<1>8. UndoSound(module4.exit, Behind(module4, 3), d, {})
  BY <1>1, <1>4 DEF module4
<1> QED
  BY <1>1, <1>5, <1>6, <1>7, <1>8 DEF WellBuilt, LeftBehind

\* The entries of /proc go before their directory
LEMMA procex_Built == WellBuilt("procex", procex)
<1>1. /\ Len(procex.init) = 5
      /\ Behind(procex, 0) = {}
      /\ Behind(procex, 1) = {"dir"}
      /\ Behind(procex, 2) = {"dir", "jiffies"}
      /\ Behind(procex, 3) = {"dir", "jiffies", "foo"}
      /\ Behind(procex, 4) = {"dir", "jiffies", "foo", "bar"}
      /\ Behind(procex, 5) = {"dir", "jiffies", "foo", "bar", "symlink"}
  BY DEF procex, Step, Behind, Checks
<1>2. \A k \in 0..4 :
        \/ k = 0 /\ procex.init[k + 1].undo = <<>>
        \/ k = 1 /\ procex.init[k + 1].undo = <<"dir">>
        \/ k = 2 /\ procex.init[k + 1].undo = <<"jiffies", "dir">>
        \/ k = 3 /\ procex.init[k + 1].undo = <<"foo", "jiffies", "dir">>
        \/ k = 4 /\ procex.init[k + 1].undo = <<"bar", "foo", "jiffies", "dir">>
  BY DEF procex, Step
<1>3. /\ UndoSound(<<>>, {}, "procex", {})
      /\ UndoSound(<<"dir">>, {"dir"}, "procex", {})
      /\ UndoSound(<<"jiffies", "dir">>, {"dir", "jiffies"}, "procex", {})
      /\ UndoSound(<<"foo", "jiffies", "dir">>, {"dir", "jiffies", "foo"}, "procex", {})
      /\ UndoSound(<<"bar", "foo", "jiffies", "dir">>,
                   {"dir", "jiffies", "foo", "bar"}, "procex", {})
  BY DEF UndoSound, In, OwnOnce, ChildrenFirst, Under, LeftBehind
<1>4. UndoSound(<<"symlink", "bar", "foo", "jiffies", "dir">>,
                {"dir", "jiffies", "foo", "bar", "symlink"}, "procex", {})
  BY DEF UndoSound, In, OwnOnce, ChildrenFirst, Under, LeftBehind
<1>5. Shielded("procex", procex)
  BY <1>1 DEF Shielded, procex, Step, LeftBehind, CutShort, Published, Callbacks
<1>6. Equipped("procex", procex)
  BY DEF Equipped, Used
<1>7. \A k \in 0..4 : procex.init[k + 1].check = "checked" =>
        UndoSound(procex.init[k + 1].undo, Behind(procex, k), "procex", NotItsOwn("procex"))
  BY <1>1, <1>2, <1>3 DEF NotItsOwn
<1>8. UndoSound(procex.exit, Behind(procex, 5), "procex", {})
  BY <1>1, <1>4 DEF procex
<1> QED
  BY <1>1, <1>5, <1>6, <1>7, <1>8 DEF WellBuilt, LeftBehind

\* The same for a file and a link
LEMMA proc_window_Built == WellBuilt("proc_window", proc_window)
<1>1. /\ Len(proc_window.init) = 3
      /\ Behind(proc_window, 0) = {}
      /\ Behind(proc_window, 1) = {"dir"}
      /\ Behind(proc_window, 2) = {"dir", "file"}
      /\ Behind(proc_window, 3) = {"dir", "file", "symlink"}
  BY DEF proc_window, Step, Behind, Checks
<1>2. \A k \in 0..2 :
        \/ k = 0 /\ proc_window.init[k + 1].undo = <<>>
        \/ k = 1 /\ proc_window.init[k + 1].undo = <<"dir">>
        \/ k = 2 /\ proc_window.init[k + 1].undo = <<"file", "dir">>
  BY DEF proc_window, Step
<1>3. /\ UndoSound(<<>>, {}, "proc_window", {})
      /\ UndoSound(<<"dir">>, {"dir"}, "proc_window", {})
      /\ UndoSound(<<"file", "dir">>, {"dir", "file"}, "proc_window", {})
  BY DEF UndoSound, In, OwnOnce, ChildrenFirst, Under, LeftBehind
<1>4. UndoSound(<<"symlink", "file", "dir">>, {"dir", "file", "symlink"}, "proc_window", {})
  BY DEF UndoSound, In, OwnOnce, ChildrenFirst, Under, LeftBehind
<1>5. Shielded("proc_window", proc_window)
  BY <1>1 DEF Shielded, proc_window, Step, LeftBehind, CutShort, Published, Callbacks
<1>6. Equipped("proc_window", proc_window)
  BY DEF Equipped, Used
<1>7. \A k \in 0..2 : proc_window.init[k + 1].check = "checked" =>
        UndoSound(proc_window.init[k + 1].undo,
                  Behind(proc_window, k), "proc_window", NotItsOwn("proc_window"))
  BY <1>1, <1>2, <1>3 DEF NotItsOwn
<1>8. UndoSound(proc_window.exit, Behind(proc_window, 3), "proc_window", {})
  BY <1>1, <1>4 DEF proc_window
<1> QED
  BY <1>1, <1>5, <1>6, <1>7, <1>8 DEF WellBuilt, LeftBehind

\* The directory of debugfs goes last, and all that is in it with it
LEMMA exp_debugfs_Built == WellBuilt("exp_debugfs", exp_debugfs)
<1>1. /\ Len(exp_debugfs.init) = 4
      /\ Behind(exp_debugfs, 2) = {"debugdir", "text"}
      /\ Behind(exp_debugfs, 3) = {"debugdir", "text", "number"}
      /\ Behind(exp_debugfs, 4) = {"debugdir", "text", "number", "hexnum"}
  BY DEF exp_debugfs, Step, Behind, Checks
<1>2. \A k \in 0..3 :
        \/ k = 2 /\ exp_debugfs.init[k + 1].undo = <<>>
        \/ k = 3 /\ exp_debugfs.init[k + 1].undo = <<>>
        \/ exp_debugfs.init[k + 1].check # "checked"
  BY DEF exp_debugfs, Step
<1>3. /\ UndoSound(<<>>, {"debugdir", "text"}, "exp_debugfs", {})
      /\ UndoSound(<<>>, {"debugdir", "text", "number"}, "exp_debugfs", {})
  BY DEF UndoSound, In, OwnOnce, ChildrenFirst, Under, LeftBehind
<1>4. UndoSound(<<"debugdir">>, {"debugdir", "text", "number", "hexnum"}, "exp_debugfs", {})
  BY DEF UndoSound, In, OwnOnce, ChildrenFirst, Under, LeftBehind
<1>5. Shielded("exp_debugfs", exp_debugfs)
  BY <1>1 DEF Shielded, exp_debugfs, Step, LeftBehind, CutShort, Published, Callbacks
<1>6. Equipped("exp_debugfs", exp_debugfs)
  BY DEF Equipped, Used
<1>7. \A k \in 0..3 : exp_debugfs.init[k + 1].check = "checked" =>
        UndoSound(exp_debugfs.init[k + 1].undo,
                  Behind(exp_debugfs, k), "exp_debugfs", NotItsOwn("exp_debugfs"))
  BY <1>1, <1>2, <1>3 DEF NotItsOwn
<1>8. UndoSound(exp_debugfs.exit, Behind(exp_debugfs, 4), "exp_debugfs", {})
  BY <1>1, <1>4 DEF exp_debugfs
<1> QED
  BY <1>1, <1>5, <1>6, <1>7, <1>8 DEF WellBuilt, LeftBehind

\* Devices that were allocated and not added are left behind
LEMMA platform_test_Built == WellBuilt("platform_test", platform_test)
<1>1. /\ Len(platform_test.init) = 7
      /\ Behind(platform_test, 0) = {}
      /\ Behind(platform_test, 1) = {"devices"}
      /\ Behind(platform_test, 2) = {"devices", "pdev0"}
      /\ Behind(platform_test, 3) = {"devices", "pdev0"}
      /\ Behind(platform_test, 4) = {"devices", "pdev0", "added0"}
      /\ Behind(platform_test, 5) = {"devices", "pdev0", "added0", "pdev1"}
      /\ Behind(platform_test, 6) = {"devices", "pdev0", "added0", "pdev1"}
      /\ Behind(platform_test, 7) = {"devices", "pdev0", "added0", "pdev1", "added1"}
  BY DEF platform_test, Step, Behind, Checks
<1>2. \A k \in 0..6 :
        \/ k = 0 /\ platform_test.init[k + 1].undo = <<>>
        \/ k = 1 /\ platform_test.init[k + 1].undo = <<"devices">>
        \/ k = 2 /\ platform_test.init[k + 1].undo = <<"pdev0", "devices">>
        \/ k = 3 /\ platform_test.init[k + 1].undo = <<"pdev0", "devices">>
        \/ k = 4 /\ platform_test.init[k + 1].undo = <<"added0", "devices">>
        \/ k = 5 /\ platform_test.init[k + 1].undo = <<"pdev1", "added0", "devices">>
        \/ k = 6 /\ platform_test.init[k + 1].undo = <<"pdev1", "added0", "devices">>
  BY DEF platform_test, Step
<1>3. /\ UndoSound(<<>>, {}, "platform_test", {})
      /\ UndoSound(<<"devices">>, {"devices"}, "platform_test", {})
      /\ UndoSound(<<"pdev0", "devices">>, {"devices", "pdev0"}, "platform_test", {})
      /\ UndoSound(<<"pdev0", "devices">>, {"devices", "pdev0"}, "platform_test", {})
      /\ UndoSound(<<"added0", "devices">>, {"devices", "pdev0", "added0"}, "platform_test", {})
      /\ UndoSound(<<"pdev1", "added0", "devices">>,
                   {"devices", "pdev0", "added0", "pdev1"}, "platform_test", {})
      /\ UndoSound(<<"pdev1", "added0", "devices">>,
                   {"devices", "pdev0", "added0", "pdev1"}, "platform_test", {})
  BY DEF UndoSound, In, OwnOnce, ChildrenFirst, Under, LeftBehind
<1>4. UndoSound(<<"added1", "added0", "devices">>,
                {"devices", "pdev0", "added0", "pdev1", "added1"}, "platform_test", {})
  BY DEF UndoSound, In, OwnOnce, ChildrenFirst, Under, LeftBehind
<1>5. Shielded("platform_test", platform_test)
  <2>1. LeftBehind("platform_test") = {"pdev0", "pdev1"}
    BY DEF LeftBehind
  <2> QED
    BY <1>1, <2>1 DEF Shielded, platform_test, Step, Published, Callbacks
<1>6. Equipped("platform_test", platform_test)
  BY DEF Equipped, Used
<1>7. \A k \in 0..6 : platform_test.init[k + 1].check = "checked" =>
        UndoSound(platform_test.init[k + 1].undo,
                  Behind(platform_test, k), "platform_test", NotItsOwn("platform_test"))
  BY <1>1, <1>2, <1>3 DEF NotItsOwn
<1>8. UndoSound(platform_test.exit, Behind(platform_test, 7), "platform_test", {})
  BY <1>1, <1>4 DEF platform_test
<1> QED
  BY <1>1, <1>5, <1>6, <1>7, <1>8 DEF WellBuilt, LeftBehind

\* The disk goes live last, by a step that cannot fail
LEMMA ram_block_Built == WellBuilt("ram_block", ram_block)
<1>1. /\ Len(ram_block.init) = 5
      /\ Behind(ram_block, 0) = {}
      /\ Behind(ram_block, 1) = {"ram"}
      /\ Behind(ram_block, 2) = {"ram", "major"}
      /\ Behind(ram_block, 3) = {"ram", "major", "queue"}
      /\ Behind(ram_block, 5) = {"ram", "major", "queue", "disk", "live"}
  BY DEF ram_block, Step, Behind, Checks
<1>2. \A k \in 0..4 :
        \/ k = 0 /\ ram_block.init[k + 1].undo = <<>>
        \/ k = 2 /\ ram_block.init[k + 1].undo = <<"major", "ram">>
        \/ k = 3 /\ ram_block.init[k + 1].undo = <<"queue", "major", "ram">>
        \/ ram_block.init[k + 1].check # "checked"
  BY DEF ram_block, Step
<1>3. /\ UndoSound(<<>>, {}, "ram_block", {})
      /\ UndoSound(<<"major", "ram">>, {"ram", "major"}, "ram_block", {})
      /\ UndoSound(<<"queue", "major", "ram">>, {"ram", "major", "queue"}, "ram_block", {})
  BY DEF UndoSound, In, OwnOnce, ChildrenFirst, Under, LeftBehind
<1>4. UndoSound(<<"live", "disk", "queue", "major", "ram">>,
                {"ram", "major", "queue", "disk", "live"}, "ram_block", {})
  BY DEF UndoSound, In, OwnOnce, ChildrenFirst, Under, LeftBehind
<1>5. Shielded("ram_block", ram_block)
  BY <1>1 DEF Shielded, ram_block, Step, LeftBehind, CutShort, Published, Callbacks
<1>6. Equipped("ram_block", ram_block)
  <2>1. \A i \in 1..5 : ram_block.init[i].takes \in Published => i = 5
    BY DEF ram_block, Step, Published
  <2>2. /\ 1 \in 1..(5 - 1) /\ ram_block.init[1].takes = "ram" /\ ram_block.init[1].check = "checked"
        /\ 3 \in 1..(5 - 1) /\ ram_block.init[3].takes = "queue" /\ ram_block.init[3].check = "checked"
        /\ 4 \in 1..(5 - 1) /\ ram_block.init[4].takes = "disk" /\ ram_block.init[4].check = "checked"
    BY DEF ram_block, Step
  <2> QED
    BY <1>1, <2>1, <2>2 DEF Equipped, Used, Checks, Callbacks, CutShort, FreesEarly
<1>7. \A k \in 0..4 : ram_block.init[k + 1].check = "checked" =>
        UndoSound(ram_block.init[k + 1].undo,
                  Behind(ram_block, k), "ram_block", NotItsOwn("ram_block"))
  BY <1>1, <1>2, <1>3 DEF NotItsOwn
<1>8. UndoSound(ram_block.exit, Behind(ram_block, 5), "ram_block", {})
  BY <1>1, <1>4 DEF ram_block
<1> QED
  BY <1>1, <1>5, <1>6, <1>7, <1>8 DEF WellBuilt, LeftBehind

\* The kernel may take its init for failed, and then calls no exit
LEMMA jprobe_Built == WellBuilt("jprobe", jprobe)
<1>1. /\ Len(jprobe.init) = 2
      /\ Behind(jprobe, 1) = {"kprobe"}
      /\ Behind(jprobe, 2) = {"kprobe"}
  BY DEF jprobe, Step, Behind, Checks
<1>2. \A k \in 0..1 :
        \/ k = 1 /\ jprobe.init[k + 1].undo = <<>>
        \/ jprobe.init[k + 1].check # "checked"
  BY DEF jprobe, Step
<1>3. /\ UndoSound(<<>>, {"kprobe"}, "jprobe", {})
  BY DEF UndoSound, In, OwnOnce, ChildrenFirst, Under, LeftBehind
<1>4. UndoSound(<<"kprobe">>, {"kprobe"}, "jprobe", {})
  BY DEF UndoSound, In, OwnOnce, ChildrenFirst, Under, LeftBehind
<1>5. Shielded("jprobe", jprobe)
  BY <1>1 DEF Shielded, jprobe, Step, LeftBehind, CutShort, Published, Callbacks
<1>6. Equipped("jprobe", jprobe)
  BY DEF Equipped, Used
<1>7. \A k \in 0..1 : jprobe.init[k + 1].check = "checked" =>
        UndoSound(jprobe.init[k + 1].undo, Behind(jprobe, k), "jprobe", NotItsOwn("jprobe"))
  BY <1>1, <1>2, <1>3 DEF NotItsOwn
<1>8. UndoSound(jprobe.exit, Behind(jprobe, 2), "jprobe", {})
  BY <1>1, <1>4 DEF jprobe
<1> QED
  BY <1>1, <1>5, <1>6, <1>7, <1>8 DEF WellBuilt, LeftBehind

\* The buffer goes whether or not the transfer succeeds
LEMMA spi_example_transfer_Built == WellBuilt("spi_example_transfer", spi_example_transfer)
<1>1. /\ Len(spi_example_transfer.init) = 2
      /\ Behind(spi_example_transfer, 0) = {}
      /\ Behind(spi_example_transfer, 1) = {"buf"}
      /\ Behind(spi_example_transfer, 2) = {"buf"}
  BY DEF spi_example_transfer, Step, Behind, Checks
<1>2. \A k \in 0..1 :
        \/ k = 0 /\ spi_example_transfer.init[k + 1].undo = <<>>
        \/ k = 1 /\ spi_example_transfer.init[k + 1].undo = <<"buf">>
  BY DEF spi_example_transfer, Step
<1>3. /\ UndoSound(<<>>, {}, "spi_example_transfer", {})
      /\ UndoSound(<<"buf">>, {"buf"}, "spi_example_transfer", {})
  BY DEF UndoSound, In, OwnOnce, ChildrenFirst, Under, LeftBehind
<1>4. UndoSound(<<"buf">>, {"buf"}, "spi_example_transfer", {})
  BY DEF UndoSound, In, OwnOnce, ChildrenFirst, Under, LeftBehind
<1>5. Shielded("spi_example_transfer", spi_example_transfer)
  BY <1>1 DEF Shielded, spi_example_transfer, Step, LeftBehind, CutShort, Published, Callbacks
<1>6. Equipped("spi_example_transfer", spi_example_transfer)
  BY DEF Equipped, Used
<1>7. \A k \in 0..1 : spi_example_transfer.init[k + 1].check = "checked" =>
        UndoSound(spi_example_transfer.init[k + 1].undo,
                  Behind(spi_example_transfer, k), "spi_example_transfer", NotItsOwn("spi_example_transfer"))
  BY <1>1, <1>2, <1>3 DEF NotItsOwn
<1>8. UndoSound(spi_example_transfer.exit,
                Behind(spi_example_transfer, 2), "spi_example_transfer", {})
  BY <1>1, <1>4 DEF spi_example_transfer
<1> QED
  BY <1>1, <1>5, <1>6, <1>7, <1>8 DEF WellBuilt, LeftBehind

\* The failure paths of a mount free info and the tracker twice, as NotItsOwn says
LEMMA real_sfs_Built ==
  ASSUME NEW d \in {"real_sfs", "real_sfs_minimal"}
  PROVE  WellBuilt(d, real_sfs)
<1>1. /\ Len(real_sfs.init) = 6
      /\ Behind(real_sfs, 0) = {}
      /\ Behind(real_sfs, 1) = {"info"}
      /\ Behind(real_sfs, 2) = {"info"}
      /\ Behind(real_sfs, 3) = {"info", "tracker"}
      /\ Behind(real_sfs, 4) = {"info", "tracker"}
      /\ Behind(real_sfs, 5) = {"info", "tracker", "rootinode"}
      /\ Behind(real_sfs, 6) = {"info", "tracker", "rootinode", "mount"}
  BY DEF real_sfs, Step, Behind, Checks, sfs_fill_super, init_browsing
<1>2. \A k \in 0..5 :
        \/ k = 0 /\ real_sfs.init[k + 1].undo = <<>>
        \/ k = 1 /\ real_sfs.init[k + 1].undo = <<"info">>
        \/ k = 2 /\ real_sfs.init[k + 1].undo = <<"info">>
        \/ k = 3 /\ real_sfs.init[k + 1].undo = <<"tracker", "info">>
        \/ k = 4 /\ real_sfs.init[k + 1].undo = <<"tracker", "info", "tracker", "info">>
        \/ k = 5 /\ real_sfs.init[k + 1].undo = <<"rootinode", "tracker", "info", "tracker", "info">>
  BY DEF real_sfs, Step, sfs_fill_super, init_browsing
<1>3. /\ UndoSound(<<>>, {}, d, {"info", "tracker"})
      /\ UndoSound(<<"info">>, {"info"}, d, {"info", "tracker"})
      /\ UndoSound(<<"info">>, {"info"}, d, {"info", "tracker"})
      /\ UndoSound(<<"tracker", "info">>, {"info", "tracker"}, d, {"info", "tracker"})
      /\ UndoSound(<<"tracker", "info", "tracker", "info">>,
                   {"info", "tracker"}, d, {"info", "tracker"})
      /\ UndoSound(<<"rootinode", "tracker", "info", "tracker", "info">>,
                   {"info", "tracker", "rootinode"}, d, {"info", "tracker"})
  BY DEF UndoSound, In, OwnOnce, ChildrenFirst, Under, LeftBehind
<1>4. UndoSound(<<"tracker", "info", "mount", "rootinode">>,
                {"info", "tracker", "rootinode", "mount"}, d, {})
  BY DEF UndoSound, In, OwnOnce, ChildrenFirst, Under, LeftBehind
<1>5. Shielded(d, real_sfs)
  <2>1. LeftBehind(d) = {}
    BY DEF LeftBehind
  <2>2. \A i \in 1..6 : real_sfs.init[i].takes \in Published => i = 6
    BY DEF real_sfs, Step, Published, sfs_fill_super, init_browsing
  <2> QED
    BY <1>1, <2>1, <2>2 DEF Shielded
<1>6. Equipped(d, real_sfs)
  <2>1. \A i \in 1..6 : real_sfs.init[i].takes \in Published => i = 6
    BY DEF real_sfs, Step, Published, sfs_fill_super, init_browsing
  <2>2. /\ 1 \in 1..(6 - 1) /\ real_sfs.init[1].takes = "info" /\ real_sfs.init[1].check = "checked"
        /\ 3 \in 1..(6 - 1) /\ real_sfs.init[3].takes = "tracker" /\ real_sfs.init[3].check = "checked"
    BY DEF real_sfs, Step, sfs_fill_super, init_browsing
  <2> QED
    BY <1>1, <2>1, <2>2 DEF Equipped, Used, Checks, Callbacks, Published, CutShort, FreesEarly
<1>7. \A k \in 0..5 : real_sfs.init[k + 1].check = "checked" =>
        UndoSound(real_sfs.init[k + 1].undo, Behind(real_sfs, k), d, NotItsOwn(d))
  BY <1>1, <1>2, <1>3 DEF NotItsOwn
<1>8. UndoSound(real_sfs.exit, Behind(real_sfs, 6), d, {})
  BY <1>1, <1>4 DEF real_sfs
<1> QED
  BY <1>1, <1>5, <1>6, <1>7, <1>8 DEF WellBuilt, LeftBehind

\* A mount that has a root inode only
LEMMA real_sfs_bb_Built == WellBuilt("real_sfs_bb", real_sfs_bb)
<1>1. /\ Len(real_sfs_bb.init) = 2
      /\ Behind(real_sfs_bb, 0) = {}
      /\ Behind(real_sfs_bb, 1) = {"rootinode"}
      /\ Behind(real_sfs_bb, 2) = {"rootinode", "mount"}
  BY DEF real_sfs_bb, Step, Behind, Checks
<1>2. \A k \in 0..1 :
        \/ k = 0 /\ real_sfs_bb.init[k + 1].undo = <<>>
        \/ k = 1 /\ real_sfs_bb.init[k + 1].undo = <<"rootinode">>
  BY DEF real_sfs_bb, Step
<1>3. /\ UndoSound(<<>>, {}, "real_sfs_bb", {})
      /\ UndoSound(<<"rootinode">>, {"rootinode"}, "real_sfs_bb", {})
  BY DEF UndoSound, In, OwnOnce, ChildrenFirst, Under, LeftBehind
<1>4. UndoSound(<<"mount", "rootinode">>, {"rootinode", "mount"}, "real_sfs_bb", {})
  BY DEF UndoSound, In, OwnOnce, ChildrenFirst, Under, LeftBehind
<1>5. Shielded("real_sfs_bb", real_sfs_bb)
  BY <1>1 DEF Shielded, real_sfs_bb, Step, LeftBehind, CutShort, Published, Callbacks
<1>6. Equipped("real_sfs_bb", real_sfs_bb)
  BY DEF Equipped, Used
<1>7. \A k \in 0..1 : real_sfs_bb.init[k + 1].check = "checked" =>
        UndoSound(real_sfs_bb.init[k + 1].undo,
                  Behind(real_sfs_bb, k), "real_sfs_bb", NotItsOwn("real_sfs_bb"))
  BY <1>1, <1>2, <1>3 DEF NotItsOwn
<1>8. UndoSound(real_sfs_bb.exit, Behind(real_sfs_bb, 2), "real_sfs_bb", {})
  BY <1>1, <1>4 DEF real_sfs_bb
<1> QED
  BY <1>1, <1>5, <1>6, <1>7, <1>8 DEF WellBuilt, LeftBehind

\* The failure path removes the entry that was not made, as NotItsOwn says
LEMMA procfs1_Built == WellBuilt("procfs1", procfs1)
<1>1. /\ Len(procfs1.init) = 1
      /\ Behind(procfs1, 0) = {}
      /\ Behind(procfs1, 1) = {"entry"}
  BY DEF procfs1, Step, Behind, Checks
<1>2. \A k \in 0..0 :
        \/ k = 0 /\ procfs1.init[k + 1].undo = <<"entry">>
  BY DEF procfs1, Step
<1>3. /\ UndoSound(<<"entry">>, {}, "procfs1", {"entry"})
  BY DEF UndoSound, In, OwnOnce, ChildrenFirst, Under, LeftBehind
<1>4. UndoSound(<<"entry">>, {"entry"}, "procfs1", {})
  BY DEF UndoSound, In, OwnOnce, ChildrenFirst, Under, LeftBehind
<1>5. Shielded("procfs1", procfs1)
  BY <1>1 DEF Shielded, procfs1, Step, LeftBehind, CutShort, Published, Callbacks
<1>6. Equipped("procfs1", procfs1)
  BY DEF Equipped, Used
<1>7. \A k \in 0..0 : procfs1.init[k + 1].check = "checked" =>
        UndoSound(procfs1.init[k + 1].undo, Behind(procfs1, k), "procfs1", NotItsOwn("procfs1"))
  BY <1>1, <1>2, <1>3 DEF NotItsOwn
<1>8. UndoSound(procfs1.exit, Behind(procfs1, 1), "procfs1", {})
  BY <1>1, <1>4 DEF procfs1
<1> QED
  BY <1>1, <1>5, <1>6, <1>7, <1>8 DEF WellBuilt, LeftBehind

\* Drivers that register one thing
LEMMA OneThing_Built ==
  ASSUME NEW d, LeftBehind(d) = {}, Used(d) = {},
         NEW r \in {"class", "timer", "hrtimer", "tasklet", "irq", "kprobe", "busdriver", "fstype"},
         r = "timer" => d \in CutShort,
         NEW c
  PROVE  WellBuilt(d, [init |-> << Step(r, c, <<>>) >>, exit |-> <<r>>])
<1> DEFINE t == [init |-> << Step(r, c, <<>>) >>, exit |-> <<r>>]
<1>1. /\ Len(t.init) = 1 /\ t.init[1].takes = r /\ t.init[1].undo = <<>> /\ t.exit = <<r>>
      /\ Behind(t, 0) = {} /\ Behind(t, 1) = {r}
  BY DEF Step, Behind, Checks
<1> HIDE DEF t
<1>2. UndoSound(<<>>, {}, d, NotItsOwn(d))
  BY DEF UndoSound, In, OwnOnce, ChildrenFirst
<1>3. UndoSound(<<r>>, {r}, d, {})
  BY DEF UndoSound, In, OwnOnce, ChildrenFirst, Under
<1>4. Shielded(d, t)
  BY <1>1 DEF Shielded, Published
<1>5. Equipped(d, t)
  BY DEF Equipped
<1>6. \A k \in 0..0 : k = 0 /\ t.init[k + 1].undo = <<>>
  BY <1>1
<1>7. WellBuilt(d, t)
  <2>1. \A k \in 0..(Len(t.init) - 1) : k \in 0..0
    BY <1>1
  <2>2. \A k \in 0..(Len(t.init) - 1) : UndoSound(t.init[k + 1].undo, Behind(t, k), d, NotItsOwn(d))
    BY <1>1, <1>2, <1>6, <2>1
  <2>3. UndoSound(t.exit, Behind(t, Len(t.init)), d, {})
    BY <1>1, <1>3
  <2> QED
    BY <1>1, <1>4, <1>5, <2>2, <2>3 DEF WellBuilt
<1> QED
  BY <1>7 DEF t

\* Every table is well built
LEMMA TablesBuilt == \A d \in DOMAIN Tables : WellBuilt(d, Tables[d])
<1>1. \A d \in {"our_glob_syms", "timer1", "hrtimer1", "taskletex", "myirqtest", "kprobe",
                "kprobe_example", "jprobe_example", "platform_driver", "spi_example", "sfs_init"} :
        LeftBehind(d) = {} /\ Used(d) = {}
  BY DEF LeftBehind, Used
<1>2. WellBuilt("our_glob_syms", our_glob_syms)
  BY <1>1, OneThing_Built DEF our_glob_syms
<1>3. WellBuilt("timer1", timer1)
  BY <1>1, OneThing_Built DEF timer1, CutShort
<1>4. WellBuilt("hrtimer1", hrtimer1)
  BY <1>1, OneThing_Built DEF hrtimer1
<1>5. WellBuilt("taskletex", taskletex)
  BY <1>1, OneThing_Built DEF taskletex
<1>6. WellBuilt("myirqtest", myirqtest)
  BY <1>1, OneThing_Built DEF myirqtest
<1>7. WellBuilt("kprobe", kprobe)
  BY <1>1, OneThing_Built DEF kprobe
<1>8. WellBuilt("kprobe_example", kprobe_example)
  BY <1>1, OneThing_Built DEF kprobe_example
<1>9. WellBuilt("jprobe_example", jprobe_example)
  BY <1>1, OneThing_Built DEF jprobe_example
<1>10. WellBuilt("platform_driver", platform_driver)
  BY <1>1, OneThing_Built DEF platform_driver
<1>11. WellBuilt("spi_example", spi_example)
  BY <1>1, OneThing_Built DEF spi_example
<1>12. WellBuilt("sfs_init", sfs_init)
  BY <1>1, OneThing_Built DEF sfs_init
<1>13. WellBuilt("ofcd", ofcd) /\ WellBuilt("ocd", ocd)
  <2>1. ocd = ofcd
    BY DEF ocd, ofcd
  <2> QED
    BY <2>1, ofcd_Built
<1>14. WellBuilt("module4", module4) /\ WellBuilt("module5", module5)
  <2>1. module5 = module4
    BY DEF module5, module4
  <2> QED
    BY <2>1, module4_Built
<1>15. WellBuilt("real_sfs", real_sfs) /\ WellBuilt("real_sfs_minimal", real_sfs_minimal)
  <2>1. real_sfs_minimal = real_sfs
    BY DEF real_sfs_minimal, real_sfs
  <2> QED
    BY <2>1, real_sfs_Built
<1>16. DOMAIN Tables = {"vdrv", "ofcd", "query_ioctl", "module4", "module5", "procex",
                        "proc_window", "our_glob_syms", "exp_debugfs",
                        "platform_test", "ram_block", "timer1",
                        "hrtimer1", "taskletex", "myirqtest", "kprobe",
                        "kprobe_example", "jprobe", "ocd",
                        "jprobe_example", "procfs1", "platform_driver",
                        "spi_example", "spi_example_transfer", "sfs_init",
                        "real_sfs", "real_sfs_minimal", "real_sfs_bb"}
  BY DEF Tables
<1>17. /\ Tables["vdrv"] = vdrv
       /\ Tables["ofcd"] = ofcd
       /\ Tables["query_ioctl"] = query_ioctl
       /\ Tables["module4"] = module4
       /\ Tables["module5"] = module5
       /\ Tables["procex"] = procex
       /\ Tables["proc_window"] = proc_window
       /\ Tables["our_glob_syms"] = our_glob_syms
       /\ Tables["exp_debugfs"] = exp_debugfs
       /\ Tables["platform_test"] = platform_test
       /\ Tables["ram_block"] = ram_block
       /\ Tables["timer1"] = timer1
       /\ Tables["hrtimer1"] = hrtimer1
       /\ Tables["taskletex"] = taskletex
       /\ Tables["myirqtest"] = myirqtest
       /\ Tables["kprobe"] = kprobe
       /\ Tables["kprobe_example"] = kprobe_example
       /\ Tables["jprobe"] = jprobe
       /\ Tables["ocd"] = ocd
       /\ Tables["jprobe_example"] = jprobe_example
       /\ Tables["procfs1"] = procfs1
       /\ Tables["platform_driver"] = platform_driver
       /\ Tables["spi_example"] = spi_example
       /\ Tables["spi_example_transfer"] = spi_example_transfer
       /\ Tables["sfs_init"] = sfs_init
       /\ Tables["real_sfs"] = real_sfs
       /\ Tables["real_sfs_minimal"] = real_sfs_minimal
       /\ Tables["real_sfs_bb"] = real_sfs_bb
  BY DEF Tables
<1> QED
  BY <1>2, <1>3, <1>4, <1>5, <1>6, <1>7, <1>8, <1>9, <1>10, <1>11, <1>12, <1>13, <1>14,
     <1>15, <1>16, <1>17, vdrv_Built, query_ioctl_Built, procex_Built, proc_window_Built,
     exp_debugfs_Built, platform_test_Built, ram_block_Built, jprobe_Built,
     spi_example_transfer_Built, real_sfs_bb_Built, procfs1_Built

-----------------------------------------------------------------------------
(* The course of a life *)

\* What is left of a list after its head
LEMMA TailIs ==
  ASSUME NEW l, l \in Seq(In(l)), l # <<>>
  PROVE  /\ Len(l) \in Nat \ {0} /\ Head(l) = l[1] /\ Len(Tail(l)) = Len(l) - 1
         /\ \A a \in 1..Len(Tail(l)) : Tail(l)[a] = l[a + 1]
         /\ Tail(l) \in Seq(In(Tail(l)))
         /\ In(l) = {Head(l)} \cup In(Tail(l))
<1> DEFINE t == Tail(l)
<1>1. /\ Len(l) \in Nat \ {0} /\ Head(l) = l[1] /\ Len(t) = Len(l) - 1 /\ t \in Seq(In(l))
      /\ \A a \in 1..Len(t) : t[a] = l[a + 1]
  OBVIOUS
<1> HIDE DEF t
<1>2. t \in Seq(In(t))
  <2>1. \A a \in 1..Len(t) : t[a] \in In(t)
    BY DEF In
  <2> DEFINE I == In(t)
             L == In(l)
  <2>2. \A a \in 1..Len(t) : t[a] \in I
    BY <2>1
  <2>3. t \in Seq(L) /\ Len(t) \in Nat
    BY <1>1
  <2> HIDE DEF I, L
  <2>4. t \in Seq(I)
    BY <2>2, <2>3
  <2> QED
    BY <2>4 DEF I
<1>3. In(l) = {l[1]} \cup In(t)
  <2>1. \A a \in 1..Len(l) : a = 1 \/ (a - 1 \in 1..Len(t) /\ a = (a - 1) + 1)
    BY <1>1
  <2>2. \A a \in 1..Len(t) : a + 1 \in 1..Len(l)
    BY <1>1
  <2>3. ASSUME NEW a \in 1..Len(l) PROVE l[a] \in {l[1]} \cup In(t)
    <3>1. a # 1 => l[a] = t[a - 1] /\ a - 1 \in 1..Len(t)
      BY <1>1, <2>1
    <3> QED
      BY <3>1 DEF In
  <2>4. ASSUME NEW a \in 1..Len(t) PROVE t[a] \in In(l)
    <3>1. t[a] = l[a + 1]
      BY <1>1
    <3> QED
      BY <2>2, <3>1 DEF In
  <2>5. l[1] \in In(l)
    <3>1. 1 \in 1..Len(l)
      BY <1>1
    <3> QED
      BY <3>1 DEF In
  <2>6. In(l) \subseteq {l[1]} \cup In(t)
    BY <2>3 DEF In
  <2>7. In(t) \subseteq In(l)
    BY <2>4 DEF In
  <2> QED
    BY <2>5, <2>6, <2>7
<1> QED
  BY <1>1, <1>2, <1>3 DEF t

\* What is left of a list when its head has been given back
LEMMA OnceTail ==
  ASSUME NEW l, l \in Seq(In(l)), l # <<>>, NEW S, NEW own, OwnOnce(l, S, own),
         NEW S2, Head(l) # "debugdir" => S \ {Head(l)} \subseteq S2
  PROVE  OwnOnce(Tail(l), S2, own)
<1> SUFFICES ASSUME NEW a \in 1..Len(Tail(l))
             PROVE  /\ \/ Tail(l)[a] \in own
                       \/ /\ Tail(l)[a] \in S2
                          /\ \A b \in 1..Len(Tail(l)) : b # a => Tail(l)[b] # Tail(l)[a]
                    /\ Tail(l)[a] = "debugdir" => a = Len(Tail(l))
  BY DEF OwnOnce
<1>1. /\ a + 1 \in 1..Len(l) /\ 1 \in 1..Len(l) /\ 1 # a + 1 /\ Len(l) # 1
      /\ Tail(l)[a] = l[a + 1] /\ Head(l) = l[1]
      /\ a + 1 = Len(l) => a = Len(Tail(l))
  BY TailIs
<1>2. Head(l) # "debugdir"
  BY <1>1 DEF OwnOnce
<1>3. \A b \in 1..Len(Tail(l)) : b + 1 \in 1..Len(l) /\ (b # a => b + 1 # a + 1) /\ Tail(l)[b] = l[b + 1]
  BY TailIs
<1>4. CASE l[a + 1] \in own
  BY <1>1, <1>4 DEF OwnOnce
<1>5. CASE l[a + 1] \notin own
  <2>1. l[a + 1] \in S /\ \A b \in 1..Len(l) : b # a + 1 => l[b] # l[a + 1]
    BY <1>1, <1>5 DEF OwnOnce
  <2>2. l[1] # l[a + 1]
    BY <1>1, <2>1
  <2>3. l[a + 1] \in S2
    BY <1>1, <1>2, <2>1, <2>2
  <2>4. l[a + 1] = "debugdir" => a + 1 = Len(l)
    BY <1>1 DEF OwnOnce
  <2> QED
    BY <1>1, <1>3, <2>1, <2>3, <2>4
<1> QED
  BY <1>4, <1>5

\* Of a list that gives children back first the rest does, and nothing that is
\* left is built on its head
LEMMA ChildrenTail ==
  ASSUME NEW l, l \in Seq(In(l)), l # <<>>, NEW S, ChildrenFirst(l, S),
         NEW H, H \subseteq S \ {Head(l)}
  PROVE  /\ ChildrenFirst(Tail(l), H)
         /\ \A r \in H : Under(r) = Nothing \/ Under(r) # Head(l)
<1>1. \A r \in H : Under(r) = Nothing \/ Under(r) # Head(l)
  <2> SUFFICES ASSUME NEW r \in H, Under(r) # Nothing, Under(r) = Head(l) PROVE FALSE
    OBVIOUS
  <2>1. 1 \in 1..Len(l) /\ l[1] = Under(r) /\ r \in S
    BY TailIs
  <2>2. \E b \in 1..(1 - 1) : l[b] = r
    BY <2>1 DEF ChildrenFirst
  <2> QED
    BY <2>2
<1>2. ASSUME NEW r \in H, NEW a \in 1..Len(Tail(l)), Under(r) # Nothing, Tail(l)[a] = Under(r)
      PROVE  \E b \in 1..(a - 1) : Tail(l)[b] = r
  <2>1. a + 1 \in 1..Len(l) /\ l[a + 1] = Under(r) /\ r \in S /\ r # l[1]
    BY <1>2, TailIs
  <2>2. PICK b \in 1..((a + 1) - 1) : l[b] = r
    BY <1>2, <2>1 DEF ChildrenFirst
  <2>3. b # 1
    BY <2>1, <2>2
  <2>4. b - 1 \in 1..(a - 1) /\ b - 1 \in 1..Len(Tail(l)) /\ (b - 1) + 1 = b
    BY <2>3, TailIs
  <2>5. Tail(l)[b - 1] = r
    BY <2>2, <2>4, TailIs
  <2> QED
    BY <2>4, <2>5
<1> QED
  BY <1>1, <1>2 DEF ChildrenFirst

\* One step more
LEMMA BehindMore ==
  ASSUME NEW t, NEW k \in Nat
  PROVE  Behind(t, k + 1) = Behind(t, k) \cup ({t.init[k + 1].takes} \ Checks)
<1>1. 1..(k + 1) = (1..k) \cup {k + 1}
  OBVIOUS
<1> QED
  BY <1>1 DEF Behind

\* More steps have taken no less
LEMMA BehindGrows ==
  ASSUME NEW t, NEW n \in Nat, NEW k \in 0..n
  PROVE  Behind(t, k) \subseteq Behind(t, n)
<1>1. 1..k \subseteq 1..n
  OBVIOUS
<1> QED
  BY <1>1 DEF Behind

\* At first nothing is held
LEMMA DriverInit == Init => DriverInv
<1> SUFFICES ASSUME Init PROVE DriverInv
  OBVIOUS
<1>1. Len(Table.init) \in Nat
  BY TablesBuilt DEF Init, Table, WellBuilt
<1>2. Position
  BY <1>1 DEF Init, Position
<1>3. Holdings /\ Listed /\ ParentsLast /\ Insiders
  BY DEF Init, Holdings, Listed, ParentsLast, Insiders
<1> QED
  BY <1>2, <1>3 DEF DriverInv

\* The driver's table is well built
LEMMA OfTable ==
  ASSUME DriverInv
  PROVE  WellBuilt(driver, Table) /\ Len(Table.init) \in Nat /\ done \in 0..Len(Table.init) /\ done \in Nat
<1>1. WellBuilt(driver, Table)
  BY TablesBuilt DEF DriverInv, Position, Table
<1> QED
  BY <1>1 DEF WellBuilt, DriverInv, Position

\* A driver stays the one that it is
LEMMA SameDriver == Next => driver' = driver /\ Table' = Table
  BY
     DEF Next, Insmod, Take, Fail, Loaded, Rmmod, GiveBack, Gone, Open, Close, CallBack,
         Return, Table

\* A step of init takes its thing
LEMMA TakeStep == ASSUME DriverInv, Take PROVE DriverInv'
<1> DEFINE r == Table.init[done + 1].takes
           n == Len(Table.init)
<1>1. driver' = driver /\ Table' = Table
  BY SameDriver DEF Next
<1>2. /\ stage = "init" /\ stage' = "init" /\ done + 1 \in 1..n /\ done' = done + 1
      /\ held' = held \cup ({r} \ Checks)
      /\ Under(r) \in held \cup {Nothing}
      /\ missed' = missed /\ opened' = opened /\ running' = running
  BY OfTable DEF Take
<1>3. Behind(Table, done + 1) = Behind(Table, done) \cup ({r} \ Checks)
  BY OfTable, BehindMore
<1>4. Behind(Table, done + 1) \subseteq Behind(Table, n)
  BY <1>2, OfTable, BehindGrows
<1> HIDE DEF r
<1>5. Position'
  <2>1. driver \in DOMAIN Tables /\ held \subseteq Behind(Table, n)
    BY DEF DriverInv, Position
  <2>2. held' \subseteq Behind(Table, n) /\ done + 1 \in 0..n
    BY <1>2, <1>3, <1>4, <2>1
  <2> QED
    BY <1>1, <1>2, <2>1, <2>2 DEF Position
<1>6. Holdings'
  <2>1. /\ held \subseteq LeftBehind(driver) \cup Behind(Table, done)
        /\ Behind(Table, done) \subseteq held \cup missed
        /\ \A j \in 1..done :
             Table.init[j].check \in {"checked", "sure"} => Table.init[j].takes \in held \cup Checks
    BY <1>2 DEF DriverInv, Holdings
  <2>2. \A j \in 1..(done + 1) : j \in 1..done \/ j = done + 1
    BY OfTable
  <2>3. \A j \in 1..(done + 1) :
          Table.init[j].check \in {"checked", "sure"} => Table.init[j].takes \in held' \cup Checks
    BY <1>2, <2>1, <2>2 DEF r
  <2> QED
    BY <1>1, <1>2, <1>3, <2>1, <2>3 DEF Holdings
<1>7. Listed'
  BY <1>2 DEF Listed
<1>8. ParentsLast'
  BY <1>2 DEF DriverInv, ParentsLast
<1>9. Insiders'
  <2>1. 1..done \subseteq 1..(done + 1)
    BY OfTable
  <2> QED
    BY <1>1, <1>2, <2>1 DEF DriverInv, Insiders
<1> QED
  BY <1>5, <1>6, <1>7, <1>8, <1>9 DEF DriverInv

\* A step of init fails: unnoticed, or its failure path has what the steps before took
LEMMA FailStep == ASSUME DriverInv, Fail PROVE DriverInv'
<1> DEFINE s == Table.init[done + 1]
           n == Len(Table.init)
<1>1. driver' = driver /\ Table' = Table
  BY SameDriver DEF Next
<1>2. /\ stage = "init" /\ done + 1 \in 1..n /\ done \in 0..(n - 1)
      /\ held' = held /\ opened' = opened /\ running' = running
  BY OfTable DEF Fail
<1>3. /\ held \subseteq LeftBehind(driver) \cup Behind(Table, done)
      /\ Behind(Table, done) \subseteq held \cup missed
  BY <1>2 DEF DriverInv, Holdings
<1>4. ParentsLast'
  BY <1>2 DEF DriverInv, ParentsLast
<1>5. CASE s.check = "checked" /\ stage' = "undo" /\ todo' = s.undo /\ UNCHANGED <<done, missed>>
  <2>1. UndoSound(s.undo, Behind(Table, done), driver, NotItsOwn(driver))
    BY <1>2, <1>5, OfTable DEF WellBuilt
  <2>2. Position'
    BY <1>1, <1>2, <1>5 DEF DriverInv, Position
  <2>3. Holdings'
    BY <1>5 DEF Holdings
  <2>4. Listed'
    <3>1. OwnOnce(s.undo, held \cup missed, NotItsOwn(driver))
      BY <1>3, <2>1 DEF UndoSound, OwnOnce
    <3>2. ChildrenFirst(s.undo, held)
      BY <1>3, <2>1 DEF UndoSound, ChildrenFirst
    <3>3. s.undo \in Seq(In(s.undo)) /\ held \subseteq LeftBehind(driver) \cup In(s.undo)
      BY <1>3, <2>1 DEF UndoSound
    <3> QED
      BY <1>1, <1>2, <1>5, <3>1, <3>2, <3>3 DEF Listed
  <2>5. Insiders'
    <3> SUFFICES ASSUME driver \notin CutShort PROVE ~opened /\ (running => held \cap (Callbacks \ {"timer"}) # {})
      BY <1>1, <1>2 DEF Insiders
    <3>1. ASSUME opened PROVE FALSE
      <4>1. PICK i \in 1..done : Table.init[i].takes \in Published
        BY <3>1 DEF DriverInv, Insiders
      <4>2. i < done + 1 /\ i \in 1..n /\ done + 1 \in 1..n
        BY <1>2, OfTable
      <4>3. s.check # "checked"
        BY <4>1, <4>2, OfTable DEF WellBuilt, Shielded
      <4> QED
        BY <1>5, <4>3
    <3> QED
      BY <3>1 DEF DriverInv, Insiders
  <2> QED
    BY <1>4, <2>2, <2>3, <2>4, <2>5 DEF DriverInv
<1>6. CASE /\ s.check \in {"missed", "minded"} /\ done' = done + 1
           /\ missed' = missed \cup {s.takes} /\ UNCHANGED <<stage, todo>>
  <2>1. Behind(Table, done + 1) = Behind(Table, done) \cup ({s.takes} \ Checks)
    BY OfTable, BehindMore
  <2>2. Position'
    BY <1>1, <1>2, <1>6 DEF DriverInv, Position
  <2>3. Holdings'
    <3>1. \A j \in 1..(done + 1) : j \in 1..done \/ j = done + 1
      BY OfTable
    <3>2. \A j \in 1..(done + 1) :
            Table.init[j].check \in {"checked", "sure"} => Table.init[j].takes \in held \cup Checks
      BY <1>2, <1>6, <3>1 DEF DriverInv, Holdings
    <3>3. Behind(Table, done + 1) \subseteq held \cup missed'
      BY <1>3, <1>6, <2>1
    <3> QED
      BY <1>1, <1>2, <1>3, <1>6, <2>1, <3>2, <3>3 DEF Holdings
  <2>4. Listed'
    BY <1>2, <1>6 DEF Listed
  <2>5. Insiders'
    <3>1. 1..done \subseteq 1..(done + 1)
      BY OfTable
    <3> QED
      BY <1>1, <1>2, <1>6, <3>1 DEF DriverInv, Insiders
  <2> QED
    BY <1>4, <2>2, <2>3, <2>4, <2>5 DEF DriverInv
<1> QED
  BY <1>5, <1>6 DEF Fail

\* The next thing on the list is given back
LEMMA GiveBackStep == ASSUME DriverInv, GiveBack PROVE DriverInv'
<1> DEFINE x == Head(todo)
<1>1. driver' = driver /\ Table' = Table
  BY SameDriver DEF Next
<1>2. /\ stage \in {"undo", "exit"} /\ stage' = stage /\ done' = done /\ todo # <<>>
      /\ Waits(x) => ~running
      /\ held' = IF x = "debugdir" /\ "debugdir" \in held THEN {} ELSE held \ {x}
      /\ missed' = missed \ {x} /\ todo' = Tail(todo)
      /\ opened' = opened /\ running' = running
  BY DEF GiveBack
<1> DEFINE own == IF stage = "undo" THEN NotItsOwn(driver) ELSE {}
<1>3. /\ todo \in Seq(In(todo))
      /\ held \subseteq LeftBehind(driver) \cup In(todo)
      /\ OwnOnce(todo, held \cup missed, own)
      /\ ChildrenFirst(todo, held)
  BY <1>2 DEF DriverInv, Listed
<1>4. held' \subseteq held \ {x}
  BY <1>2
<1>5. x # "debugdir" => held' \cup missed' = (held \cup missed) \ {x}
  BY <1>2
<1> HIDE DEF x, own
<1>6. Position'
  BY <1>1, <1>2, <1>4 DEF DriverInv, Position
<1>7. Holdings'
  BY <1>2 DEF Holdings
<1>8. Listed'
  <2>1. OwnOnce(Tail(todo), held' \cup missed', own)
    BY <1>2, <1>3, <1>5, OnceTail DEF x
  <2>2. ChildrenFirst(Tail(todo), held')
    BY <1>2, <1>3, <1>4, ChildrenTail DEF x
  <2>3. Tail(todo) \in Seq(In(Tail(todo))) /\ In(todo) = {x} \cup In(Tail(todo))
    BY <1>2, <1>3, TailIs DEF x
  <2>4. held' \subseteq LeftBehind(driver) \cup In(Tail(todo))
    BY <1>3, <1>4, <2>3
  <2> QED
    BY <1>1, <1>2, <2>1, <2>2, <2>3, <2>4 DEF Listed, own
<1>9. ParentsLast'
  <2> SUFFICES ASSUME NEW r \in held' PROVE Under(r) \in held' \cup {Nothing}
    BY DEF ParentsLast
  <2>1. CASE x = "debugdir" /\ "debugdir" \in held
    BY <1>2, <2>1
  <2>2. CASE ~(x = "debugdir" /\ "debugdir" \in held)
    <3>1. held' = held \ {x}
      BY <1>2, <2>2
    <3>2. Under(r) = Nothing \/ Under(r) # x
      BY <1>2, <1>3, <1>4, ChildrenTail DEF x
    <3>3. Under(r) \in held \cup {Nothing}
      BY <3>1 DEF DriverInv, ParentsLast
    <3> QED
      BY <3>1, <3>2, <3>3
  <2> QED
    BY <2>1, <2>2
<1>10. Insiders'
  <2> SUFFICES ASSUME driver \notin CutShort
               PROVE  ~opened /\ (running => held' \cap (Callbacks \ {"timer"}) # {})
    BY <1>1, <1>2 DEF Insiders
  <2>1. ~opened /\ (running => held \cap (Callbacks \ {"timer"}) # {})
    BY <1>2 DEF DriverInv, Insiders
  <2>2. ASSUME running PROVE held' \cap (Callbacks \ {"timer"}) # {}
    <3>1. PICK c \in held : c \in Callbacks \ {"timer"}
      BY <2>1, <2>2
    <3>2. x # c
      BY <1>2, <2>2, <3>1 DEF Waits
    <3>3. c \in Behind(Table, Len(Table.init))
      BY <3>1 DEF DriverInv, Position
    <3>4. "debugdir" \notin held
      BY <3>1, <3>3, OfTable DEF WellBuilt, Shielded, DriverInv, Position
    <3> QED
      BY <1>2, <3>1, <3>2, <3>4
  <2> QED
    BY <2>1, <2>2
<1> QED
  BY <1>6, <1>7, <1>8, <1>9, <1>10 DEF DriverInv

\* Loading starts
LEMMA InsmodStep == ASSUME DriverInv, Insmod PROVE DriverInv'
<1>1. driver' = driver /\ Table' = Table
  BY SameDriver DEF Next
<1>2. Position' /\ Listed' /\ ParentsLast' /\ Insiders'
  BY <1>1, OfTable DEF DriverInv, Insmod, Position, Listed, ParentsLast, Insiders
<1>3. Holdings'
  <2>1. Behind(Table, 0) = {} /\ held \subseteq LeftBehind(driver)
    BY DEF DriverInv, Insmod, Holdings, Behind
  <2> QED
    BY <1>1, <2>1 DEF Insmod, Holdings
<1> QED
  BY <1>2, <1>3 DEF DriverInv

\* Init returns success
LEMMA LoadedStep == ASSUME DriverInv, Loaded PROVE DriverInv'
<1>1. driver' = driver /\ Table' = Table
  BY SameDriver DEF Next
<1>2. Position' /\ Listed' /\ ParentsLast'
  BY <1>1 DEF DriverInv, Loaded, Position, Listed, ParentsLast
<1>3. Holdings' /\ Insiders'
  BY <1>1 DEF DriverInv, Loaded, Holdings, Insiders
<1> QED
  BY <1>2, <1>3 DEF DriverInv

\* Exit starts: nobody is inside, and its list has all that is held
LEMMA RmmodStep == ASSUME DriverInv, Rmmod PROVE DriverInv'
<1> DEFINE all == Behind(Table, Len(Table.init))
<1>1. driver' = driver /\ Table' = Table
  BY SameDriver DEF Next
<1>2. /\ stage = "live" /\ stage' = "exit" /\ todo' = Table.exit /\ ~opened
      /\ UNCHANGED <<driver, done, held, missed, opened, running>>
  BY DEF Rmmod
<1>3. UndoSound(Table.exit, all, driver, {})
  BY OfTable DEF WellBuilt
<1>4. held \subseteq LeftBehind(driver) \cup all /\ all \subseteq held \cup missed
  BY <1>2 DEF DriverInv, Position, Holdings
<1>5. Position' /\ ParentsLast' /\ Insiders'
  BY <1>1, <1>2 DEF DriverInv, Position, ParentsLast, Insiders
<1>6. Holdings'
  BY <1>2 DEF Holdings
<1>7. Listed'
  <2>1. OwnOnce(Table.exit, held \cup missed, {})
    BY <1>3, <1>4 DEF UndoSound, OwnOnce
  <2>2. ChildrenFirst(Table.exit, held)
    BY <1>3, <1>4 DEF UndoSound, ChildrenFirst
  <2>3. Table.exit \in Seq(In(Table.exit)) /\ held \subseteq LeftBehind(driver) \cup In(Table.exit)
    BY <1>3, <1>4 DEF UndoSound
  <2> QED
    BY <1>1, <1>2, <2>1, <2>2, <2>3 DEF Listed
<1> QED
  BY <1>5, <1>6, <1>7 DEF DriverInv

\* The list is empty: nothing is held but what is left behind
LEMMA GoneStep == ASSUME DriverInv, Gone PROVE DriverInv'
<1>1. driver' = driver /\ Table' = Table
  BY SameDriver DEF Next
<1>2. Position' /\ Listed' /\ ParentsLast'
  BY <1>1 DEF DriverInv, Gone, Position, Listed, ParentsLast
<1>3. held \subseteq LeftBehind(driver)
  BY DEF DriverInv, Gone, Listed, In
<1>4. Holdings'
  BY <1>1, <1>3 DEF Gone, Holdings
<1>5. Insiders'
  <2> SUFFICES ASSUME driver \notin CutShort PROVE ~opened /\ ~running
    BY <1>1 DEF Gone, Insiders
  <2>1. LeftBehind(driver) \cap Callbacks = {}
    BY OfTable DEF WellBuilt, Shielded
  <2> QED
    BY <1>3, <2>1 DEF DriverInv, Gone, Insiders
<1> QED
  BY <1>2, <1>4, <1>5 DEF DriverInv

\* Programs and callbacks come and go
LEMMA GuestStep == ASSUME DriverInv, Open \/ Close \/ CallBack \/ Return PROVE DriverInv'
<1>1. driver' = driver /\ Table' = Table
  BY SameDriver DEF Next
<1>2. UNCHANGED <<stage, done, todo, held, missed>>
  BY DEF Open, Close, CallBack, Return
<1>3. Position' /\ Holdings' /\ Listed' /\ ParentsLast'
  BY <1>1, <1>2 DEF DriverInv, Position, Holdings, Listed, ParentsLast
<1>4. Insiders'
  <2>1. CASE Open
    <3> SUFFICES ASSUME driver \notin CutShort
                 PROVE  stage \in {"init", "live"} /\ \E i \in 1..done : Table.init[i].takes \in Published
      BY <1>1, <1>2, <2>1 DEF DriverInv, Open, Insiders
    <3>1. stage \in {"init", "live"} /\ held \cap Published # {}
      BY <2>1 DEF Open
    <3>2. LeftBehind(driver) \cap Published = {}
      BY OfTable DEF WellBuilt, Shielded
    <3>3. held \subseteq LeftBehind(driver) \cup Behind(Table, done)
      BY <3>1 DEF DriverInv, Holdings
    <3> QED
      BY <3>1, <3>2, <3>3 DEF Behind
  <2>2. CASE CallBack
    <3> SUFFICES ASSUME driver \notin CutShort PROVE held \cap (Callbacks \ {"timer"}) # {}
      BY <1>1, <1>2, <2>2 DEF DriverInv, CallBack, Insiders
    <3>1. "timer" \notin held
      BY OfTable DEF WellBuilt, Shielded, DriverInv, Position
    <3> QED
      BY <2>2, <3>1 DEF CallBack
  <2>3. CASE Close \/ Return
    BY <1>1, <1>2, <2>3 DEF DriverInv, Close, Return, Insiders
  <2> QED
    BY <2>1, <2>2, <2>3
<1> QED
  BY <1>3, <1>4 DEF DriverInv

\* Every step of a driver's life keeps the invariant
LEMMA DriverStep == DriverInv /\ [Next]_vars => DriverInv'
<1> SUFFICES ASSUME DriverInv, [Next]_vars PROVE DriverInv'
  OBVIOUS
<1>1. CASE Next
  BY <1>1, InsmodStep, TakeStep, FailStep, LoadedStep, RmmodStep, GiveBackStep, GoneStep,
     GuestStep
     DEF Next
<1>2. CASE UNCHANGED vars
  BY <1>2 DEF vars, DriverInv, Position, Holdings, Listed, ParentsLast, Insiders, Table
<1> QED
  BY <1>1, <1>2

\* The invariant of every driver's life
LEMMA DriverInvariance == Spec => []DriverInv
  BY DriverInit, DriverStep, PTL DEF Spec

\* A mount that failed half-way has no flusher yet
NotYetCalled ==
  driver \in FreesEarly /\ stage = "undo" => held \cap Callbacks = {}

LEMMA NotYetCalledStep ==
  ASSUME DriverInv, NotYetCalled, [Next]_vars PROVE NotYetCalled'
<1> SUFFICES ASSUME driver' \in FreesEarly, stage' = "undo", NEW r \in held', r \in Callbacks
             PROVE  FALSE
  BY DEF NotYetCalled
<1>1. driver' = driver
  BY SameDriver DEF vars
<1>2. driver = "real_sfs" /\ driver \in FreesEarly
  BY <1>1 DEF FreesEarly
<1>3. CASE stage = "undo"
  <2>1. held' \subseteq held
    BY <1>3
       DEF Next, vars, Insmod, Take, Fail, Loaded, Rmmod, GiveBack, Gone, Open, Close,
           CallBack, Return
  <2> QED
    BY <1>2, <1>3, <2>1 DEF NotYetCalled
<1>4. CASE stage # "undo"
  <2>1. Fail
    BY <1>4
       DEF Next, vars, Insmod, Take, Loaded, Rmmod, GiveBack, Gone, Open, Close, CallBack,
           Return
  <2>2. /\ stage = "init" /\ held' = held /\ done + 1 \in 1..Len(Table.init)
        /\ Table.init[done + 1].check = "checked"
    BY <1>4, <2>1, OfTable DEF Fail
  <2>3. Used(driver) # {} /\ driver \notin CutShort
    BY <1>2 DEF Used, CutShort
  <2>4. LeftBehind(driver) \cap Callbacks = {}
    BY <2>3, OfTable DEF WellBuilt, Shielded
  <2>5. r \in Behind(Table, done) /\ r \in Behind(Table, Len(Table.init))
    BY <2>2, <2>4 DEF DriverInv, Position, Holdings
  <2>6. r \in Published
    BY <2>3, <2>5, OfTable DEF WellBuilt, Equipped
  <2>7. PICK i \in 1..done : Table.init[i].takes = r
    BY <2>5 DEF Behind
  <2>8. i < done + 1 /\ i \in 1..Len(Table.init)
    BY <2>2, OfTable
  <2> QED
    BY <2>2, <2>3, <2>6, <2>7, <2>8, OfTable DEF WellBuilt, Shielded
<1> QED
  BY <1>3, <1>4

\* What init takes for certain before it publishes the driver stays until nobody
\* is inside: vdrv's memory, ram_block's queue, the tracker of a mount; only the I/O
\* port may come later, or not at all
LEMMA EquippedInside ==
  ASSUME DriverInv, NotYetCalled, opened \/ (running /\ ~(driver \in FreesEarly /\ stage = "exit"))
  PROVE  Used(driver) \subseteq held \cup UsedAnyway
<1> SUFFICES ASSUME NEW u \in Used(driver) PROVE u \in held \cup UsedAnyway
  OBVIOUS
<1>1. /\ driver \notin CutShort
      /\ driver \notin FreesEarly => Behind(Table, Len(Table.init)) \cap Callbacks = {}
      /\ Behind(Table, Len(Table.init)) \cap Callbacks \subseteq Published
  BY OfTable DEF WellBuilt, Equipped
<1>2. stage \in {"init", "live"} /\ \E i \in 1..done : Table.init[i].takes \in Published
  <2>1. CASE opened
    BY <1>1, <2>1 DEF DriverInv, Insiders
  <2>2. CASE running /\ ~(driver \in FreesEarly /\ stage = "exit")
    <3>1. PICK r \in held : r \in Callbacks
      BY <1>1, <2>2 DEF DriverInv, Insiders
    <3>2. held \subseteq Behind(Table, Len(Table.init))
      BY DEF DriverInv, Position
    <3>3. driver \in FreesEarly /\ r \in Published
      BY <1>1, <3>1, <3>2
    <3>4. LeftBehind(driver) \cap Callbacks = {}
      BY <1>1, OfTable DEF WellBuilt, Shielded
    <3>5. stage \in {"init", "live"}
      <4>1. stage # "out"
        BY <3>1, <3>4 DEF DriverInv, Holdings
      <4>2. stage # "undo"
        BY <3>1, <3>3 DEF NotYetCalled
      <4> QED
        BY <2>2, <3>3, <4>1, <4>2 DEF DriverInv, Position
    <3>6. r \in Behind(Table, done)
      BY <3>1, <3>4, <3>5 DEF DriverInv, Holdings
    <3> QED
      BY <3>3, <3>5, <3>6 DEF Behind
  <2> QED
    BY <2>1, <2>2
<1>3. CASE u = "ioport"
  <2>1. stage = "live" => u \in held \cup missed
    <3>1. "ioport" \in Behind(Table, Len(Table.init))
      BY <1>3, OfTable DEF WellBuilt, Equipped
    <3> QED
      BY <1>3, <3>1 DEF DriverInv, Position, Holdings
  <2> QED
    BY <1>2, <1>3, <2>1 DEF UsedAnyway
<1>4. CASE u # "ioport"
  <2>1. PICK i \in 1..done : Table.init[i].takes \in Published
    BY <1>2
  <2>2. i \in 1..Len(Table.init)
    BY OfTable
  <2>3. PICK j \in 1..(i - 1) : /\ Table.init[j].takes = u /\ u \notin Checks
                                /\ Table.init[j].check \in {"checked", "sure"}
    BY <1>4, <2>1, <2>2, OfTable DEF WellBuilt, Equipped
  <2>4. j \in 1..done
    BY OfTable
  <2> QED
    BY <1>2, <2>3, <2>4 DEF DriverInv, Holdings
<1> QED
  BY <1>3, <1>4

\* After a load that failed, and after unloading, a driver has nothing but what
\* LeftBehind says of it, whichever steps failed and however often it is loaded
THEOREM AllGivenBack == Spec => []NothingLeft
<1>1. DriverInv => NothingLeft
  BY DEF DriverInv, Holdings, NothingLeft
<1> QED
  BY <1>1, DriverInvariance, PTL

\* Failure paths and exits give back what the driver has, once each
THEOREM OnlyItsOwn == Spec => GivesBackItsOwn
<1>1. DriverInv /\ [Next]_vars =>
        [GiveBack => \/ Head(todo) \in held \cup missed
                     \/ stage = "undo" /\ Head(todo) \in NotItsOwn(driver)]_vars
  <2> SUFFICES ASSUME DriverInv, GiveBack
               PROVE  \/ Head(todo) \in held \cup missed
                      \/ stage = "undo" /\ Head(todo) \in NotItsOwn(driver)
    OBVIOUS
  <2>1. stage \in {"undo", "exit"} /\ todo # <<>>
    BY DEF GiveBack
  <2>2. /\ todo \in Seq(In(todo))
        /\ OwnOnce(todo, held \cup missed, IF stage = "undo" THEN NotItsOwn(driver) ELSE {})
    BY <2>1 DEF DriverInv, Listed
  <2>3. 1 \in 1..Len(todo) /\ todo[1] = Head(todo)
    BY <2>1, <2>2, TailIs
  <2> QED
    BY <2>1, <2>2, <2>3 DEF OwnOnce
<1> QED
  BY <1>1, DriverInvariance, PTL DEF Spec, GivesBackItsOwn

\* A class goes after its device, a directory after its files, a disk after its
\* partitions
THEOREM ParentsOutlast == Spec => []ParentsLast
<1>1. DriverInv => ParentsLast
  BY DEF DriverInv
<1> QED
  BY <1>1, DriverInvariance, PTL

\* No program has the device open and no callback runs once the code is gone,
\* but for the drivers in CutShort
THEOREM NobodyInGoneCode == Spec => []CodeStays
<1>1. DriverInv => CodeStays
  <2> SUFFICES ASSUME DriverInv, stage = "out", driver \notin CutShort PROVE ~opened /\ ~running
    BY DEF CodeStays
  <2>1. LeftBehind(driver) \cap Callbacks = {}
    BY OfTable DEF WellBuilt, Shielded
  <2> QED
    BY <2>1 DEF DriverInv, Holdings, Insiders
<1> QED
  BY <1>1, DriverInvariance, PTL

\* What handlers and callbacks use is there while they can run
THEOREM HandlersAreReady == Spec => []HandlersReady
<1>1. Init => NotYetCalled
  BY DEF Init, NotYetCalled
<1>2. DriverInv /\ NotYetCalled => HandlersReady
  BY EquippedInside DEF HandlersReady
<1> QED
  BY <1>1, <1>2, NotYetCalledStep, DriverInvariance, PTL DEF Spec

-----------------------------------------------------------------------------
(* Sums *)

\* A set of numbers has a least one
LEMMA LeastOf ==
  ASSUME NEW T \in SUBSET Nat, T # {}
  PROVE  \E x \in T : \A y \in T : x <= y
<1> DEFINE R == OpToRel(<, Nat)
<1>1. IsWellFoundedOn(R, Nat)
  BY NatLessThanWellFounded
<1>2. \A x, y \in Nat : x < y => <<x, y>> \in R
  BY DEF OpToRel
<1> HIDE DEF R
<1>3. PICK x \in T : \A y \in T : ~(<<y, x>> \in R)
  BY <1>1, WFMin
<1>4. \A y \in T : ~(y < x)
  BY <1>2, <1>3
<1> QED
  BY <1>4

IsSum(f, g, n) ==
  /\ f \in [0..n -> Nat] /\ f[0] = 0
  /\ \A i \in 1..n : f[i] = f[i - 1] + g[i]

LEMMA SumExists == \A n \in Nat : \A g \in [1..n -> Nat] : \E f : IsSum(f, g, n)
<1> DEFINE Without == {n \in Nat : \E g \in [1..n -> Nat] : \A f : ~IsSum(f, g, n)}
<1> SUFFICES Without = {}
  OBVIOUS
<1> SUFFICES ASSUME NEW n \in Without, \A m \in Without : n <= m PROVE FALSE
  BY LeastOf
<1>1. PICK g \in [1..n -> Nat] : \A f : ~IsSum(f, g, n)
  OBVIOUS
<1>2. CASE n = 0
  <2>1. IsSum([i \in 0..n |-> 0], g, n)
    BY <1>2 DEF IsSum
  <2> QED
    BY <1>1, <2>1
<1>3. CASE n # 0
  <2>1. n - 1 \in Nat /\ n - 1 \notin Without
    <3>1. n \in Nat
      OBVIOUS
    <3>2. n - 1 \in Nat /\ ~(n <= n - 1)
      BY <1>3, <3>1
    <3> HIDE DEF Without
    <3> QED
      BY <3>2, Zenon
  <2>2. [i \in 1..(n - 1) |-> g[i]] \in [1..(n - 1) -> Nat]
    BY <1>1, <2>1
  <2>3. PICK f : IsSum(f, [i \in 1..(n - 1) |-> g[i]], n - 1)
    BY <2>1, <2>2
  <2> DEFINE h == [i \in 0..n |-> IF i = n THEN f[n - 1] + g[n] ELSE f[i]]
  <2>4. \A i \in 0..n : i # n => i \in 0..(n - 1)
    BY <1>3
  <2>5. f \in [0..(n - 1) -> Nat] /\ f[0] = 0 /\ f[n - 1] \in Nat /\ g[n] \in Nat
    BY <1>1, <1>3, <2>1, <2>3 DEF IsSum
  <2>6. h \in [0..n -> Nat] /\ h[0] = 0
    BY <1>3, <2>4, <2>5
  <2>7. ASSUME NEW i \in 1..n PROVE h[i] = h[i - 1] + g[i]
    <3>1. i - 1 \in 0..(n - 1) /\ i - 1 # n /\ h[i - 1] = f[i - 1]
      OBVIOUS
    <3>2. i # n => i \in 1..(n - 1) /\ f[i] = f[i - 1] + g[i]
      BY <2>3 DEF IsSum
    <3> QED
      BY <3>1, <3>2
  <2> QED
    BY <1>1, <2>6, <2>7 DEF IsSum
<1> QED
  BY <1>2, <1>3

\* The recursive definition means the sums
LEMMA SumIs == ASSUME NEW g \in Seq(Nat) PROVE IsSum(SumOfFirst(g), g, Len(g))
<1> DEFINE Eq(h) == h = [i \in 0..Len(g) |-> IF i = 0 THEN 0 ELSE h[i - 1] + g[i]]
           s == CHOOSE h : Eq(h)
<1>0. Len(g) \in Nat /\ g \in [1..Len(g) -> Nat]
  OBVIOUS
<1>1. PICK f : IsSum(f, g, Len(g))
  BY <1>0, SumExists
<1>2. \A i \in 0..Len(g) : i # 0 => i \in 1..Len(g)
  BY <1>0
<1>3. Eq(f)
  BY <1>1, <1>2 DEF IsSum
<1>4. Eq(s)
  BY <1>3
<1>5. SumOfFirst(g) = s
  BY DEF SumOfFirst
<1> HIDE DEF s
<1>6. s[0] = 0 /\ DOMAIN s = 0..Len(g)
  BY <1>0, <1>4
<1>7. ASSUME NEW i \in 1..Len(g) PROVE s[i] = s[i - 1] + g[i]
  <2>1. i \in 0..Len(g) /\ i # 0
    BY <1>0
  <2> QED
    BY <1>4, <2>1
<1> DEFINE Off == {i \in 0..Len(g) : s[i] # f[i]}
<1>8. Off = {}
  <2> SUFFICES ASSUME NEW i \in Off, \A j \in Off : i <= j PROVE FALSE
    <3>1. Off \in SUBSET Nat
      BY <1>0
    <3> QED
      BY <3>1, LeastOf
  <2>1. i # 0
    BY <1>1, <1>6 DEF IsSum
  <2>2. i \in 1..Len(g) /\ i - 1 \in 0..Len(g) /\ i - 1 \notin Off
    BY <1>0, <2>1
  <2>3. s[i] = f[i]
    BY <1>1, <1>7, <2>2 DEF IsSum
  <2> QED
    BY <2>3
<1>9. s \in [0..Len(g) -> Nat]
  <2>1. s = [i \in 0..Len(g) |-> s[i]]
    BY <1>4
  <2>2. \A i \in 0..Len(g) : s[i] \in Nat
    BY <1>1, <1>8 DEF IsSum
  <2> QED
    BY <2>1, <2>2
<1> QED
  BY <1>5, <1>6, <1>7, <1>9 DEF IsSum

LEMMA SumGrows ==
  ASSUME NEW g, NEW n \in Nat, NEW f, IsSum(f, g, n), g \in [1..n -> Nat],
         NEW i \in 0..n, NEW j \in 0..n, i <= j
  PROVE  f[i] <= f[j]
<1> DEFINE Low == {k \in 0..n : i <= k /\ ~(f[i] <= f[k])}
<1> SUFFICES Low = {}
  OBVIOUS
<1> SUFFICES ASSUME NEW k \in Low, \A m \in Low : k <= m PROVE FALSE
  <2>1. Low \in SUBSET Nat
    OBVIOUS
  <2> QED
    BY <2>1, LeastOf
<1>1. f[i] \in Nat /\ f[k] \in Nat
  BY DEF IsSum
<1>2. k # i
  BY <1>1
<1>3. k \in 1..n /\ k - 1 \in 0..n /\ i <= k - 1 /\ k - 1 \notin Low
  BY <1>2
<1>4. f[k] = f[k - 1] + g[k] /\ g[k] \in Nat /\ f[k - 1] \in Nat /\ f[i] <= f[k - 1]
  BY <1>3 DEF IsSum
<1> QED
  BY <1>1, <1>4

-----------------------------------------------------------------------------
(* What rb_transfer copies *)

\* Segments as rb_transfer counts them, in sectors, take no more room than they have
LEMMA SumsOf ==
  ASSUME NEW segs \in Seq(Nat)
  PROVE  /\ Len(segs) \in Nat /\ segs \in [1..Len(segs) -> Nat]
         /\ Sectors(segs) \in [1..Len(segs) -> Nat]
         /\ IsSum(SumOfFirst(segs), segs, Len(segs))
         /\ IsSum(SumOfFirst(Sectors(segs)), Sectors(segs), Len(segs))
<1>1. Len(segs) \in Nat /\ segs \in [1..Len(segs) -> Nat]
  OBVIOUS
<1>2. \A i \in 1..Len(segs) : segs[i] \in Nat /\ segs[i] \div 2 \in Nat
  BY <1>1
<1>3. Sectors(segs) \in Seq(Nat) /\ Len(Sectors(segs)) = Len(segs)
  BY <1>1, <1>2 DEF Sectors
<1> QED
  BY <1>1, <1>2, <1>3, SumIs DEF Sectors

LEMMA Halves ==
  ASSUME NEW x \in Nat
  PROVE  \E h \in Nat, r \in 0..1 : h = x \div 2 /\ r = x % 2 /\ x = 2 * h + r
<1>1. x \div 2 \in Nat /\ x % 2 \in 0..1 /\ x = 2 * (x \div 2) + (x % 2)
  OBVIOUS
<1> QED
  BY <1>1

LEMMA HalfStep ==
  ASSUME NEW a \in Nat, NEW b \in Nat, NEW h \in Nat, NEW r \in 0..1
  PROVE  /\ 2 * a <= b => 2 * (a + h) <= b + (2 * h + r)
         /\ 2 * a = b /\ r = 0 => 2 * (a + h) = b + (2 * h + r)
OBVIOUS

LEMMA WithinSum ==
  ASSUME NEW a \in Nat, NEW s \in Nat, NEW c \in Nat, a + s <= c, NEW k \in 0..(s - 1)
  PROVE  a + k \in 0..(c - 1)
OBVIOUS

LEMMA SectorsFit ==
  ASSUME NEW segs \in Seq(Nat), NEW i \in 0..Len(segs)
  PROVE  /\ 2 * Offset(segs, i) <= SumOfFirst(segs)[i]
         /\ (\A j \in DOMAIN segs : segs[j] % 2 = 0) => 2 * Offset(segs, i) = SumOfFirst(segs)[i]
<1> DEFINE n == Len(segs)
           t == SumOfFirst(segs)
           o == SumOfFirst(Sectors(segs))
           even == \A j \in DOMAIN segs : segs[j] % 2 = 0
           Fits(k) == 2 * o[k] <= t[k] /\ (even => 2 * o[k] = t[k])
           Off == {k \in 0..n : ~Fits(k)}
<1>1. /\ n \in Nat /\ segs \in [1..n -> Nat] /\ Sectors(segs) \in [1..n -> Nat]
      /\ IsSum(t, segs, n) /\ IsSum(o, Sectors(segs), n)
  BY SumsOf
<1>a. even => \A j \in 1..n : segs[j] % 2 = 0
  BY <1>1
<1> HIDE DEF n, t, o, even
<1>2. ASSUME NEW k \in Off, \A m \in Off : k <= m PROVE FALSE
  <2>1. k # 0
    BY <1>1 DEF IsSum
  <2>2. k \in 1..n /\ k - 1 \in 0..n /\ k - 1 \notin Off
    BY <1>1, <1>2, <2>1
  <2>3. t[k - 1] \in Nat /\ o[k - 1] \in Nat /\ segs[k] \in Nat
    BY <1>1, <2>2 DEF IsSum
  <2>4. t[k] = t[k - 1] + segs[k]
    BY <1>1, <2>2 DEF IsSum
  <2>5. o[k] = o[k - 1] + segs[k] \div 2
    BY <1>1, <2>2 DEF IsSum, Sectors, n
  <2>6. Fits(k - 1)
    BY <2>2
  <2>7. PICK h \in Nat, r \in 0..1 : h = segs[k] \div 2 /\ r = segs[k] % 2 /\ segs[k] = 2 * h + r
    BY <2>3, Halves
  <2>8. even => r = 0
    BY <1>a, <2>2, <2>7
  <2>9. PICK a \in Nat, b \in Nat : a = o[k - 1] /\ b = t[k - 1]
    BY <2>3
  <2>10. /\ 2 * a <= b => 2 * (a + h) <= b + (2 * h + r)
         /\ 2 * a = b /\ r = 0 => 2 * (a + h) = b + (2 * h + r)
    BY HalfStep
  <2>a. o[k] = a + h /\ t[k] = b + (2 * h + r)
    BY <2>4, <2>5, <2>7, <2>9
  <2>b. 2 * a <= b /\ (even => 2 * a = b)
    BY <2>6, <2>9
  <2>11. Fits(k)
    <3>1. 2 * o[k] <= t[k]
      BY <2>10, <2>a, <2>b
    <3>2. even => 2 * o[k] = t[k]
      BY <2>8, <2>10, <2>a, <2>b
    <3> QED
      BY <3>1, <3>2
  <2> QED
    BY <2>11
<1>3. Off \in SUBSET Nat
  BY <1>1
<1>4. Off = {}
  BY <1>2, <1>3, LeastOf
<1>5. Fits(i)
  BY <1>4 DEF n
<1> QED
  BY <1>5 DEF Offset, t, o, even

\* A request of count sectors
LEMMA CountIs ==
  ASSUME NEW segs \in Seq(Nat)
  PROVE  /\ Count(segs) \in Nat
         /\ \A i \in 0..Len(segs) : Offset(segs, i) \in Nat /\ Offset(segs, i) <= Count(segs)
<1> DEFINE n == Len(segs)
           t == SumOfFirst(segs)
           o == SumOfFirst(Sectors(segs))
<1>1. /\ n \in Nat /\ segs \in [1..n -> Nat] /\ Sectors(segs) \in [1..n -> Nat]
      /\ IsSum(t, segs, n) /\ IsSum(o, Sectors(segs), n)
  BY SumsOf
<1>a. Count(segs) = t[n] \div 2 /\ \A i \in 0..n : Offset(segs, i) = o[i]
  BY DEF Count, Offset
<1>b. \A i \in 0..n : 2 * o[i] <= t[i]
  BY SectorsFit DEF Offset
<1> HIDE DEF n, t, o
<1>2. t[n] \in Nat /\ o[n] \in Nat /\ 2 * o[n] <= t[n]
  BY <1>1, <1>b DEF IsSum
<1>3. o[n] <= t[n] \div 2 /\ t[n] \div 2 \in Nat
  BY <1>2
<1>4. ASSUME NEW i \in 0..n PROVE o[i] \in Nat /\ o[i] <= o[n]
  <2>1. o[i] \in Nat /\ n \in 0..n /\ i <= n
    BY <1>1 DEF IsSum
  <2> QED
    BY <1>1, <2>1, SumGrows
<1>5. Count(segs) \in Nat /\ o[n] \in Nat /\ o[n] <= Count(segs)
  BY <1>2, <1>3, <1>a, Zenon
<1>6. ASSUME NEW i \in 0..n PROVE Offset(segs, i) \in Nat /\ Offset(segs, i) <= Count(segs)
  <2>1. o[i] <= Count(segs)
    BY <1>4, <1>5
  <2> QED
    BY <1>4, <1>a, <2>1, Zenon
<1> QED
  BY <1>5, <1>6, Zenon DEF n

\* It copies no sectors but its own, even when it fails
LEMMA MovesInside ==
  ASSUME NEW segs \in Seq(Nat), NEW m \in Moves(segs)
  PROVE  m[1] \in 0..(Count(segs) - 1)
<1> DEFINE n == Len(segs)
           o == SumOfFirst(Sectors(segs))
<1>1. n \in Nat /\ segs \in [1..n -> Nat] /\ Sectors(segs) \in [1..n -> Nat] /\ IsSum(o, Sectors(segs), n)
  BY SumsOf
<1>a. PICK i \in 1..n : \E k \in 0..(Sectors(segs)[i] - 1) :
                          m = <<Offset(segs, i - 1) + k, Place(segs, i) + 2 * k>>
  BY <1>1 DEF Moves
<1>2. PICK k \in 0..(Sectors(segs)[i] - 1) : m[1] = Offset(segs, i - 1) + k
  BY <1>a
<1>3. o[i] = o[i - 1] + Sectors(segs)[i] /\ Sectors(segs)[i] \in Nat /\ i - 1 \in 0..n /\ i \in 0..n
  BY <1>1 DEF IsSum
<1>4. o[i - 1] \in Nat /\ o[i] <= Count(segs) /\ Count(segs) \in Nat
  BY <1>3, CountIs DEF Offset
<1>5. m[1] = o[i - 1] + k
  BY <1>2 DEF Offset
<1> HIDE DEF o
<1>6. o[i - 1] + Sectors(segs)[i] <= Count(segs)
  BY <1>3, <1>4
<1> QED
  BY <1>2, <1>3, <1>4, <1>5, <1>6, WithinSum

\* A request that succeeds copies each of its sectors, from or to its place
LEMMA MovesAll ==
  ASSUME NEW segs \in Seq(Nat), Succeeds(segs)
  PROVE  Moves(segs) = {<<j, 2 * j>> : j \in 0..(Count(segs) - 1)}
<1> DEFINE n == Len(segs)
           t == SumOfFirst(segs)
           o == SumOfFirst(Sectors(segs))
<1>1. /\ n \in Nat /\ segs \in [1..n -> Nat] /\ Sectors(segs) \in [1..n -> Nat]
      /\ IsSum(t, segs, n) /\ IsSum(o, Sectors(segs), n)
  BY SumsOf
<1>2. Count(segs) = o[n] /\ Count(segs) \in Nat
  BY CountIs DEF Succeeds, Offset
<1>3. \A i \in 0..n : t[i] = 2 * o[i]
  BY SectorsFit DEF Succeeds, Offset
<1>4. \A i \in 1..n : i - 1 \in 0..n /\ i \in 0..n /\ o[i] = o[i - 1] + Sectors(segs)[i]
  BY <1>1 DEF IsSum
<1>5. \A i \in 0..n : o[i] \in Nat
  BY <1>1 DEF IsSum
<1>m. Moves(segs) =
        UNION {{<<o[i - 1] + k, t[i - 1] + 2 * k>> : k \in 0..(Sectors(segs)[i] - 1)} : i \in 1..n}
  BY <1>1 DEF Moves, Offset, Place
<1> HIDE DEF n, t, o
<1>6. ASSUME NEW m \in Moves(segs) PROVE m \in {<<j, 2 * j>> : j \in 0..(Count(segs) - 1)}
  <2>a. PICK i \in 1..n : \E k \in 0..(Sectors(segs)[i] - 1) :
                            m = <<o[i - 1] + k, t[i - 1] + 2 * k>>
    BY <1>m
  <2>1. PICK k \in 0..(Sectors(segs)[i] - 1) : m = <<o[i - 1] + k, t[i - 1] + 2 * k>>
    BY <2>a
  <2>2. o[i - 1] \in Nat /\ Sectors(segs)[i] \in Nat /\ t[i - 1] = 2 * o[i - 1]
    BY <1>1, <1>3, <1>4, <1>5
  <2>3. t[i - 1] + 2 * k = 2 * (o[i - 1] + k)
    BY <2>2
  <2>4. o[i - 1] + k \in 0..(Count(segs) - 1)
    BY <2>1, MovesInside
  <2> QED
    BY <2>1, <2>3, <2>4
<1>7. ASSUME NEW j \in 0..(Count(segs) - 1) PROVE <<j, 2 * j>> \in Moves(segs)
  <2> DEFINE past == {i \in 0..n : j < o[i]}
  <2>1. n \in past /\ past \in SUBSET Nat
    BY <1>1, <1>2
  <2>2. PICK i \in past : \A h \in past : i <= h
    BY <2>1, LeastOf
  <2>3. i # 0
    BY <1>1 DEF IsSum
  <2>4. i \in 1..n /\ i - 1 \in 0..n /\ i - 1 \notin past
    BY <1>1, <2>2, <2>3
  <2>5. o[i - 1] <= j /\ o[i - 1] \in Nat /\ j < o[i - 1] + Sectors(segs)[i] /\ Sectors(segs)[i] \in Nat
    BY <1>1, <1>4, <1>5, <2>2, <2>4
  <2>6. PICK k \in 0..(Sectors(segs)[i] - 1) : j = o[i - 1] + k
    <3>1. j - o[i - 1] \in 0..(Sectors(segs)[i] - 1) /\ j = o[i - 1] + (j - o[i - 1])
      BY <2>5
    <3> QED
      BY <3>1
  <2>7. 2 * j = t[i - 1] + 2 * k
    BY <1>3, <2>4, <2>5, <2>6
  <2>8. <<o[i - 1] + k, t[i - 1] + 2 * k>> \in Moves(segs)
    <3> DEFINE of(h) == {<<o[h - 1] + l, t[h - 1] + 2 * l>> : l \in 0..(Sectors(segs)[h] - 1)}
    <3>1. <<o[i - 1] + k, t[i - 1] + 2 * k>> \in of(i)
      BY <2>6
    <3>2. of(i) \in {of(h) : h \in 1..n}
      BY <2>4
    <3> QED
      BY <1>m, <3>1, <3>2
  <2> QED
    BY <2>6, <2>7, <2>8
<1> QED
  BY <1>6, <1>7

-----------------------------------------------------------------------------
(* The partitions *)

BootSectors == {0, 320, 448, 576}

\* What the partition table and the boot records say: partitions that hold data
Five ==
  { PartEntry(Linux, <<2, 0>>, <<32, 9>>, 1, 319),
    PartEntry(Linux, <<1, 20>>, <<32, 31>>, 640, 384),
    PartEntry(Linux, <<2, 10>>, <<32, 13>>, 321, 127),
    PartEntry(Linux, <<2, 14>>, <<32, 17>>, 449, 127),
    PartEntry(Linux, <<2, 18>>, <<32, 19>>, 577, 63) }

\* and the extended one, of which programs see what it begins with
Opening == PartEntry(Extended, <<1, 10>>, <<32, 19>>, 320, 2)

Six == Five \cup {Opening}

\* Those in the partition table itself
Primary ==
  { PartEntry(Linux, <<2, 0>>, <<32, 9>>, 1, 319), Opening,
    PartEntry(Linux, <<1, 20>>, <<32, 31>>, 640, 384) }

\* Table n is the one at sector br of mem
HasTable(mem, br, n) == br \in DOMAIN mem /\ mem[br] = <<"table", n, 0>>

Bootable(mem) ==
  HasTable(mem, 0, 0) /\ HasTable(mem, 320, 1) /\ HasTable(mem, 448, 2) /\ HasTable(mem, 576, 3)

\* The boot record that the extended partition begins with may be overwritten
Legible(mem) ==
  /\ HasTable(mem, 0, 0) /\ HasTable(mem, 448, 2) /\ HasTable(mem, 576, 3)
  /\ HasTable(mem, 320, 1) \/ BootTable(mem, 320) = <<>>

LEMMA OverIs ==
  ASSUME NEW new, NEW old
  PROVE  /\ DOMAIN Over(new, old) = DOMAIN new \cup DOMAIN old
         /\ \A s \in DOMAIN new : Over(new, old)[s] = new[s]
         /\ \A s \in DOMAIN old \ DOMAIN new : Over(new, old)[s] = old[s]
BY DEF Over

\* ramdevice_init writes four sectors
LEMMA TablesWritten == Bootable(copy_mbr_n_br) /\ DOMAIN copy_mbr_n_br = BootSectors
<1> DEFINE Eq(f) == f = [i \in 0..3 |-> IF i = 0 THEN copy_mbr ELSE Over(copy_br(i), f[i - 1])]
           c == CHOOSE f : Eq(f)
           one == Over(copy_br(1), copy_mbr)
           two == Over(copy_br(2), one)
           three == Over(copy_br(3), two)
           f == [i \in 0..3 |-> IF i = 0 THEN copy_mbr ELSE IF i = 1 THEN one
                                ELSE IF i = 2 THEN two ELSE three]
<1>1. Len(def_log_part_table) = 3
  BY DEF def_log_part_table
<1>2. copy_mbr_n_br = c[3]
  BY <1>1 DEF copy_mbr_n_br
<1>3. Eq(f)
  <2> HIDE DEF one, two, three
  <2>1. f[0] = copy_mbr /\ f[1] = one /\ f[2] = two /\ f[3] = three
    OBVIOUS
  <2>2. /\ one = Over(copy_br(1), f[0]) /\ two = Over(copy_br(2), f[1])
        /\ three = Over(copy_br(3), f[2])
    BY <2>1 DEF one, two, three
  <2> HIDE DEF f
  <2>3. \A i \in 0..3 : f[i] = IF i = 0 THEN copy_mbr ELSE Over(copy_br(i), f[i - 1])
    <3>1. \A i \in 0..3 : i \in {0, 1, 2, 3}
      OBVIOUS
    <3> QED
      BY <2>1, <2>2, <3>1
  <2>4. f = [i \in 0..3 |-> f[i]]
    BY DEF f
  <2> QED
    BY <2>3, <2>4
<1>4. Eq(c)
  BY <1>3
<1> HIDE DEF c, f
<1>5. c[0] = copy_mbr /\ \A i \in 1..3 : c[i] = Over(copy_br(i), c[i - 1])
  BY <1>4
<1>6. c[1] = Over(copy_br(1), c[0]) /\ c[2] = Over(copy_br(2), c[1]) /\ c[3] = Over(copy_br(3), c[2])
  <2>1. \A i \in {1, 2, 3} : c[i] = Over(copy_br(i), c[i - 1])
    BY <1>5
  <2> QED
    BY <2>1
<1>7. DOMAIN copy_mbr = {0} /\ copy_mbr[0] = <<"table", 0, 0>>
  BY DEF copy_mbr
<1>8. /\ DOMAIN copy_br(1) = {320} /\ copy_br(1)[320] = <<"table", 1, 0>>
      /\ DOMAIN copy_br(2) = {448} /\ copy_br(2)[448] = <<"table", 2, 0>>
      /\ DOMAIN copy_br(3) = {576} /\ copy_br(3)[576] = <<"table", 3, 0>>
  BY DEF copy_br, def_log_part_br_cyl, SectorsPerCyl
<1>9. DOMAIN c[1] = {0, 320} /\ c[1][0] = <<"table", 0, 0>> /\ c[1][320] = <<"table", 1, 0>>
  <2>1. /\ DOMAIN c[1] = DOMAIN copy_mbr \cup {320} /\ c[1][320] = copy_br(1)[320]
        /\ \A s \in DOMAIN copy_mbr : c[1][s] = copy_mbr[s]
    <3>1. c[1] = Over(copy_br(1), copy_mbr) /\ DOMAIN copy_br(1) = {320} /\ 320 \notin DOMAIN copy_mbr
      BY <1>5, <1>6, <1>7, <1>8
    <3> DEFINE h == Over(copy_br(1), copy_mbr)
    <3>2. /\ DOMAIN h = DOMAIN copy_mbr \cup {320} /\ h[320] = copy_br(1)[320]
          /\ \A s \in DOMAIN copy_mbr : h[s] = copy_mbr[s]
      BY <3>1 DEF Over
    <3> QED
      BY <3>1, <3>2
  <2> QED
    BY <1>7, <1>8, <2>1
<1>10. /\ DOMAIN c[2] = {0, 320, 448} /\ c[2][0] = <<"table", 0, 0>>
       /\ c[2][320] = <<"table", 1, 0>> /\ c[2][448] = <<"table", 2, 0>>
  <2>1. /\ DOMAIN c[2] = DOMAIN c[1] \cup {448} /\ c[2][448] = copy_br(2)[448]
        /\ \A s \in DOMAIN c[1] : c[2][s] = c[1][s]
    <3>1. c[2] = Over(copy_br(2), c[1]) /\ DOMAIN copy_br(2) = {448} /\ 448 \notin DOMAIN c[1]
      BY <1>6, <1>8, <1>9
    <3> DEFINE h == Over(copy_br(2), c[1])
    <3>2. /\ DOMAIN h = DOMAIN c[1] \cup {448} /\ h[448] = copy_br(2)[448]
          /\ \A s \in DOMAIN c[1] : h[s] = c[1][s]
      BY <3>1 DEF Over
    <3> QED
      BY <3>1, <3>2
  <2> QED
    BY <1>8, <1>9, <2>1
<1>11. /\ DOMAIN c[3] = BootSectors /\ c[3][0] = <<"table", 0, 0>> /\ c[3][320] = <<"table", 1, 0>>
       /\ c[3][448] = <<"table", 2, 0>> /\ c[3][576] = <<"table", 3, 0>>
  <2>1. /\ DOMAIN c[3] = DOMAIN c[2] \cup {576} /\ c[3][576] = copy_br(3)[576]
        /\ \A s \in DOMAIN c[2] : c[3][s] = c[2][s]
    <3>1. c[3] = Over(copy_br(3), c[2]) /\ DOMAIN copy_br(3) = {576} /\ 576 \notin DOMAIN c[2]
      BY <1>6, <1>8, <1>10
    <3> DEFINE h == Over(copy_br(3), c[2])
    <3>2. /\ DOMAIN h = DOMAIN c[2] \cup {576} /\ h[576] = copy_br(3)[576]
          /\ \A s \in DOMAIN c[2] : h[s] = c[2][s]
      BY <3>1 DEF Over
    <3> QED
      BY <3>1, <3>2
  <2> QED
    BY <1>8, <1>10, <2>1 DEF BootSectors
<1> QED
  BY <1>2, <1>11 DEF Bootable, HasTable, BootSectors

\* Entries of the partition table, and what the kernel makes of each
LEMMA FoundByTable ==
  ASSUME NEW mem, HasTable(mem, 0, 0)
  PROVE  Found(mem) = Primary \cup Logical(mem, 320)
<1>1. Known(mem, 0) = <<"table", 0, 0>>
  BY DEF HasTable, Known
<1>2. {def_part_table[i] : i \in DOMAIN def_part_table} =
         { PartEntry(Linux, <<2, 0>>, <<32, 9>>, 1, 319),
           PartEntry(Extended, <<1, 10>>, <<32, 19>>, 320, 320),
           PartEntry(Linux, <<1, 20>>, <<32, 31>>, 640, 384) }
  <2>1. DOMAIN def_part_table = {1, 2, 3}
    BY DEF def_part_table
  <2>2. /\ def_part_table[1] = PartEntry(Linux, <<2, 0>>, <<32, 9>>, 1, 319)
        /\ def_part_table[2] = PartEntry(Extended, <<1, 10>>, <<32, 19>>, 320, 320)
        /\ def_part_table[3] = PartEntry(Linux, <<1, 20>>, <<32, 31>>, 640, 384)
    BY DEF def_part_table
  <2> QED
    BY <2>1, <2>2
<1> DEFINE a == PartEntry(Linux, <<2, 0>>, <<32, 9>>, 1, 319)
           x == PartEntry(Extended, <<1, 10>>, <<32, 19>>, 320, 320)
           b == PartEntry(Linux, <<1, 20>>, <<32, 31>>, 640, 384)
           got(e) == IF e.type = Extended THEN {[e EXCEPT !.cnt = 2]} \cup Logical(mem, e.abs)
                     ELSE {e}
<1>3. got(a) = {a} /\ got(b) = {b}
  BY DEF PartEntry, Linux, Extended
<1>4. got(x) = {Opening} \cup Logical(mem, 320)
  <2>1. x.type = Extended /\ x.abs = 320 /\ [x EXCEPT !.cnt = 2] = Opening
    BY DEF PartEntry, Opening
  <2> QED
    BY <2>1
<1>5. Found(mem) = UNION {got(e) : e \in {a, x, b}}
  BY <1>1, <1>2 DEF Found
<1> HIDE DEF a, x, b, got
<1>6. Found(mem) = got(a) \cup got(x) \cup got(b)
  BY <1>5
<1>7. Primary = {a, Opening, b}
  BY DEF Primary, a, b
<1> QED
  BY <1>3, <1>4, <1>6, <1>7

\* The kernel finds the six partitions wherever the four sectors are intact
LEMMA FoundIs == ASSUME NEW mem, Bootable(mem) PROVE Found(mem) = Six
<1> DEFINE linked(b) == IF Len(BootTable(mem, b)) = 2 THEN 320 + BootTable(mem, b)[2].abs ELSE b
           Eq(f) == f = [n \in 1..3 |-> IF n = 1 THEN 320 ELSE linked(f[n - 1])]
           c == CHOOSE f : Eq(f)
           f == [n \in 1..3 |-> IF n = 1 THEN 320 ELSE IF n = 2 THEN 448 ELSE 576]
<1>1. /\ Known(mem, 0) = <<"table", 0, 0>> /\ Known(mem, 320) = <<"table", 1, 0>>
      /\ Known(mem, 448) = <<"table", 2, 0>> /\ Known(mem, 576) = <<"table", 3, 0>>
  BY DEF Bootable, HasTable, Known
<1>2. /\ BootTable(mem, 320) = << PartEntry(Linux, <<2, 10>>, <<32, 13>>, 1, 127),
                                  PartEntry(Extended, <<1, 14>>, <<32, 17>>, 128, 128) >>
      /\ BootTable(mem, 448) = << PartEntry(Linux, <<2, 14>>, <<32, 17>>, 1, 127),
                                  PartEntry(Extended, <<1, 18>>, <<32, 19>>, 256, 64) >>
      /\ BootTable(mem, 576) = << PartEntry(Linux, <<2, 18>>, <<32, 19>>, 1, 63) >>
  BY <1>1 DEF BootTable, def_log_part_table
<1>3. Len(BootTable(mem, 320)) = 2 /\ Len(BootTable(mem, 448)) = 2
  BY <1>2
<1>4. BootTable(mem, 320)[2].abs = 128 /\ BootTable(mem, 448)[2].abs = 256
  BY <1>2 DEF PartEntry
<1>5. Eq(f)
  <2>1. f[1] = 320 /\ f[2] = 448 /\ f[3] = 576
    OBVIOUS
  <2>2. \A n \in 1..3 : n \in {1, 2, 3}
    OBVIOUS
  <2> HIDE DEF f
  <2>3. \A n \in 1..3 : f[n] = IF n = 1 THEN 320 ELSE linked(f[n - 1])
    BY <1>3, <1>4, <2>1, <2>2
  <2>4. f = [n \in 1..3 |-> f[n]]
    BY DEF f
  <2> QED
    BY <2>3, <2>4
<1>6. Eq(c)
  BY <1>5
<1>7. Len(def_log_part_table) = 3
  BY DEF def_log_part_table
<1>8. Logical(mem, 320) = {[BootTable(mem, c[n])[1] EXCEPT !.abs = c[n] + @] :
                             n \in {m \in 1..3 : BootTable(mem, c[m]) # <<>>}}
  BY <1>7 DEF Logical
<1> HIDE DEF c, f
<1>9. c[1] = 320 /\ c[2] = 448 /\ c[3] = 576
  <2>1. c[1] = 320
    BY <1>6
  <2>2. c[2] = 448
    BY <1>3, <1>4, <1>6, <2>1
  <2>3. c[3] = 576
    BY <1>3, <1>4, <1>6, <2>2
  <2> QED
    BY <2>1, <2>2, <2>3
<1>10. {m \in 1..3 : BootTable(mem, c[m]) # <<>>} = {1, 2, 3}
  <2>1. \A m \in 1..3 : m \in {1, 2, 3}
    OBVIOUS
  <2>2. \A m \in {1, 2, 3} : BootTable(mem, c[m]) # <<>>
    <3>1. Len(BootTable(mem, 576)) = 1 /\ Len(<<>>) = 0
      BY <1>2
    <3>2. /\ BootTable(mem, 320) # <<>> /\ BootTable(mem, 448) # <<>>
          /\ BootTable(mem, 576) # <<>>
      <4>1. 1 # 0 /\ 2 # 0
        OBVIOUS
      <4> QED
        BY <1>3, <3>1, <4>1, Zenon
    <3>3. BootTable(mem, c[1]) # <<>> /\ BootTable(mem, c[2]) # <<>> /\ BootTable(mem, c[3]) # <<>>
      BY <1>9, <3>2, Zenon
    <3> QED
      BY <3>3, Zenon
  <2> QED
    BY <2>1, <2>2
<1>11. Logical(mem, 320) = { PartEntry(Linux, <<2, 10>>, <<32, 13>>, 321, 127),
                             PartEntry(Linux, <<2, 14>>, <<32, 17>>, 449, 127),
                             PartEntry(Linux, <<2, 18>>, <<32, 19>>, 577, 63) }
  <2> DEFINE e(n) == [BootTable(mem, c[n])[1] EXCEPT !.abs = c[n] + @]
  <2>1. e(1) = PartEntry(Linux, <<2, 10>>, <<32, 13>>, 321, 127)
    BY <1>2, <1>9 DEF PartEntry
  <2>2. e(2) = PartEntry(Linux, <<2, 14>>, <<32, 17>>, 449, 127)
    BY <1>2, <1>9 DEF PartEntry
  <2>3. e(3) = PartEntry(Linux, <<2, 18>>, <<32, 19>>, 577, 63)
    BY <1>2, <1>9 DEF PartEntry
  <2>4. Logical(mem, 320) = {e(n) : n \in {1, 2, 3}}
    BY <1>8, <1>10
  <2> HIDE DEF e
  <2> QED
    BY <2>1, <2>2, <2>3, <2>4
<1>12. Six = Primary \cup Logical(mem, 320)
  BY <1>11 DEF Six, Five, Primary
<1> QED
  BY <1>12, FoundByTable DEF Bootable

\* Without the boot record that the extended partition begins with there are no
\* logical ones
LEMMA FoundWithout ==
  ASSUME NEW mem, Legible(mem), BootTable(mem, 320) = <<>>
  PROVE  Found(mem) = Primary
<1> DEFINE linked(b) == IF Len(BootTable(mem, b)) = 2 THEN 320 + BootTable(mem, b)[2].abs ELSE b
           Eq(f) == f = [n \in 1..3 |-> IF n = 1 THEN 320 ELSE linked(f[n - 1])]
           c == CHOOSE f : Eq(f)
           f == [n \in 1..3 |-> 320]
<1>1. linked(320) = 320
  <2>1. Len(<<>>) = 0
    OBVIOUS
  <2> QED
    BY <2>1
<1> HIDE DEF linked
<1>2. Eq(f)
  <2>1. \A n \in 1..3 : n # 1 => f[n - 1] = 320
    OBVIOUS
  <2> HIDE DEF f
  <2>2. f = [n \in 1..3 |-> 320]
    BY DEF f
  <2>3. \A n \in 1..3 : 320 = IF n = 1 THEN 320 ELSE linked(f[n - 1])
    BY <1>1, <2>1
  <2> QED
    BY <2>2, <2>3
<1>3. Eq(c)
  BY <1>2
<1>4. Len(def_log_part_table) = 3
  BY DEF def_log_part_table
<1>5. Logical(mem, 320) = {[BootTable(mem, c[n])[1] EXCEPT !.abs = c[n] + @] :
                             n \in {m \in 1..3 : BootTable(mem, c[m]) # <<>>}}
  BY <1>4 DEF Logical, linked
<1> HIDE DEF c, f
<1>6. c[1] = 320 /\ c[2] = 320 /\ c[3] = 320
  <2>1. c[1] = 320
    BY <1>3
  <2>2. c[2] = 320
    BY <1>1, <1>3, <2>1
  <2>3. c[3] = 320
    BY <1>1, <1>3, <2>2
  <2> QED
    BY <2>1, <2>2, <2>3
<1>7. \A m \in 1..3 : BootTable(mem, c[m]) = <<>>
  <2>1. \A m \in 1..3 : m \in {1, 2, 3}
    OBVIOUS
  <2>2. \A m \in {1, 2, 3} : c[m] = 320
    BY <1>6
  <2> QED
    BY <2>1, <2>2
<1>8. Logical(mem, 320) = {}
  BY <1>5, <1>7
<1> QED
  BY <1>8, FoundByTable DEF Legible

\* They lie in the device, apart from each other and from the four sectors
LEMMA FiveApart ==
  /\ \A p \in Five : /\ p.abs \in Nat /\ p.cnt \in Nat
                     /\ SectorsOf(p) \subseteq 0..(RB_DEVICE_SIZE - 1)
                     /\ SectorsOf(p) \cap BootSectors = {}
                     /\ FromGeometry(p.start) = p.abs
                     /\ FromGeometry(p.end) = p.abs + p.cnt - 1
                     /\ \A q \in Five \ {p} : p.abs # q.abs /\ SectorsOf(p) \cap SectorsOf(q) = {}
  /\ Cardinality(Five) = 5
<1> DEFINE a == PartEntry(Linux, <<2, 0>>, <<32, 9>>, 1, 319)
           b == PartEntry(Linux, <<1, 20>>, <<32, 31>>, 640, 384)
           l1 == PartEntry(Linux, <<2, 10>>, <<32, 13>>, 321, 127)
           l2 == PartEntry(Linux, <<2, 14>>, <<32, 17>>, 449, 127)
           l3 == PartEntry(Linux, <<2, 18>>, <<32, 19>>, 577, 63)
<1>1. Five = {a, b, l1, l2, l3}
  BY DEF Five
<1>2. /\ a.abs = 1 /\ a.cnt = 319 /\ b.abs = 640 /\ b.cnt = 384 /\ l1.abs = 321 /\ l1.cnt = 127
      /\ l2.abs = 449 /\ l2.cnt = 127 /\ l3.abs = 577 /\ l3.cnt = 63
  BY DEF PartEntry
<1>3. /\ FromGeometry(a.start) = 1 /\ FromGeometry(a.end) = 319
      /\ FromGeometry(b.start) = 640 /\ FromGeometry(b.end) = 1023
      /\ FromGeometry(l1.start) = 321 /\ FromGeometry(l1.end) = 447
      /\ FromGeometry(l2.start) = 449 /\ FromGeometry(l2.end) = 575
      /\ FromGeometry(l3.start) = 577 /\ FromGeometry(l3.end) = 639
  BY DEF PartEntry, FromGeometry, SectorsPerCyl
<1> HIDE DEF a, b, l1, l2, l3
<1>4. /\ SectorsOf(a) = 1..319 /\ SectorsOf(b) = 640..1023 /\ SectorsOf(l1) = 321..447
      /\ SectorsOf(l2) = 449..575 /\ SectorsOf(l3) = 577..639
  BY <1>2 DEF SectorsOf
<1> DEFINE Placed(p) == /\ p.abs \in Nat /\ p.cnt \in Nat
                        /\ SectorsOf(p) \subseteq 0..(RB_DEVICE_SIZE - 1)
                        /\ SectorsOf(p) \cap BootSectors = {}
                        /\ FromGeometry(p.start) = p.abs
                        /\ FromGeometry(p.end) = p.abs + p.cnt - 1
<1>5. Placed(a) /\ Placed(b) /\ Placed(l1) /\ Placed(l2) /\ Placed(l3)
  <2>1. Placed(a)
    BY <1>2, <1>3, <1>4 DEF RB_DEVICE_SIZE, BootSectors
  <2>2. Placed(b)
    BY <1>2, <1>3, <1>4 DEF RB_DEVICE_SIZE, BootSectors
  <2>3. Placed(l1)
    BY <1>2, <1>3, <1>4 DEF RB_DEVICE_SIZE, BootSectors
  <2>4. Placed(l2)
    BY <1>2, <1>3, <1>4 DEF RB_DEVICE_SIZE, BootSectors
  <2>5. Placed(l3)
    BY <1>2, <1>3, <1>4 DEF RB_DEVICE_SIZE, BootSectors
  <2> QED
    BY <2>1, <2>2, <2>3, <2>4, <2>5
<1> DEFINE Apart(p, q) == p.abs # q.abs /\ SectorsOf(p) \cap SectorsOf(q) = {}
<1>6. ASSUME NEW p \in Five, NEW q \in Five \ {p} PROVE Apart(p, q)
  <2>1. /\ Apart(a, b) /\ Apart(a, l1) /\ Apart(a, l2) /\ Apart(a, l3) /\ Apart(b, l1)
        /\ Apart(b, l2) /\ Apart(b, l3) /\ Apart(l1, l2) /\ Apart(l1, l3) /\ Apart(l2, l3)
    BY <1>2, <1>4
  <2>2. \A r, s : Apart(r, s) => Apart(s, r)
    OBVIOUS
  <2> HIDE DEF Apart
  <2> QED
    BY <1>1, <2>1, <2>2
<1> HIDE DEF Placed
<1>a. \A p \in Five : Placed(p)
  BY <1>1, <1>5
<1>7. Cardinality(Five) = 5
  <2>1. a # b /\ a # l1 /\ a # l2 /\ a # l3 /\ b # l1 /\ b # l2 /\ b # l3 /\ l1 # l2 /\ l1 # l3 /\ l2 # l3
    BY <1>2
  <2>2. IsFiniteSet({}) /\ Cardinality({}) = 0
    BY FS_EmptySet
  <2>3. IsFiniteSet({a}) /\ Cardinality({a}) = 1
    BY FS_Singleton
  <2>4. IsFiniteSet({a, b}) /\ Cardinality({a, b}) = 2
    <3>1. {a, b} = {a} \cup {b} /\ b \notin {a}
      BY <2>1
    <3> QED
      BY <2>3, <3>1, FS_AddElement
  <2>5. IsFiniteSet({a, b, l1}) /\ Cardinality({a, b, l1}) = 3
    <3>1. {a, b, l1} = {a, b} \cup {l1} /\ l1 \notin {a, b}
      BY <2>1
    <3> QED
      BY <2>4, <3>1, FS_AddElement
  <2>6. IsFiniteSet({a, b, l1, l2}) /\ Cardinality({a, b, l1, l2}) = 4
    <3>1. {a, b, l1, l2} = {a, b, l1} \cup {l2} /\ l2 \notin {a, b, l1}
      BY <2>1
    <3> QED
      BY <2>5, <3>1, FS_AddElement
  <2>7. Cardinality({a, b, l1, l2, l3}) = 5
    <3>1. {a, b, l1, l2, l3} = {a, b, l1, l2} \cup {l3} /\ l3 \notin {a, b, l1, l2}
      BY <2>1
    <3> QED
      BY <2>6, <3>1, FS_AddElement
  <2> QED
    BY <1>1, <2>7
<1> QED
  BY <1>a, <1>6, <1>7 DEF Placed

\* The opening of the extended partition has a boot record, and reaches no other
LEMMA SixPlaced ==
  /\ \A p \in Six : /\ p.abs \in Nat /\ p.cnt \in Nat
                    /\ SectorsOf(p) \subseteq 0..(RB_DEVICE_SIZE - 1)
                    /\ SectorsOf(p) \cap {0, 448, 576} = {}
                    /\ p.type # Extended => p \in Five
  /\ \A p \in Five : p.type # Extended
  /\ Cardinality(Six) = 6
  /\ Primary = {p \in Six : p.abs \in {1, 320, 640}}
<1>1. /\ Opening.abs = 320 /\ Opening.cnt = 2 /\ Opening.type = Extended
      /\ SectorsOf(Opening) = 320..321
  BY DEF Opening, PartEntry, SectorsOf
<1>2. \A p \in Five : p.type = Linux /\ p.type # Extended
  BY DEF Five, PartEntry, Linux, Extended
<1>3. ASSUME NEW p \in Six
      PROVE  /\ p.abs \in Nat /\ p.cnt \in Nat
             /\ SectorsOf(p) \subseteq 0..(RB_DEVICE_SIZE - 1)
             /\ SectorsOf(p) \cap {0, 448, 576} = {}
             /\ p.type # Extended => p \in Five
  <2>1. CASE p \in Five
    BY <2>1, FiveApart DEF BootSectors
  <2>2. CASE p = Opening
    <3>1. 320..321 \subseteq 0..(RB_DEVICE_SIZE - 1) /\ 320..321 \cap {0, 448, 576} = {}
      BY DEF RB_DEVICE_SIZE
    <3> QED
      BY <1>1, <2>2, <3>1
  <2> QED
    BY <2>1, <2>2 DEF Six
<1>4. Cardinality(Six) = 6
  <2>1. Opening \notin Five
    BY <1>1, <1>2
  <2>2. IsFiniteSet(Five)
    <3> DEFINE a == PartEntry(Linux, <<2, 0>>, <<32, 9>>, 1, 319)
               b == PartEntry(Linux, <<1, 20>>, <<32, 31>>, 640, 384)
               l1 == PartEntry(Linux, <<2, 10>>, <<32, 13>>, 321, 127)
               l2 == PartEntry(Linux, <<2, 14>>, <<32, 17>>, 449, 127)
               l3 == PartEntry(Linux, <<2, 18>>, <<32, 19>>, 577, 63)
    <3>1. Five = ((({a} \cup {b}) \cup {l1}) \cup {l2}) \cup {l3}
      BY DEF Five
    <3> HIDE DEF a, b, l1, l2, l3
    <3>2. IsFiniteSet({a})
      BY FS_Singleton
    <3>3. IsFiniteSet({a} \cup {b})
      BY <3>2, FS_AddElement
    <3>4. IsFiniteSet(({a} \cup {b}) \cup {l1})
      BY <3>3, FS_AddElement
    <3>5. IsFiniteSet((({a} \cup {b}) \cup {l1}) \cup {l2})
      BY <3>4, FS_AddElement
    <3>6. IsFiniteSet(((({a} \cup {b}) \cup {l1}) \cup {l2}) \cup {l3})
      BY <3>5, FS_AddElement
    <3> QED
      BY <3>1, <3>6
  <2>3. Cardinality(Five) = 5
    BY FiveApart
  <2> QED
    BY <2>1, <2>2, <2>3, FS_AddElement DEF Six
<1>5. Primary = {p \in Six : p.abs \in {1, 320, 640}}
  <2> DEFINE a == PartEntry(Linux, <<2, 0>>, <<32, 9>>, 1, 319)
             b == PartEntry(Linux, <<1, 20>>, <<32, 31>>, 640, 384)
             l1 == PartEntry(Linux, <<2, 10>>, <<32, 13>>, 321, 127)
             l2 == PartEntry(Linux, <<2, 14>>, <<32, 17>>, 449, 127)
             l3 == PartEntry(Linux, <<2, 18>>, <<32, 19>>, 577, 63)
  <2>1. Six = {a, b, l1, l2, l3, Opening} /\ Primary = {a, Opening, b}
    BY DEF Six, Five, Primary
  <2>2. a.abs = 1 /\ b.abs = 640 /\ l1.abs = 321 /\ l2.abs = 449 /\ l3.abs = 577
    BY DEF PartEntry
  <2> HIDE DEF a, b, l1, l2, l3
  <2> QED
    BY <1>1, <2>1, <2>2
<1> QED
  BY <1>2, <1>3, <1>4, <1>5

-----------------------------------------------------------------------------
(* The life of ram_block *)

\* No other driver has a disk with partitions
NoDisk(t) == Len(t.init) \in Nat /\ \A i \in 1..Len(t.init) : t.init[i].takes # "live"

LEMMA OnlyRamBlock == \A d \in DOMAIN Tables \ {"ram_block"} : NoDisk(Tables[d])
<1> SUFFICES ASSUME NEW d \in DOMAIN Tables \ {"ram_block"} PROVE NoDisk(Tables[d])
  OBVIOUS
<1>1. Len(Tables[d].init) \in Nat /\ "live" \notin Behind(Tables[d], Len(Tables[d].init))
  BY TablesBuilt DEF WellBuilt
<1> QED
  BY <1>1 DEF NoDisk, Behind, Checks

Names == <<"ram", "major", "queue", "disk", "live">>

\* What ram_block has after n steps of its init, and what is then to give back
Got(n)  == {Names[i] : i \in 1..n}
Rest(n) == [i \in 1..n |-> Names[n + 1 - i]]

\* Where ram_block is in its life with n steps behind it; the one that it does not
\* see fail is that for the major number
Phase(n) ==
  /\ held \in {Got(n), Got(n) \ {"major"}}
  /\ stage \in {"out", "init", "live", "undo", "exit"}
  /\ stage = "out" => n = 0
  /\ stage = "init" => done = n
  /\ stage = "live" => n = 5
  /\ stage \in {"undo", "exit"} => todo = Rest(n)

\* Of all drivers ram_block alone has partitions, and gives the memory back last
Life ==
  /\ driver \in DOMAIN Tables
  /\ done \in Nat
  /\ driver # "ram_block" => "live" \notin held
  /\ driver = "ram_block" => \E n \in 0..5 : Phase(n)

LEMMA TableOfRamBlock ==
  /\ Tables["ram_block"] = ram_block
  /\ Len(ram_block.init) = 5
  /\ \A n \in 1..5 : ram_block.init[n].takes = Names[n] /\ Names[n] \notin Checks
  /\ \A n \in 0..4 : ram_block.init[n + 1].check = "checked" => ram_block.init[n + 1].undo = Rest(n)
  /\ \A n \in 0..4 : n # 1 => ram_block.init[n + 1].check \in {"checked", "sure"}
  /\ ram_block.init[2].check = "missed"
  /\ ram_block.exit = Rest(5)
<1> USE DEF ram_block, Step, Names, Rest
<1>1. Tables["ram_block"] = ram_block
  BY DEF Tables
<1>2. Len(ram_block.init) = 5
  OBVIOUS
<1>3. ASSUME NEW n \in 1..5
      PROVE  ram_block.init[n].takes = Names[n] /\ Names[n] \notin Checks
  <2>1. n \in {1, 2, 3, 4, 5}
    OBVIOUS
  <2> QED
    BY <2>1 DEF Checks
<1>4. ASSUME NEW n \in 0..4
      PROVE  /\ n # 1 => ram_block.init[n + 1].check \in {"checked", "sure"}
             /\ n = 1 => ram_block.init[n + 1].check = "missed"
             /\ ram_block.init[n + 1].check = "checked" => ram_block.init[n + 1].undo = Rest(n)
  <2>1. CASE n = 0
    BY <2>1
  <2>2. CASE n = 1
    BY <2>2
  <2>3. CASE n = 2
    <3>1. Rest(2) = <<"major", "ram">>
      OBVIOUS
    <3> QED
      BY <2>3, <3>1
  <2>4. CASE n = 3
    <3>1. Rest(3) = <<"queue", "major", "ram">>
      OBVIOUS
    <3> QED
      BY <2>4, <3>1
  <2>5. CASE n = 4
    BY <2>5
  <2>6. n \in {0, 1, 2, 3, 4}
    OBVIOUS
  <2> QED
    BY <2>1, <2>2, <2>3, <2>4, <2>5, <2>6
<1>5. ram_block.exit = Rest(5)
  OBVIOUS
<1>6. ram_block.init[2].check = "missed"
  OBVIOUS
<1> QED
  BY <1>1, <1>2, <1>3, <1>4, <1>5, <1>6

\* One more step, one thing less to give back
LEMMA StepsOfLife ==
  /\ Got(0) = {} /\ Rest(0) = <<>>
  /\ \A n \in 0..4 : Got(n + 1) = Got(n) \cup {Names[n + 1]}
  /\ \A n \in 0..4 : Names[n + 1] \notin Got(n)
  /\ \A n \in 1..5 : /\ Rest(n) # <<>> /\ Head(Rest(n)) = Names[n] /\ Tail(Rest(n)) = Rest(n - 1)
                     /\ Names[n] # "debugdir" /\ Got(n) \ {Names[n]} = Got(n - 1)
  /\ \A n \in 0..5 : "live" \in Got(n) => n = 5
  /\ \A n \in 1..5 : "ram" \in Got(n)
  /\ Names[2] = "major" /\ "major" \notin Got(1)
<1>1. Got(0) = {} /\ Rest(0) = <<>>
  BY DEF Got, Rest
<1>2. \A n \in 0..4 : Got(n + 1) = Got(n) \cup {Names[n + 1]}
  <2> SUFFICES ASSUME NEW n \in 0..4 PROVE Got(n + 1) = Got(n) \cup {Names[n + 1]}
    OBVIOUS
  <2>1. 1..(n + 1) = (1..n) \cup {n + 1}
    OBVIOUS
  <2> QED
    BY <2>1 DEF Got
<1>3. \A i, j \in 1..5 : i # j => Names[i] # Names[j]
  <2>1. \A i \in 1..5 : i \in {1, 2, 3, 4, 5}
    OBVIOUS
  <2> QED
    BY <2>1 DEF Names
<1>4. \A n \in 0..4 : Names[n + 1] \notin Got(n)
  <2> SUFFICES ASSUME NEW n \in 0..4, NEW i \in 1..n PROVE Names[n + 1] # Names[i]
    BY DEF Got
  <2>1. n + 1 \in 1..5 /\ i \in 1..5 /\ i # n + 1
    OBVIOUS
  <2> QED
    BY <1>3, <2>1
<1>5. ASSUME NEW n \in 1..5
      PROVE  /\ Rest(n) # <<>> /\ Head(Rest(n)) = Names[n] /\ Tail(Rest(n)) = Rest(n - 1)
             /\ Names[n] # "debugdir" /\ Got(n) \ {Names[n]} = Got(n - 1)
  <2>1. Names[n] # "debugdir"
    <3>1. n \in {1, 2, 3, 4, 5}
      OBVIOUS
    <3> QED
      BY <3>1 DEF Names
  <2>2. Got(n) \ {Names[n]} = Got(n - 1)
    <3>1. n - 1 \in 0..4 /\ n = (n - 1) + 1
      OBVIOUS
    <3>2. Got(n) = Got(n - 1) \cup {Names[n]} /\ Names[n] \notin Got(n - 1)
      BY <1>2, <1>4, <3>1
    <3> QED
      BY <3>2
  <2> DEFINE r == Rest(n)
             All == {"ram", "major", "queue", "disk", "live"}
  <2>3. r \in Seq(All) /\ Len(r) = n
    <3>1. \A i \in 1..n : Names[n + 1 - i] \in All
      <4>1. \A i \in 1..n : n + 1 - i \in 1..5
        OBVIOUS
      <4>2. \A i \in 1..5 : Names[i] \in All
        <5>1. \A i \in 1..5 : i \in {1, 2, 3, 4, 5}
          OBVIOUS
        <5> QED
          BY <5>1 DEF Names
      <4> QED
        BY <4>1, <4>2
    <3> QED
      BY <3>1 DEF Rest
  <2>4. \A i \in 1..n : r[i] = Names[n + 1 - i]
    BY DEF Rest
  <2> HIDE DEF r
  <2>5. r # <<>> /\ Head(r) = Names[n]
    <3>1. 1 \in 1..n /\ n + 1 - 1 = n
      OBVIOUS
    <3> QED
      BY <2>3, <2>4, <3>1
  <2>6. Tail(r) = Rest(n - 1)
    <3>1. Tail(r) = [i \in 1..(n - 1) |-> r[i + 1]]
      <4>1. /\ Tail(r) \in Seq(All) /\ Len(Tail(r)) = n - 1
            /\ \A i \in 1..(n - 1) : Tail(r)[i] = r[i + 1]
        BY <2>3, <2>5
      <4>2. Tail(r) = [i \in 1..(n - 1) |-> Tail(r)[i]]
        <5> DEFINE t == Tail(r)
        <5>1. t \in Seq(All) /\ Len(t) = n - 1
          BY <4>1
        <5> HIDE DEF t
        <5>2. t \in [1..Len(t) -> All]
          BY <5>1
        <5>3. t \in [1..(n - 1) -> All]
          BY <5>1, <5>2
        <5>4. t = [i \in 1..(n - 1) |-> t[i]]
          BY <5>3
        <5> QED
          BY <5>4 DEF t
      <4> QED
        BY <4>1, <4>2
    <3>2. \A i \in 1..(n - 1) : r[i + 1] = Names[(n - 1) + 1 - i]
      <4> TAKE i \in 1..(n - 1)
      <4>1. i + 1 \in 1..n /\ n + 1 - (i + 1) = (n - 1) + 1 - i
        OBVIOUS
      <4> QED
        BY <2>4, <4>1
    <3> QED
      BY <3>1, <3>2 DEF Rest
  <2> QED
    BY <2>1, <2>2, <2>5, <2>6 DEF r
<1>6. \A n \in 0..5 : "live" \in Got(n) => n = 5
  <2> SUFFICES ASSUME NEW n \in 0..5, NEW i \in 1..n, Names[i] = "live" PROVE n = 5
    BY DEF Got
  <2>1. i \in 1..5 /\ Names[5] = "live"
    BY DEF Names
  <2>2. i = 5
    BY <1>3, <2>1
  <2> QED
    BY <2>2
<1>7. \A n \in 1..5 : "ram" \in Got(n)
  <2> SUFFICES ASSUME NEW n \in 1..5 PROVE "ram" \in Got(n)
    OBVIOUS
  <2>1. 1 \in 1..n /\ Names[1] = "ram"
    BY DEF Names
  <2> QED
    BY <2>1 DEF Got
<1>8. Names[2] = "major" /\ "major" \notin Got(1)
  <2>1. Names[2] = "major" /\ Got(1) = {Names[1]} /\ Names[1] = "ram"
    BY DEF Names, Got
  <2> QED
    BY <2>1
<1> QED
  BY <1>1, <1>2, <1>4, <1>5, <1>6, <1>7, <1>8

\* What is held when partitions are there; at most one thing is taken at a time
LEMMA LifeHolds ==
  ASSUME Life
  PROVE  "live" \in held => driver = "ram_block" /\ "ram" \in held
<1> SUFFICES ASSUME "live" \in held PROVE driver = "ram_block" /\ "ram" \in held
  OBVIOUS
<1>1. driver = "ram_block"
  BY DEF Life
<1>2. PICK n \in 0..5 : held \in {Got(n), Got(n) \ {"major"}}
  BY <1>1 DEF Life, Phase
<1>3. n = 5
  BY <1>2, StepsOfLife
<1> QED
  BY <1>1, <1>2, <1>3, StepsOfLife

LEMMA OneTaken == Next => \E r : held' \subseteq held \cup {r}
<1>1. Take => held' \subseteq held \cup {Table.init[done + 1].takes}
  BY DEF Take
<1>2. GiveBack => held' \subseteq held
  BY DEF GiveBack
<1>3. (Insmod \/ Fail \/ Loaded \/ Rmmod \/ Gone \/ Open \/ Close \/ CallBack \/ Return) => held' = held
  BY DEF Insmod, Fail, Loaded, Rmmod, Gone, Open, Close, CallBack, Return
<1> QED
  BY <1>1, <1>2, <1>3 DEF Next

LEMMA LifeStep == ASSUME Life, Next PROVE Life'
<1>1. driver' = driver /\ driver \in DOMAIN Tables /\ driver' \in DOMAIN Tables
  BY
     DEF Life, Next, Insmod, Take, Fail, Loaded, Rmmod, GiveBack, Gone, Open, Close,
         CallBack, Return
<1>2. done' \in Nat
  BY
     DEF Life, Next, Insmod, Take, Fail, Loaded, Rmmod, GiveBack, Gone, Open, Close,
         CallBack, Return
<1>3. CASE driver # "ram_block"
  <2>1. "live" \notin held
    BY <1>3 DEF Life
  <2>2. CASE Take
    <3>1. NoDisk(Table) /\ done + 1 \in 1..Len(Table.init)
      <4>1. NoDisk(Table)
        BY <1>1, <1>3, OnlyRamBlock DEF Table
      <4>2. done \in Nat /\ done < Len(Table.init)
        BY <2>2 DEF Life, Take
      <4>3. Len(Table.init) \in Int => done + 1 \in 1..Len(Table.init)
        BY <4>2
      <4>4. Len(Table.init) \in Nat
        BY <4>1 DEF NoDisk
      <4> QED
        BY <4>1, <4>3, <4>4
    <3>2. Table.init[done + 1].takes # "live"
      BY <3>1 DEF NoDisk
    <3> QED
      BY <1>1, <1>2, <1>3, <2>1, <2>2, <3>2 DEF Take, Life
  <2>3. CASE ~Take
    <3>1. held' \subseteq held
      BY <2>3 DEF Next, Insmod, Fail, Loaded, Rmmod, GiveBack, Gone, Open, Close, CallBack, Return
    <3> QED
      BY <1>1, <1>2, <1>3, <2>1, <3>1 DEF Life
  <2> QED
    BY <2>2, <2>3
<1>4. CASE driver = "ram_block"
  <2>1. Table = ram_block
    BY <1>4, TableOfRamBlock DEF Table
  <2>2. PICK n \in 0..5 : Phase(n)
    BY <1>4 DEF Life
  <2> SUFFICES \E k \in 0..5 : Phase(k)'
    BY <1>1, <1>2, <1>4 DEF Life
  <2>3. CASE Insmod
    <3>1. Phase(0)'
      BY <2>2, <2>3 DEF Insmod, Phase
    <3> QED
      BY <3>1
  <2>4. CASE Take
    <3>1. done = n /\ n \in 0..4 /\ Table.init[n + 1].takes = Names[n + 1] /\ Names[n + 1] \notin Checks
      <4>1. done = n /\ done < 5
        BY <2>1, <2>2, <2>4, TableOfRamBlock DEF Take, Phase
      <4>2. n \in 0..4 /\ n + 1 \in 1..5
        BY <4>1
      <4> QED
        BY <2>1, <4>1, <4>2, TableOfRamBlock
    <3>2. held' \in {Got(n + 1), Got(n + 1) \ {"major"}}
      <4>1. held' = held \cup {Names[n + 1]}
        BY <2>4, <3>1 DEF Take
      <4>2. held \in {Got(n), Got(n) \ {"major"}}
        BY <2>2 DEF Phase
      <4>3. Got(n + 1) = Got(n) \cup {Names[n + 1]}
        BY <3>1, StepsOfLife
      <4> QED
        BY <4>1, <4>2, <4>3
    <3>3. Phase(n + 1)' /\ n + 1 \in 0..5
      BY <2>2, <2>4, <3>1, <3>2 DEF Take, Phase
    <3> QED
      BY <3>3
  <2>5. CASE Fail
    <3>1. done = n /\ n \in 0..4
      BY <2>1, <2>2, <2>5, TableOfRamBlock DEF Fail, Phase
    <3>2. CASE n # 1
      <4>1. Table.init[n + 1].check \in {"checked", "sure"}
        BY <2>1, <3>1, <3>2, TableOfRamBlock
      <4>2. /\ Table.init[n + 1].check = "checked" /\ held' = held
            /\ stage' = "undo" /\ todo' = Table.init[n + 1].undo
        BY <2>5, <3>1, <4>1 DEF Fail
      <4>3. todo' = Rest(n)
        BY <2>1, <3>1, <4>2, TableOfRamBlock
      <4>4. Phase(n)'
        BY <2>2, <4>2, <4>3 DEF Phase
      <4> QED
        BY <4>4
    <3>3. CASE n = 1
      <4>1. Table.init[done + 1].check = "missed" /\ done + 1 = 2
        BY <2>1, <3>1, <3>3, TableOfRamBlock
      <4>2. stage' = "init" /\ held' = held /\ done' = 2
        BY <2>5, <3>1, <3>3, <4>1 DEF Fail
      <4>3. held = Got(1) /\ Got(2) \ {"major"} = Got(1)
        <5>1. Got(1 + 1) = Got(1) \cup {Names[1 + 1]}
          BY StepsOfLife
        <5>2. Got(2) = Got(1) \cup {"major"} /\ "major" \notin Got(1)
          BY <5>1, StepsOfLife
        <5>3. held \in {Got(1), Got(1) \ {"major"}}
          BY <2>2, <3>3 DEF Phase
        <5> QED
          BY <5>2, <5>3
      <4>4. Phase(2)' /\ 2 \in 0..5
        BY <4>2, <4>3 DEF Phase
      <4> QED
        BY <4>4
    <3> QED
      BY <3>2, <3>3
  <2>6. CASE Loaded
    <3>1. n = 5
      BY <2>1, <2>2, <2>6, TableOfRamBlock DEF Loaded, Phase
    <3>2. Phase(5)'
      BY <2>2, <2>6, <3>1 DEF Loaded, Phase
    <3> QED
      BY <3>2
  <2>7. CASE Rmmod
    <3>1. Phase(5)'
      BY <2>1, <2>2, <2>7, TableOfRamBlock DEF Rmmod, Phase
    <3> QED
      BY <3>1
  <2>8. CASE GiveBack
    <3>1. /\ stage \in {"undo", "exit"} /\ todo = Rest(n) /\ todo # <<>>
          /\ held \in {Got(n), Got(n) \ {"major"}}
      BY <2>2, <2>8 DEF GiveBack, Phase
    <3>2. n \in 1..5 /\ n - 1 \in 0..5
      BY <3>1, StepsOfLife
    <3>3. Head(todo) = Names[n] /\ Names[n] # "debugdir" /\ Tail(todo) = Rest(n - 1)
      BY <3>1, <3>2, StepsOfLife
    <3>4. held' \in {Got(n - 1), Got(n - 1) \ {"major"}}
      <4>1. held' = held \ {Names[n]}
        BY <2>8, <3>3 DEF GiveBack
      <4>2. Got(n) \ {Names[n]} = Got(n - 1)
        BY <3>2, StepsOfLife
      <4> QED
        BY <3>1, <4>1, <4>2
    <3>5. todo' = Rest(n - 1) /\ stage' = stage
      BY <2>8, <3>3 DEF GiveBack
    <3>6. Phase(n - 1)'
      BY <3>1, <3>4, <3>5 DEF Phase
    <3> QED
      BY <3>2, <3>6
  <2>9. CASE Gone
    <3>1. n = 0
      <4>1. Rest(n) = <<>>
        BY <2>2, <2>9 DEF Gone, Phase
      <4> QED
        BY <4>1, StepsOfLife
    <3>2. Phase(0)'
      BY <2>2, <2>9, <3>1 DEF Gone, Phase
    <3> QED
      BY <3>2
  <2>10. CASE Open \/ Close \/ CallBack \/ Return
    <3>1. Phase(n)'
      BY <2>2, <2>10 DEF Open, Close, CallBack, Return, Phase
    <3> QED
      BY <3>1
  <2> QED
    BY <2>3, <2>4, <2>5, <2>6, <2>7, <2>8, <2>9, <2>10 DEF Next
<1> QED
  BY <1>3, <1>4

-----------------------------------------------------------------------------
(* What the sectors hold *)

\* The partitions are those of the tables, which stay where they were written, but
\* for the one that programs can reach; and nothing written since is covered by
\* anything else
DiskInv ==
  /\ Life
  /\ parts = IF "live" \in held THEN Six ELSE {}
  /\ "ram" \in held => Legible(ram)
  /\ driver = "ram_block" /\ stage = "init" /\ "ram" \in held /\ "live" \notin held =>
       Bootable(ram)
  /\ \A s \in DOMAIN last : s \in DOMAIN ram /\ ram[s] = last[s]

LEMMA DiskInit_Inv == DiskInit => DiskInv
<1> SUFFICES ASSUME DiskInit PROVE DiskInv
  OBVIOUS
<1>1. Life
  <2>1. driver = "ram_block" => Phase(0)
    BY StepsOfLife DEF DiskInit, Init, Phase
  <2> QED
    BY <2>1 DEF DiskInit, Init, Life
<1> QED
  BY <1>1 DEF DiskInit, Init, DiskInv, Empty

LEMMA LiveStep == ASSUME DiskInv, Live PROVE DiskInv'
<1>1. Life' /\ Life /\ Next
  BY LifeStep DEF DiskInv, Live
<1>2. "live" \in held => "ram" \in held
  BY <1>1, LifeHolds
<1>3. "live" \in held' => "ram" \in held'
  <2>1. (Life => ("live" \in held => driver = "ram_block" /\ "ram" \in held))'
    BY LifeHolds, PTL
  <2> QED
    BY <1>1, <2>1
<1>4. PICK r : held' \subseteq held \cup {r}
  BY <1>1, OneTaken
<1>5. "ram" \notin held => "live" \notin held'
  BY <1>2, <1>3, <1>4
<1>6. CASE "ram" \in held /\ "ram" \in held'
  <2>1. ram' = ram /\ last' = last
    BY <1>6 DEF Live
  <2>2. "live" \in held' /\ "live" \notin held => stage = "init"
    BY <1>1
       DEF Next, Insmod, Take, Fail, Loaded, Rmmod, GiveBack, Gone, Open, Close, CallBack,
           Return
  <2>3. parts' = IF "live" \in held' THEN Six ELSE {}
    <3>1. "live" \in held' => driver = "ram_block"
      <4>1. driver' = driver
        BY <1>1, SameDriver
      <4> QED
        BY <1>1, <4>1 DEF Life
    <3>2. "live" \in held' /\ "live" \notin held => Found(ram) = Six
      BY <1>6, <2>2, <3>1, FoundIs DEF DiskInv
    <3> QED
      BY <3>2 DEF DiskInv, Live
  <2>4. ASSUME driver' = "ram_block", stage' = "init", "live" \notin held'
        PROVE  driver = "ram_block" /\ stage = "init" /\ "live" \notin held
    <3>1. driver = "ram_block"
      BY <1>1, <2>4, SameDriver
    <3>2. ~Insmod
      <4>1. Insmod => held = {}
        BY <1>1, <3>1, StepsOfLife DEF Insmod, Life, Phase
      <4> QED
        BY <1>6, <4>1
    <3> QED
      BY <1>1, <2>4, <3>1, <3>2
         DEF Next, Take, Fail, Loaded, Rmmod, GiveBack, Gone, Open, Close, CallBack, Return
  <2>5. (Legible(ram))'
    BY <1>6, <2>1 DEF DiskInv, Legible, HasTable, BootTable, Known
  <2>6. driver' = "ram_block" /\ stage' = "init" /\ "live" \notin held' => (Bootable(ram))'
    BY <1>6, <2>1, <2>4 DEF DiskInv, Bootable, HasTable
  <2>7. (\A s \in DOMAIN last : s \in DOMAIN ram /\ ram[s] = last[s])'
    BY <2>1 DEF DiskInv
  <2> QED
    BY <1>1, <2>3, <2>5, <2>6, <2>7 DEF DiskInv
<1>7. CASE ~("ram" \in held /\ "ram" \in held')
  <2>1. (ram' = IF "ram" \in held' THEN copy_mbr_n_br ELSE Empty) /\ last' = Empty
    BY <1>7 DEF Live
  <2>2. "live" \notin held' /\ parts' = {}
    BY <1>3, <1>5, <1>7 DEF Live
  <2>3. ("ram" \in held => Bootable(ram))'
    BY <2>1, TablesWritten DEF Bootable, HasTable
  <2>4. ("ram" \in held => Legible(ram))'
    <3>1. "ram" \in held' => Bootable(ram')
      BY <2>1, TablesWritten
    <3>2. Bootable(ram') => Legible(ram')
      BY DEF Bootable, Legible
    <3> QED
      BY <3>1, <3>2
  <2>5. DOMAIN last' = {}
    BY <2>1 DEF Empty
  <2> QED
    BY <1>1, <2>2, <2>3, <2>4, <2>5 DEF DiskInv
<1> QED
  BY <1>6, <1>7

\* Where a request goes
LEMMA RequestFits ==
  ASSUME NEW p \in Six, NEW segs \in SegLists, NEW off \in Inside(p, segs)
  PROVE  /\ segs \in Seq(Nat) /\ Count(segs) \in Nat /\ off \in Nat /\ p.abs \in Nat /\ p.cnt \in Nat
         /\ \A j \in 0..(Count(segs) - 1) : off + j \in 0..(p.cnt - 1)
<1>1. segs \in Seq(Nat)
  BY RequestsAssumption
<1>2. Count(segs) \in Nat /\ p.abs \in Nat /\ p.cnt \in Nat
  BY <1>1, CountIs, SixPlaced
<1>3. off \in 0..(p.cnt - Count(segs))
  BY DEF Inside
<1> QED
  BY <1>1, <1>2, <1>3

LEMMA TransferStep ==
  ASSUME DiskInv, NEW p \in parts, NEW segs \in SegLists, NEW off \in Inside(p, segs),
         rb_request(p, off, segs)
  PROVE  DiskInv'
<1> DEFINE start == p.abs + off
           new   == Written(start, segs, writes')
           asked == start..(start + Count(segs) - 1)
<1>1. p \in Six /\ "live" \in held
  BY DEF DiskInv
<1>2. /\ segs \in Seq(Nat) /\ Count(segs) \in Nat /\ off \in Nat /\ p.abs \in Nat /\ p.cnt \in Nat
      /\ \A j \in 0..(Count(segs) - 1) : off + j \in 0..(p.cnt - 1)
  BY <1>1, RequestFits
<1>3. /\ ram' = Over(new, ram) /\ parts' = parts /\ vars' = vars
      /\ last' = IF Succeeds(segs)
                 THEN Over([s \in asked |-> <<"data", writes', 2 * (s - start)>>], last)
                 ELSE [s \in DOMAIN last \ asked |-> last[s]]
  BY DEF rb_request
<1>4. DOMAIN new = {start + m[1] : m \in Moves(segs)}
  BY DEF Written
<1>a. \A s \in DOMAIN new : \E m \in Moves(segs) : new[s] = <<"data", writes', m[2]>>
  <2> SUFFICES ASSUME NEW s \in DOMAIN new
               PROVE  \E m \in Moves(segs) : new[s] = <<"data", writes', m[2]>>
    OBVIOUS
  <2> DEFINE c == CHOOSE m \in Moves(segs) : start + m[1] = s
  <2>1. c \in Moves(segs)
    BY <1>4
  <2>2. new[s] = <<"data", writes', c[2]>>
    BY <1>4 DEF Written
  <2> QED
    BY <2>1, <2>2
<1> HIDE DEF new
\* only in the request's sectors, which are in the partition
<1>5. DOMAIN new \subseteq asked
  <2> SUFFICES ASSUME NEW m \in Moves(segs) PROVE start + m[1] \in asked
    BY <1>4
  <2>1. m[1] \in 0..(Count(segs) - 1)
    BY <1>2, MovesInside
  <2> QED
    BY <1>2, <2>1
<1>6. asked \subseteq SectorsOf(p)
  <2> SUFFICES ASSUME NEW s \in asked PROVE s \in SectorsOf(p)
    OBVIOUS
  <2>1. s - start \in 0..(Count(segs) - 1) /\ s = p.abs + (off + (s - start))
    BY <1>2
  <2> DEFINE j == off + (s - start)
  <2>2. j \in 0..(p.cnt - 1)
    BY <1>2, <2>1
  <2>3. s = p.abs + j
    BY <2>1
  <2> HIDE DEF j
  <2>4. s \in p.abs..(p.abs + p.cnt - 1)
    BY <1>2, <2>2, <2>3
  <2> QED
    BY <2>4 DEF SectorsOf
<1>7. \A s \in DOMAIN ram \ DOMAIN new : s \in DOMAIN ram' /\ ram'[s] = ram[s]
  BY <1>3 DEF Over
<1>8. \A s \in DOMAIN new : s \in DOMAIN ram' /\ ram'[s] = new[s]
  BY <1>3, OverIs
\* not where the tables are, but for the one within reach
<1>9. Legible(ram')
  <2>1. Legible(ram)
    BY <1>1, LifeHolds DEF DiskInv
  <2>2. DOMAIN new \cap {0, 448, 576} = {}
    BY <1>1, <1>5, <1>6, SixPlaced
  <2>3. HasTable(ram', 0, 0) /\ HasTable(ram', 448, 2) /\ HasTable(ram', 576, 3)
    BY <1>7, <2>1, <2>2 DEF Legible, HasTable
  <2>4. CASE 320 \in DOMAIN new
    <3>1. PICK m \in Moves(segs) : ram'[320] = <<"data", writes', m[2]>>
      BY <1>8, <1>a, <2>4
    <3>2. Known(ram', 320)[1] = "data"
      BY <1>8, <2>4, <3>1 DEF Known
    <3> QED
      BY <2>3, <3>2 DEF Legible, BootTable
  <2>5. CASE 320 \notin DOMAIN new
    <3>1. Known(ram', 320) = Known(ram, 320)
      <4>1. DOMAIN ram' = DOMAIN ram \cup DOMAIN new
        BY <1>3 DEF Over
      <4> QED
        BY <1>7, <2>5, <4>1 DEF Known
    <3>2. BootTable(ram', 320) = BootTable(ram, 320)
      BY <3>1 DEF BootTable
    <3>3. HasTable(ram, 320, 1) => HasTable(ram', 320, 1)
      BY <1>7, <2>5 DEF HasTable
    <3> QED
      BY <2>1, <2>3, <3>2, <3>3 DEF Legible
  <2> QED
    BY <2>4, <2>5
\* nor over what was written before and stays
<1>10. ASSUME NEW s \in DOMAIN last'
       PROVE  s \in DOMAIN ram' /\ ram'[s] = last'[s]
  <2>1. CASE s \notin asked
    <3>1. s \in DOMAIN last /\ last'[s] = last[s]
      BY <1>3, <1>10, <2>1 DEF Over
    <3>2. s \in DOMAIN ram /\ ram[s] = last[s]
      BY <3>1 DEF DiskInv
    <3> QED
      BY <1>5, <1>7, <2>1, <3>1, <3>2
  <2>2. CASE s \in asked
    <3> DEFINE noted == [x \in asked |-> <<"data", writes', 2 * (x - start)>>]
               j == s - start
    <3>1. Succeeds(segs)
      BY <1>3, <1>10, <2>2
    <3>2. last' = Over(noted, last) /\ DOMAIN noted = asked
      BY <1>3, <3>1
    <3>3. last'[s] = <<"data", writes', 2 * j>>
      <4>1. noted[s] = <<"data", writes', 2 * j>>
        BY <2>2
      <4> HIDE DEF noted, j
      <4>2. \A x \in DOMAIN noted : Over(noted, last)[x] = noted[x]
        BY DEF Over
      <4>3. last'[s] = noted[s]
        BY <2>2, <3>2, <4>2
      <4> QED
        BY <4>1, <4>3
    <3>4. j \in 0..(Count(segs) - 1) /\ start + j = s
      BY <1>2, <2>2
    <3>5. Moves(segs) = {<<i, 2 * i>> : i \in 0..(Count(segs) - 1)}
      BY <1>2, <3>1, MovesAll
    <3> HIDE DEF j, noted
    <3>6. <<j, 2 * j>> \in Moves(segs)
      BY <3>4, <3>5
    <3>7. s \in DOMAIN new
      <4>1. <<j, 2 * j>>[1] = j
        OBVIOUS
      <4> QED
        BY <1>4, <3>4, <3>6, <4>1
    <3>8. new[s] = <<"data", writes', 2 * j>>
      <4> DEFINE c == CHOOSE m \in Moves(segs) : start + m[1] = s
      <4>1. c \in Moves(segs) /\ start + c[1] = s
        BY <1>4, <3>7
      <4>2. new[s] = <<"data", writes', c[2]>>
        BY <1>4, <3>7 DEF new, Written
      <4> HIDE DEF c
      <4>3. PICK i \in 0..(Count(segs) - 1) : c = <<i, 2 * i>>
        BY <3>5, <4>1
      <4>4. start + i = start + j
        BY <3>4, <4>1, <4>3
      <4>5. i = j
        BY <1>2, <3>4, <4>4
      <4> QED
        BY <4>2, <4>3, <4>5
    <3> QED
      BY <1>8, <3>3, <3>7, <3>8
  <2> QED
    BY <2>1, <2>2
<1>11. Life' /\ parts' = IF "live" \in held' THEN Six ELSE {}
  BY <1>3 DEF DiskInv, Life, Phase, vars
<1>12. "live" \in held'
  BY <1>1, <1>3 DEF vars
<1> QED
  BY <1>9, <1>10, <1>11, <1>12 DEF DiskInv

LEMMA DiskInvariance == DiskSpec => []DiskInv
<1>1. DiskInit => DiskInv
  BY DiskInit_Inv
<1>2. DiskInv /\ [DiskNext]_diskVars => DiskInv'
  <2> SUFFICES ASSUME DiskInv, [DiskNext]_diskVars PROVE DiskInv'
    OBVIOUS
  <2>1. CASE Live
    BY <2>1, LiveStep
  <2>2. CASE Transfer
    <3>1. PICK p \in parts, segs \in SegLists : \E off \in Inside(p, segs) : rb_request(p, off, segs)
      BY <2>2 DEF Transfer
    <3>2. PICK off \in Inside(p, segs) : rb_request(p, off, segs)
      BY <3>1
    <3> QED
      BY <3>2, TransferStep
  <2>3. CASE UNCHANGED diskVars
    <3>1. UNCHANGED <<ram, parts, last>> /\ UNCHANGED vars
      BY <2>3 DEF diskVars
    <3>2. Life'
      BY <3>1 DEF vars, DiskInv, Life, Phase
    <3>3. UNCHANGED <<held, stage, driver>>
      BY <3>1 DEF vars
    <3>4. (Legible(ram))' = Legible(ram) /\ (Bootable(ram))' = Bootable(ram)
      BY <3>1 DEF Legible, Bootable, HasTable, BootTable, Known
    <3> QED
      BY <3>1, <3>2, <3>3, <3>4 DEF DiskInv
  <2> QED
    BY <2>1, <2>2, <2>3 DEF DiskNext
<1> QED
  BY <1>1, <1>2, PTL DEF DiskSpec

-----------------------------------------------------------------------------
(* The properties *)

\* ReadsWhatWasWritten: a read request that rb_transfer answers with success brings
\* what was last written at each of its sectors, for any segments of any requests
THEOREM DiskReadsWhatWasWritten == DiskSpec => []ReadsWhatWasWritten
<1>1. ASSUME DiskInv PROVE ReadsWhatWasWritten
  <2> SUFFICES ASSUME NEW p \in parts, NEW segs \in SegLists, NEW off \in Inside(p, segs),
                      Succeeds(segs)
               PROVE  /\ {m[2] : m \in Moves(segs)} = {2 * j : j \in 0..(Count(segs) - 1)}
                      /\ \A m \in Moves(segs) :
                           LET s == p.abs + off + m[2] \div 2
                           IN s \in DOMAIN last => Known(ram, p.abs + off + m[1]) = last[s]
    BY DEF ReadsWhatWasWritten
  <2>1. p \in Six
    BY <1>1 DEF DiskInv
  <2>2. segs \in Seq(Nat) /\ Count(segs) \in Nat /\ off \in Nat /\ p.abs \in Nat
    BY <2>1, RequestFits
  <2>3. Moves(segs) = {<<j, 2 * j>> : j \in 0..(Count(segs) - 1)}
    BY <2>2, MovesAll
  <2>4. {m[2] : m \in Moves(segs)} = {2 * j : j \in 0..(Count(segs) - 1)}
    <3>1. \A m \in Moves(segs) : \E j \in 0..(Count(segs) - 1) : m[2] = 2 * j
      BY <2>3
    <3>2. \A j \in 0..(Count(segs) - 1) : <<j, 2 * j>> \in Moves(segs) /\ <<j, 2 * j>>[2] = 2 * j
      BY <2>3
    <3> HIDE <2>3
    <3>3. \A j \in 0..(Count(segs) - 1) : \E m \in Moves(segs) : m[2] = 2 * j
      BY <3>2
    <3> QED
      BY <3>1, <3>3
  <2>5. ASSUME NEW m \in Moves(segs), p.abs + off + m[2] \div 2 \in DOMAIN last
        PROVE  Known(ram, p.abs + off + m[1]) = last[p.abs + off + m[2] \div 2]
    <3>1. PICK j \in 0..(Count(segs) - 1) : m = <<j, 2 * j>>
      BY <2>3
    <3>2. m[1] = j /\ m[2] \div 2 = j
      BY <2>2, <3>1
    <3>3. p.abs + off + j \in DOMAIN ram /\ ram[p.abs + off + j] = last[p.abs + off + j]
      BY <1>1, <2>5, <3>2 DEF DiskInv
    <3> QED
      BY <3>2, <3>3 DEF Known
  <2> QED
    BY <2>4, <2>5
<1> QED
  BY <1>1, DiskInvariance, PTL

\* LayoutSound: whatever is written through the partitions, the kernel would find
\* the same six again, or those that are not logical once programs have written over
\* the one boot record within their reach; those that hold data are apart from each
\* other and from all boot records
THEOREM LayoutStaysSound == DiskSpec => []LayoutSound
<1>1. ASSUME DiskInv PROVE LayoutSound
  <2> SUFFICES ASSUME "live" \in held PROVE LayoutSound
    BY DEF LayoutSound
  <2>1. parts = Six /\ Legible(ram)
    BY <1>1, LifeHolds DEF DiskInv
  <2>2. /\ def_part_table[2].abs = 320
        /\ {e.abs : e \in {def_part_table[i] : i \in 1..3}} = {1, 320, 640}
    <3>1. /\ def_part_table[1].abs = 1 /\ def_part_table[2].abs = 320
          /\ def_part_table[3].abs = 640
      BY DEF def_part_table, PartEntry
    <3>2. {def_part_table[i] : i \in 1..3} =
            {def_part_table[1], def_part_table[2], def_part_table[3]}
      <4>1. 1..3 = {1, 2, 3}
        OBVIOUS
      <4> QED
        BY <4>1
    <3> QED
      BY <3>1, <3>2
  <2>3. OutOfReach = {0, 448, 576} /\ DOMAIN copy_mbr_n_br = BootSectors
    <3>1. DOMAIN copy_mbr_n_br = BootSectors
      BY TablesWritten
    <3> QED
      BY <2>2, <3>1 DEF OutOfReach, BootSectors
  <2>4. Found(ram) = IF BootTable(ram, 320) # <<>> THEN Six ELSE Primary
    <3>1. CASE BootTable(ram, 320) = <<>>
      BY <2>1, <3>1, FoundWithout
    <3>2. CASE BootTable(ram, 320) # <<>>
      BY <2>1, <3>2, FoundIs DEF Legible, Bootable
    <3> QED
      BY <3>1, <3>2
  <2>5. Primary = {p \in parts : p.abs \in {1, 320, 640}}
    BY <2>1, SixPlaced
  <2>6. ASSUME NEW p \in parts
        PROVE  /\ SectorsOf(p) \subseteq 0..(RB_DEVICE_SIZE - 1)
               /\ SectorsOf(p) \cap OutOfReach = {}
               /\ p.type # Extended => p \in Five
    BY <2>1, <2>3, SixPlaced
  <2>7. ASSUME NEW p \in Five
        PROVE  /\ SectorsOf(p) \cap DOMAIN copy_mbr_n_br = {}
               /\ FromGeometry(p.start) = p.abs
               /\ FromGeometry(p.end) = p.abs + p.cnt - 1
               /\ \A q \in Five \ {p} : SectorsOf(p) \cap SectorsOf(q) = {}
    BY <2>3, FiveApart
  <2>8. Cardinality(parts) = 6
    BY <2>1, SixPlaced
  <2>9. ASSUME NEW p \in parts, p.type # Extended
        PROVE  /\ SectorsOf(p) \cap DOMAIN copy_mbr_n_br = {}
               /\ FromGeometry(p.start) = p.abs
               /\ FromGeometry(p.end) = p.abs + p.cnt - 1
               /\ \A q \in parts \ {p} :
                    q.type # Extended => SectorsOf(p) \cap SectorsOf(q) = {}
    <3>1. \A q \in parts \ {p} : q.type # Extended => q \in Five \ {p}
      BY <2>6
    <3> QED
      BY <2>6, <2>7, <2>9, <3>1
  <2>10. Found(ram) = IF BootTable(ram, def_part_table[2].abs) # <<>> THEN parts
                      ELSE {p \in parts :
                              p.abs \in {e.abs : e \in {def_part_table[i] : i \in 1..3}}}
    BY <2>1, <2>2, <2>4, <2>5
  <2> QED
    BY <2>6, <2>8, <2>9, <2>10 DEF LayoutSound
<1> QED
  BY <1>1, DiskInvariance, PTL

-----------------------------------------------------------------------------
\* The disk adds to a driver's life and changes nothing of it
THEOREM DiskDriverLives == DiskSpec => Spec
<1>1. DiskInit => Init
  BY DEF DiskInit
<1>2. [DiskNext]_diskVars => [Next]_vars
  BY DEF DiskNext, Live, Transfer, rb_request, diskVars
<1> QED
  BY <1>1, <1>2, PTL DEF DiskSpec, Spec
=============================================================================
