--------------------------- MODULE ExclusiveOpen ---------------------------
(***************************************************************************)
(* The way four character drivers let one program in at a time: a counter  *)
(* that open tests and increments and release decrements (Device_Open of   *)
(* charexample/chardev.c and lkm3_char/chardev.c, module4_flagopen,        *)
(* module5_flagopen), and the references that keep the module loaded.      *)
(* Every load and store of the counter is a step.                          *)
(*                                                                         *)
(* What an open file is used for is left to the module that extends this   *)
(* one.  The setting is chosen once: the driver, whether the kernel runs   *)
(* one open handler at a time (lock_kernel in chrdev_open, before 2.6.27), *)
(* and whether programs share an open file by fork.                        *)
(***************************************************************************)
EXTENDS Integers, FiniteSets

CONSTANTS Tasks, NoFile

ASSUME TasksAssumption == IsFiniteSet(Tasks) /\ NoFile \notin Tasks

VARIABLES setting,
          pc,      \* Tasks -> where the task is
          reg,     \* Tasks -> the value of the counter it loaded
          file,    \* Tasks -> the open file it has; files bear the names of tasks
          count,   \* Device_Open, module4_flagopen, module5_flagopen
          refs,    \* references to the module
          loaded

lockVars == <<setting, pc, reg, file, count, refs, loaded>>

Drivers == {"char_dev", "chardev", "module4", "module5"}

Settings == [driver : Drivers, serial : BOOLEAN, forks : BOOLEAN]

\* With .owner set the kernel counts references itself
Owned == setting.driver \in {"module4", "module5"}

Opening   == {"test", "load", "store", "done"}
Releasing == {"rel_load", "rel_store", "rel_put"}

Goto(t, place) == pc' = [pc EXCEPT ![t] = place]

OpenFiles == {file[t] : t \in Tasks} \ {NoFile}

-----------------------------------------------------------------------------
LockInit ==
  /\ setting \in Settings
  /\ pc = [t \in Tasks |-> "user"]
  /\ reg = [t \in Tasks |-> 0]
  /\ file = [t \in Tasks |-> NoFile]
  /\ count = 0
  /\ refs = 0
  /\ loaded = FALSE

\* register_chrdev, or alloc_chrdev_region and cdev_add
Load ==
  /\ ~loaded
  /\ loaded' = TRUE
  /\ count' = 0
  /\ UNCHANGED <<setting, pc, reg, file, refs>>

\* rmmod; a task that runs the module's code dies
Unload ==
  /\ loaded /\ refs = 0
  /\ loaded' = FALSE
  /\ pc' = [t \in Tasks |-> "user"]
  /\ UNCHANGED <<setting, reg, file, count, refs>>

-----------------------------------------------------------------------------
(* open *)

\* chrdev_open
OpenCall(t) ==
  /\ loaded
  /\ pc[t] = "user" /\ file[t] = NoFile
  /\ setting.serial => \A u \in Tasks : pc[u] \notin Opening
  /\ refs' = IF Owned THEN refs + 1 ELSE refs
  /\ Goto(t, "test")
  /\ UNCHANGED <<setting, reg, file, count, loaded>>

\* Variant: the refused open keeps the reference
OpenTestKeeping(t) ==
  /\ pc[t] = "test"
  /\ Goto(t, IF count = 0 THEN "load" ELSE "user")
  /\ UNCHANGED <<setting, reg, file, count, refs, loaded>>

\* Variant: a second opener is let in
OpenTestOffByOne(t) ==
  /\ pc[t] = "test"
  /\ Goto(t, IF count <= 1 THEN "load" ELSE "user")
  /\ refs' = IF count > 1 /\ Owned THEN refs - 1 ELSE refs
  /\ UNCHANGED <<setting, reg, file, count, loaded>>

\* if (Device_Open) return -EBUSY
OpenTest(t) ==
  /\ pc[t] = "test"
  /\ Goto(t, IF count = 0 THEN "load" ELSE "user")
  /\ refs' = IF count # 0 /\ Owned THEN refs - 1 ELSE refs
  /\ UNCHANGED <<setting, reg, file, count, loaded>>

\* Device_Open++, in two steps; a compiler may also keep the tested value
OpenLoad(t) ==
  /\ pc[t] = "load"
  /\ reg' = [reg EXCEPT ![t] = count]
  /\ Goto(t, "store")
  /\ UNCHANGED <<setting, file, count, refs, loaded>>

OpenStore(t) ==
  /\ pc[t] = "store"
  /\ count' = reg[t] + 1
  /\ Goto(t, "done")
  /\ UNCHANGED <<setting, reg, file, refs, loaded>>

\* try_module_get, if the kernel has not done it; the file is open
OpenDone(t) ==
  /\ pc[t] = "done"
  /\ refs' = IF Owned THEN refs ELSE refs + 1
  /\ \E f \in Tasks \ OpenFiles : file' = [file EXCEPT ![t] = f]
  /\ Goto(t, "user")
  /\ UNCHANGED <<setting, reg, count, loaded>>

-----------------------------------------------------------------------------
Fork(t, u) ==
  /\ setting.forks
  /\ file[t] # NoFile /\ pc[t] = "user"
  /\ file[u] = NoFile /\ pc[u] = "user"
  /\ file' = [file EXCEPT ![u] = file[t]]
  /\ UNCHANGED <<setting, pc, reg, count, refs, loaded>>

\* close: release runs when the last task that has the file closes it
Close(t) ==
  /\ pc[t] = "user" /\ file[t] # NoFile
  /\ file' = [file EXCEPT ![t] = NoFile]
  /\ Goto(t, IF \E u \in Tasks \ {t} : file[u] = file[t] THEN "user" ELSE "rel_load")
  /\ UNCHANGED <<setting, reg, count, refs, loaded>>

\* Device_Open--
RelLoad(t) ==
  /\ pc[t] = "rel_load"
  /\ reg' = [reg EXCEPT ![t] = count]
  /\ Goto(t, "rel_store")
  /\ UNCHANGED <<setting, file, count, refs, loaded>>

\* Variant: the count is not taken down
RelStoreNothing(t) ==
  /\ pc[t] = "rel_store"
  /\ Goto(t, "rel_put")
  /\ UNCHANGED <<setting, reg, file, count, refs, loaded>>

RelStore(t) ==
  /\ pc[t] = "rel_store"
  /\ count' = reg[t] - 1
  /\ Goto(t, "rel_put")
  /\ UNCHANGED <<setting, reg, file, refs, loaded>>

\* Variant: the driver puts the reference although .owner is set
RelPutTwice(t) ==
  /\ pc[t] = "rel_put"
  /\ refs' = IF Owned THEN refs - 2 ELSE refs - 1
  /\ Goto(t, "user")
  /\ UNCHANGED <<setting, reg, file, count, loaded>>

\* module_put, by the driver or by the kernel
RelPut(t) ==
  /\ pc[t] = "rel_put"
  /\ refs' = refs - 1
  /\ Goto(t, "user")
  /\ UNCHANGED <<setting, reg, file, count, loaded>>

-----------------------------------------------------------------------------
\* Steps that leave the driver's data alone
LockStep ==
  \/ Unload
  \/ \E t \in Tasks :
       \/ OpenCall(t) \/ OpenTest(t) \/ OpenLoad(t) \/ OpenStore(t)
       \/ \E u \in Tasks : Fork(t, u)
       \/ Close(t) \/ RelLoad(t) \/ RelStore(t) \/ RelPut(t)

LockNext == Load \/ LockStep \/ \E t \in Tasks : OpenDone(t)

LockSpec == LockInit /\ [][LockNext]_lockVars

-----------------------------------------------------------------------------
Places == {"user"} \cup Opening \cup Releasing

LockTypeOK ==
  /\ setting \in Settings
  /\ pc \in [Tasks -> Places]
  /\ reg \in [Tasks -> Int]
  /\ file \in [Tasks -> Tasks \cup {NoFile}]
  /\ count \in Int /\ refs \in Int
  /\ loaded \in BOOLEAN

\* Tasks between the store of open and the store of release, without a file
Between == {t \in Tasks : pc[t] \in {"done", "rel_load", "rel_store"}}

\* While the kernel runs one open at a time the counter counts the open files,
\* a file on its way in or out included: no increment or decrement is lost
CountExact ==
  loaded /\ setting.serial => count = Cardinality(OpenFiles) + Cardinality(Between)

\* "We don't want to talk to two processes at the same time"
OneOpenFile ==
  setting.serial => Cardinality(OpenFiles) + Cardinality(Between) <= 1

\* Tasks without a file that hold a reference
Holding == {t \in Tasks : pc[t] \in Releasing \/ (Owned /\ pc[t] \in Opening)}

\* The references are those of the open files and of the calls in progress, in
\* any interleaving: the module can be unloaded once it is not used
RefsExact == refs = Cardinality(OpenFiles) + Cardinality(Holding)

\* With .owner set rmmod never pulls the code away under a task that runs it
\* or that has the device open
CodeStays ==
  [][Owned /\ loaded /\ ~loaded' => OpenFiles = {} /\ \A t \in Tasks : pc[t] = "user"]_lockVars

\* "We're now ready for our next caller": once nobody has the device, nor is on
\* the way in or out, the next open is not refused
ReadyForNext ==
  loaded /\ OpenFiles = {} /\ (\A t \in Tasks : pc[t] = "user") => count = 0
=============================================================================
