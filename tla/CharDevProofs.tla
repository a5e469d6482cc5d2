--------------------------- MODULE CharDevProofs ---------------------------
(***************************************************************************)
(* Theorems about the character drivers, for any number of tasks, any      *)
(* buffer and any texts, proved with TLAPS: the open counter and the       *)
(* references of ExclusiveOpen, which PortDev's specification implements   *)
(* step by step, then the message of CharDev and the byte of PortDev.      *)
(***************************************************************************)
EXTENDS PortDev, FiniteSetTheorems, TLAPS

(* The counter and the references *)

\* Nobody has the device, or is in the driver's code, while it is not loaded
NobodyUnloaded ==
  ~loaded => \A t \in Tasks : pc[t] = "user" /\ file[t] = NoFile

\* A task that has a file is outside of open and release
FilesOutside == \A t \in Tasks : file[t] # NoFile => pc[t] = "user"

\* The inductive invariant behind the references
RefsInv == LockTypeOK /\ NobodyUnloaded /\ FilesOutside /\ RefsExact

-----------------------------------------------------------------------------
\* Types, at first
LEMMA LockTypeInit == LockInit => LockTypeOK
<1> SUFFICES ASSUME LockInit PROVE LockTypeOK
  OBVIOUS
<1>1. pc \in [Tasks -> Places] /\ file \in [Tasks -> Tasks \cup {NoFile}]
  BY DEF LockInit, Places
<1>2. reg \in [Tasks -> Int] /\ count \in Int /\ refs \in Int
  BY DEF LockInit
<1>3. setting \in Settings /\ loaded \in BOOLEAN
  BY DEF LockInit
<1> QED
  BY <1>1, <1>2, <1>3 DEF LockTypeOK

\* Types, on every step
LEMMA LockTypeStep == LockTypeOK /\ [LockNext]_lockVars => LockTypeOK'
<1> SUFFICES ASSUME LockTypeOK, [LockNext]_lockVars PROVE LockTypeOK'
  OBVIOUS
<1> USE DEF LockTypeOK, Goto, Places, Opening, Releasing
<1>1. CASE Load
  BY <1>1 DEF Load
<1>2. CASE Unload
  BY <1>2 DEF Unload
<1>3. ASSUME NEW t \in Tasks, OpenCall(t) PROVE LockTypeOK'
  BY <1>3 DEF OpenCall
<1>4. ASSUME NEW t \in Tasks, OpenTest(t) PROVE LockTypeOK'
  BY <1>4 DEF OpenTest
<1>5. ASSUME NEW t \in Tasks, OpenLoad(t) PROVE LockTypeOK'
  BY <1>5 DEF OpenLoad
<1>6. ASSUME NEW t \in Tasks, OpenStore(t) PROVE LockTypeOK'
  BY <1>6 DEF OpenStore
<1>7. ASSUME NEW t \in Tasks, OpenDone(t) PROVE LockTypeOK'
  BY <1>7 DEF OpenDone
<1>8. ASSUME NEW t \in Tasks, NEW u \in Tasks, Fork(t, u) PROVE LockTypeOK'
  BY <1>8 DEF Fork
<1>9. ASSUME NEW t \in Tasks, Close(t) PROVE LockTypeOK'
  BY <1>9 DEF Close
<1>10. ASSUME NEW t \in Tasks, RelLoad(t) PROVE LockTypeOK'
  BY <1>10 DEF RelLoad
<1>11. ASSUME NEW t \in Tasks, RelStore(t) PROVE LockTypeOK'
  BY <1>11 DEF RelStore
<1>12. ASSUME NEW t \in Tasks, RelPut(t) PROVE LockTypeOK'
  BY <1>12 DEF RelPut
<1>13. CASE UNCHANGED lockVars
  BY <1>13 DEF lockVars
<1> QED
  BY <1>1, <1>2, <1>3, <1>4, <1>5, <1>6, <1>7, <1>8, <1>9, <1>10, <1>11, <1>12, <1>13
     DEF LockNext, LockStep

\* The sets that are counted are finite
LEMMA Countable ==
  ASSUME LockTypeOK
  PROVE  /\ IsFiniteSet(OpenFiles) /\ Cardinality(OpenFiles) \in Nat
         /\ IsFiniteSet(Holding) /\ Cardinality(Holding) \in Nat
         /\ IsFiniteSet(Between) /\ Cardinality(Between) \in Nat
<1>1. OpenFiles \in SUBSET Tasks
  BY DEF OpenFiles, LockTypeOK
<1>2. Holding \in SUBSET Tasks /\ Between \in SUBSET Tasks
  BY DEF Holding, Between
<1> QED
  BY <1>1, <1>2, FS_Subset, FS_CardinalityType, TasksAssumption

-----------------------------------------------------------------------------
(* Where tasks are *)

\* Steps that only move a task within the driver keep its files where they are
LEMMA PlacesStep ==
  ASSUME RefsInv, [LockNext]_lockVars
  PROVE  NobodyUnloaded' /\ FilesOutside'
<1> USE DEF RefsInv, LockTypeOK, NobodyUnloaded, FilesOutside, Goto
<1>1. CASE Load
  BY <1>1 DEF Load
<1>2. CASE Unload
  <2>1. OpenFiles = {}
    BY <1>2, Countable, FS_EmptySet DEF Unload, RefsExact
  <2>2. \A t \in Tasks : file[t] = NoFile
    BY <2>1 DEF OpenFiles
  <2> QED
    BY <1>2, <2>2 DEF Unload
<1>3. ASSUME NEW t \in Tasks, OpenCall(t) PROVE NobodyUnloaded' /\ FilesOutside'
  BY <1>3 DEF OpenCall
<1>4. ASSUME NEW t \in Tasks, OpenTest(t) PROVE NobodyUnloaded' /\ FilesOutside'
  BY <1>4 DEF OpenTest
<1>5. ASSUME NEW t \in Tasks, OpenLoad(t) PROVE NobodyUnloaded' /\ FilesOutside'
  BY <1>5 DEF OpenLoad
<1>6. ASSUME NEW t \in Tasks, OpenStore(t) PROVE NobodyUnloaded' /\ FilesOutside'
  BY <1>6 DEF OpenStore
<1>7. ASSUME NEW t \in Tasks, OpenDone(t) PROVE NobodyUnloaded' /\ FilesOutside'
  BY <1>7 DEF OpenDone
<1>8. ASSUME NEW t \in Tasks, NEW u \in Tasks, Fork(t, u)
      PROVE  NobodyUnloaded' /\ FilesOutside'
  BY <1>8 DEF Fork
<1>9. ASSUME NEW t \in Tasks, Close(t) PROVE NobodyUnloaded' /\ FilesOutside'
  BY <1>9 DEF Close
<1>10. ASSUME NEW t \in Tasks, RelLoad(t) PROVE NobodyUnloaded' /\ FilesOutside'
  BY <1>10 DEF RelLoad
<1>11. ASSUME NEW t \in Tasks, RelStore(t) PROVE NobodyUnloaded' /\ FilesOutside'
  BY <1>11 DEF RelStore
<1>12. ASSUME NEW t \in Tasks, RelPut(t) PROVE NobodyUnloaded' /\ FilesOutside'
  BY <1>12 DEF RelPut
<1>13. CASE UNCHANGED lockVars
  BY <1>13 DEF lockVars
<1> QED
  BY <1>1, <1>2, <1>3, <1>4, <1>5, <1>6, <1>7, <1>8, <1>9, <1>10, <1>11, <1>12, <1>13
     DEF LockNext, LockStep

\* What a step does to the open files
LEMMA FilesStep ==
  ASSUME RefsInv, NEW t \in Tasks
  PROVE  /\ OpenDone(t) => \E f \in Tasks \ OpenFiles : OpenFiles' = OpenFiles \cup {f}
         /\ \A u \in Tasks : Fork(t, u) => OpenFiles' = OpenFiles
         /\ Close(t) => \/ /\ \E u \in Tasks \ {t} : file[u] = file[t]
                           /\ OpenFiles' = OpenFiles
                        \/ /\ ~\E u \in Tasks \ {t} : file[u] = file[t]
                           /\ OpenFiles' = OpenFiles \ {file[t]} /\ file[t] \in OpenFiles
<1> USE DEF RefsInv, LockTypeOK, FilesOutside
<1>1. ASSUME OpenDone(t) PROVE \E f \in Tasks \ OpenFiles : OpenFiles' = OpenFiles \cup {f}
  <2>1. PICK f \in Tasks \ OpenFiles : file' = [file EXCEPT ![t] = f]
    BY <1>1 DEF OpenDone
  <2>2. f # NoFile /\ file[t] = NoFile
    BY <1>1, TasksAssumption DEF OpenDone
  <2>3. OpenFiles' = OpenFiles \cup {f}
    BY <2>1, <2>2 DEF OpenFiles
  <2> QED
    BY <2>3
<1>2. ASSUME NEW u \in Tasks, Fork(t, u) PROVE OpenFiles' = OpenFiles
  BY <1>2 DEF Fork, OpenFiles
<1>3. ASSUME Close(t), \E u \in Tasks \ {t} : file[u] = file[t] PROVE OpenFiles' = OpenFiles
  BY <1>3 DEF Close, OpenFiles
<1>4. ASSUME Close(t), ~\E u \in Tasks \ {t} : file[u] = file[t]
      PROVE  OpenFiles' = OpenFiles \ {file[t]} /\ file[t] \in OpenFiles
  BY <1>4 DEF Close, OpenFiles
<1> QED
  BY <1>1, <1>2, <1>3, <1>4
-----------------------------------------------------------------------------
(* The references *)

LEMMA RefsInit == LockInit => RefsInv
<1> SUFFICES ASSUME LockInit PROVE RefsInv
  OBVIOUS
<1>1. LockTypeOK
  BY LockTypeInit
<1>2. NobodyUnloaded /\ FilesOutside
  BY DEF LockInit, NobodyUnloaded, FilesOutside
<1>3. OpenFiles = {} /\ Holding = {}
  BY DEF LockInit, OpenFiles, Holding, Opening, Releasing
<1>4. RefsExact
  BY <1>3, FS_EmptySet DEF LockInit, RefsExact
<1> QED
  BY <1>1, <1>2, <1>4 DEF RefsInv

\* A reference is taken and given back with the file, or the call, it is for
LEMMA RefsStep == RefsInv /\ [LockNext]_lockVars => RefsInv'
<1> SUFFICES ASSUME RefsInv, [LockNext]_lockVars PROVE RefsExact'
  BY LockTypeStep, PlacesStep DEF RefsInv
<1>0. /\ LockTypeOK /\ FilesOutside /\ refs = Cardinality(OpenFiles) + Cardinality(Holding)
      /\ IsFiniteSet(OpenFiles) /\ Cardinality(OpenFiles) \in Nat
      /\ IsFiniteSet(Holding) /\ Cardinality(Holding) \in Nat
  BY Countable DEF RefsInv, RefsExact
<1> USE DEF LockTypeOK, Goto, Opening, Releasing, Owned
\* Steps that neither take nor give back
<1>a. ASSUME refs' = refs, OpenFiles' = OpenFiles, Holding' = Holding PROVE RefsExact'
  BY <1>0, <1>a DEF RefsExact
<1>1. CASE Load
  BY <1>0, <1>1, <1>a DEF Load, OpenFiles, Holding
<1>2. CASE Unload
  <2>1. OpenFiles = {}
    BY <1>0, <1>2, FS_EmptySet DEF Unload
  <2>2. OpenFiles' = {} /\ Holding' = {}
    BY <1>0, <1>2, <2>1 DEF Unload, OpenFiles, Holding
  <2> QED
    BY <1>2, <2>2, FS_EmptySet DEF Unload, RefsExact
<1>3. ASSUME NEW t \in Tasks, OpenCall(t) PROVE RefsExact'
  <2>1. OpenFiles' = OpenFiles
    BY <1>0, <1>3 DEF OpenCall, OpenFiles
  <2>2. CASE Owned
    <3>1. Holding' = Holding \cup {t} /\ t \notin Holding
      BY <1>0, <1>3, <2>2 DEF OpenCall, Holding
    <3>2. Cardinality(Holding') = Cardinality(Holding) + 1
      BY <1>0, <3>1, FS_AddElement
    <3> QED
      BY <1>0, <1>3, <2>1, <2>2, <3>2 DEF OpenCall, RefsExact
  <2>3. CASE ~Owned
    BY <1>0, <1>3, <2>1, <2>3, <1>a DEF OpenCall, Holding
  <2> QED
    BY <2>2, <2>3
<1>4. ASSUME NEW t \in Tasks, OpenTest(t) PROVE RefsExact'
  <2>1. OpenFiles' = OpenFiles
    BY <1>0, <1>4 DEF OpenTest, OpenFiles
  <2>2. CASE Owned /\ count # 0
    <3>1. Holding' = Holding \ {t} /\ t \in Holding
      BY <1>0, <1>4, <2>2 DEF OpenTest, Holding
    <3>2. Cardinality(Holding') = Cardinality(Holding) - 1
      BY <1>0, <3>1, FS_RemoveElement
    <3> QED
      BY <1>0, <1>4, <2>1, <2>2, <3>2 DEF OpenTest, RefsExact
  <2>3. CASE ~(Owned /\ count # 0)
    BY <1>0, <1>4, <2>1, <2>3, <1>a DEF OpenTest, Holding
  <2> QED
    BY <2>2, <2>3
<1>5. ASSUME NEW t \in Tasks, OpenLoad(t) PROVE RefsExact'
  BY <1>0, <1>5, <1>a DEF OpenLoad, OpenFiles, Holding
<1>6. ASSUME NEW t \in Tasks, OpenStore(t) PROVE RefsExact'
  BY <1>0, <1>6, <1>a DEF OpenStore, OpenFiles, Holding
<1>7. ASSUME NEW t \in Tasks, OpenDone(t) PROVE RefsExact'
  <2>1. PICK f \in Tasks \ OpenFiles : OpenFiles' = OpenFiles \cup {f}
    BY <1>7, FilesStep
  <2>2. Cardinality(OpenFiles') = Cardinality(OpenFiles) + 1
    BY <1>0, <2>1, FS_AddElement
  <2>3. CASE Owned
    <3>1. Holding' = Holding \ {t} /\ t \in Holding
      BY <1>0, <1>7, <2>3 DEF OpenDone, Holding
    <3>2. Cardinality(Holding') = Cardinality(Holding) - 1
      BY <1>0, <3>1, FS_RemoveElement
    <3> QED
      BY <1>0, <1>7, <2>2, <2>3, <3>2 DEF OpenDone, RefsExact
  <2>4. CASE ~Owned
    <3>1. Holding' = Holding
      BY <1>0, <1>7, <2>4 DEF OpenDone, Holding
    <3> QED
      BY <1>0, <1>7, <2>2, <2>4, <3>1 DEF OpenDone, RefsExact
  <2> QED
    BY <2>3, <2>4
<1>8. ASSUME NEW t \in Tasks, NEW u \in Tasks, Fork(t, u) PROVE RefsExact'
  BY <1>0, <1>8, <1>a, FilesStep DEF Fork, Holding
<1>9. ASSUME NEW t \in Tasks, Close(t) PROVE RefsExact'
  <2>1. CASE \E u \in Tasks \ {t} : file[u] = file[t]
    BY <1>0, <1>9, <1>a, <2>1, FilesStep DEF Close, Holding
  <2>2. CASE ~\E u \in Tasks \ {t} : file[u] = file[t]
    <3>1. OpenFiles' = OpenFiles \ {file[t]} /\ file[t] \in OpenFiles
      BY <1>9, <2>2, FilesStep
    <3>2. Holding' = Holding \cup {t} /\ t \notin Holding
      BY <1>0, <1>9, <2>2 DEF Close, Holding
    <3>3. Cardinality(OpenFiles') = Cardinality(OpenFiles) - 1
      BY <1>0, <3>1, FS_RemoveElement
    <3>4. Cardinality(Holding') = Cardinality(Holding) + 1
      BY <1>0, <3>2, FS_AddElement
    <3> QED
      BY <1>0, <1>9, <3>3, <3>4 DEF Close, RefsExact
  <2> QED
    BY <2>1, <2>2
<1>10. ASSUME NEW t \in Tasks, RelLoad(t) PROVE RefsExact'
  BY <1>0, <1>10, <1>a DEF RelLoad, OpenFiles, Holding
<1>11. ASSUME NEW t \in Tasks, RelStore(t) PROVE RefsExact'
  BY <1>0, <1>11, <1>a DEF RelStore, OpenFiles, Holding
<1>12. ASSUME NEW t \in Tasks, RelPut(t) PROVE RefsExact'
  <2>1. OpenFiles' = OpenFiles
    BY <1>12 DEF RelPut, OpenFiles
  <2>2. Holding' = Holding \ {t} /\ t \in Holding
    BY <1>0, <1>12 DEF RelPut, Holding
  <2>3. Cardinality(Holding') = Cardinality(Holding) - 1
    BY <1>0, <2>2, FS_RemoveElement
  <2> QED
    BY <1>0, <1>12, <2>1, <2>3 DEF RelPut, RefsExact
<1>13. CASE UNCHANGED lockVars
  BY <1>0, <1>13, <1>a DEF lockVars, OpenFiles, Holding
<1> QED
  BY <1>1, <1>2, <1>3, <1>4, <1>5, <1>6, <1>7, <1>8, <1>9, <1>10, <1>11, <1>12, <1>13
     DEF LockNext, LockStep
-----------------------------------------------------------------------------
(* The counter, where the kernel runs one open handler at a time *)

\* What the counter says: nobody, one open file, or one task on the way in or out
Tally ==
  \/ count = 0 /\ OpenFiles = {} /\ Between = {}
  \/ count = 1 /\ (\E f \in Tasks : OpenFiles = {f}) /\ Between = {}
  \/ count = 1 /\ OpenFiles = {} /\ \E t \in Tasks : Between = {t}

\* The values that tasks have loaded are up to date
RegsTrue ==
  \A t \in Tasks : /\ pc[t] \in {"load", "store"} => count = 0
                   /\ pc[t] = "store" => reg[t] = 0
                   /\ pc[t] = "rel_store" => reg[t] = 1

OneOpener == \A t, u \in Tasks : pc[t] \in Opening /\ pc[u] \in Opening => t = u

CountInv == RefsInv /\ (loaded /\ setting.serial => Tally /\ RegsTrue /\ OneOpener)

\* The setting is chosen once
LEMMA SettingStays == [LockNext]_lockVars => setting' = setting
<1> SUFFICES ASSUME [LockNext]_lockVars PROVE setting' = setting
  OBVIOUS
<1>1. CASE Load \/ Unload \/ UNCHANGED lockVars
  BY <1>1 DEF Load, Unload, lockVars
<1>2. ASSUME NEW t \in Tasks, OpenCall(t) \/ OpenTest(t) \/ OpenLoad(t) \/ OpenStore(t)
      PROVE  setting' = setting
  BY <1>2 DEF OpenCall, OpenTest, OpenLoad, OpenStore
<1>3. ASSUME NEW t \in Tasks, OpenDone(t) \/ \E u \in Tasks : Fork(t, u)
      PROVE  setting' = setting
  BY <1>3 DEF OpenDone, Fork
<1>4. ASSUME NEW t \in Tasks, Close(t) \/ RelLoad(t) \/ RelStore(t) \/ RelPut(t)
      PROVE  setting' = setting
  BY <1>4 DEF Close, RelLoad, RelStore, RelPut
<1> QED
  BY <1>1, <1>2, <1>3, <1>4 DEF LockNext, LockStep

LEMMA CountStep == CountInv /\ [LockNext]_lockVars => CountInv'
<1> SUFFICES ASSUME CountInv, [LockNext]_lockVars, loaded', setting.serial,
                    RefsInv', setting' = setting
             PROVE  Tally' /\ RegsTrue' /\ OneOpener'
  BY SettingStays, RefsStep DEF CountInv
<1>0. /\ LockTypeOK /\ FilesOutside /\ NobodyUnloaded /\ RefsInv
      /\ loaded => Tally /\ RegsTrue /\ OneOpener
  BY DEF CountInv, RefsInv
<1> USE DEF LockTypeOK, Goto, Opening
<1>1. CASE Load
  <2>1. /\ \A t \in Tasks : pc'[t] = "user" /\ file'[t] = NoFile
        /\ count' = 0
    BY <1>0, <1>1 DEF Load, NobodyUnloaded
  <2>2. OpenFiles' = {} /\ Between' = {}
    BY <2>1 DEF OpenFiles, Between
  <2> QED
    BY <2>1, <2>2 DEF Tally, RegsTrue, OneOpener
<1>2. CASE Unload
  BY <1>2 DEF Unload
<1>3. ASSUME NEW t \in Tasks, OpenCall(t) PROVE Tally' /\ RegsTrue' /\ OneOpener'
  <2>1. OpenFiles' = OpenFiles /\ Between' = Between
    BY <1>0, <1>3 DEF OpenCall, OpenFiles, Between
  <2> QED
    BY <1>0, <1>3, <2>1 DEF OpenCall, Tally, RegsTrue, OneOpener
<1>4. ASSUME NEW t \in Tasks, OpenTest(t) PROVE Tally' /\ RegsTrue' /\ OneOpener'
  <2>1. OpenFiles' = OpenFiles /\ Between' = Between
    BY <1>0, <1>4 DEF OpenTest, OpenFiles, Between
  <2> QED
    BY <1>0, <1>4, <2>1 DEF OpenTest, Tally, RegsTrue, OneOpener
<1>5. ASSUME NEW t \in Tasks, OpenLoad(t) PROVE Tally' /\ RegsTrue' /\ OneOpener'
  <2>1. OpenFiles' = OpenFiles /\ Between' = Between
    BY <1>0, <1>5 DEF OpenLoad, OpenFiles, Between
  <2> QED
    BY <1>0, <1>5, <2>1 DEF OpenLoad, Tally, RegsTrue, OneOpener
<1>6. ASSUME NEW t \in Tasks, OpenStore(t) PROVE Tally' /\ RegsTrue' /\ OneOpener'
  <2>1. count = 0 /\ count' = 1 /\ OpenFiles = {} /\ Between = {}
    BY <1>0, <1>6 DEF OpenStore, Tally, RegsTrue
  <2>2. OpenFiles' = {} /\ Between' = {t}
    BY <1>0, <1>6, <2>1 DEF OpenStore, OpenFiles, Between
  <2>3. \A u \in Tasks : pc[u] # "rel_store" /\ (pc[u] \in Opening => u = t)
    BY <1>0, <1>6, <2>1 DEF OpenStore, Between, OneOpener
  <2> QED
    BY <1>0, <1>6, <2>1, <2>2, <2>3 DEF OpenStore, Tally, RegsTrue, OneOpener
<1>7. ASSUME NEW t \in Tasks, OpenDone(t) PROVE Tally' /\ RegsTrue' /\ OneOpener'
  <2>1. PICK f \in Tasks \ OpenFiles : OpenFiles' = OpenFiles \cup {f}
    BY <1>0, <1>7, FilesStep
  <2>2. t \in Between /\ count = 1 /\ OpenFiles = {} /\ Between = {t}
    BY <1>0, <1>7 DEF OpenDone, Tally, Between
  <2>3. Between' = {} /\ OpenFiles' = {f}
    BY <1>0, <1>7, <2>1, <2>2 DEF OpenDone, Between
  <2> QED
    BY <1>0, <1>7, <2>2, <2>3 DEF OpenDone, Tally, RegsTrue, OneOpener
<1>8. ASSUME NEW t \in Tasks, NEW u \in Tasks, Fork(t, u)
      PROVE  Tally' /\ RegsTrue' /\ OneOpener'
  <2>1. OpenFiles' = OpenFiles /\ Between' = Between
    BY <1>0, <1>8, FilesStep DEF Fork, Between
  <2> QED
    BY <1>0, <1>8, <2>1 DEF Fork, Tally, RegsTrue, OneOpener
<1>9. ASSUME NEW t \in Tasks, Close(t) PROVE Tally' /\ RegsTrue' /\ OneOpener'
  <2>1. CASE \E u \in Tasks \ {t} : file[u] = file[t]
    <3>1. OpenFiles' = OpenFiles /\ pc' = pc
      BY <1>0, <1>9, <2>1, FilesStep DEF Close
    <3> QED
      BY <1>0, <1>9, <3>1 DEF Close, Tally, RegsTrue, OneOpener, Between
  <2>2. CASE ~\E u \in Tasks \ {t} : file[u] = file[t]
    <3>1. OpenFiles' = OpenFiles \ {file[t]} /\ file[t] \in OpenFiles
      BY <1>0, <1>9, <2>2, FilesStep
    <3>2. count = 1 /\ OpenFiles = {file[t]} /\ Between = {}
      BY <1>0, <1>9, <3>1 DEF Tally, Close
    <3>3. OpenFiles' = {} /\ Between' = {t}
      BY <1>0, <1>9, <2>2, <3>1, <3>2 DEF Close, Between
    <3> QED
      BY <1>0, <1>9, <2>2, <3>2, <3>3 DEF Close, Tally, RegsTrue, OneOpener
  <2> QED
    BY <2>1, <2>2
<1>10. ASSUME NEW t \in Tasks, RelLoad(t) PROVE Tally' /\ RegsTrue' /\ OneOpener'
  <2>1. OpenFiles' = OpenFiles /\ Between' = Between
    BY <1>0, <1>10 DEF RelLoad, OpenFiles, Between
  <2>2. count = 1
    BY <1>0, <1>10 DEF RelLoad, Tally, Between, NobodyUnloaded
  <2> QED
    BY <1>0, <1>10, <2>1, <2>2 DEF RelLoad, Tally, RegsTrue, OneOpener
<1>11. ASSUME NEW t \in Tasks, RelStore(t) PROVE Tally' /\ RegsTrue' /\ OneOpener'
  <2>1. t \in Between /\ count' = 0
    BY <1>0, <1>11 DEF RelStore, RegsTrue, Between
  <2>2. OpenFiles = {} /\ Between = {t}
    BY <1>0, <1>11, <2>1 DEF RelStore, Tally
  <2>3. OpenFiles' = {} /\ Between' = {}
    BY <1>0, <1>11, <2>2 DEF RelStore, OpenFiles, Between
  <2>4. \A u \in Tasks : pc[u] = "rel_store" => u = t
    BY <2>2 DEF Between
  <2> QED
    BY <1>0, <1>11, <2>1, <2>3, <2>4 DEF RelStore, Tally, RegsTrue, OneOpener
<1>12. ASSUME NEW t \in Tasks, RelPut(t) PROVE Tally' /\ RegsTrue' /\ OneOpener'
  <2>1. OpenFiles' = OpenFiles /\ Between' = Between
    BY <1>0, <1>12 DEF RelPut, OpenFiles, Between
  <2> QED
    BY <1>0, <1>12, <2>1 DEF RelPut, Tally, RegsTrue, OneOpener
<1>13. CASE UNCHANGED lockVars
  <2>1. /\ OpenFiles' = OpenFiles /\ Between' = Between
        /\ pc' = pc /\ reg' = reg /\ count' = count /\ loaded
    BY <1>13 DEF lockVars, OpenFiles, Between
  <2> QED
    BY <1>0, <2>1 DEF Tally, RegsTrue, OneOpener
<1> QED
  BY <1>1, <1>2, <1>3, <1>4, <1>5, <1>6, <1>7, <1>8, <1>9, <1>10, <1>11, <1>12, <1>13
     DEF LockNext, LockStep
LEMMA CountInit == LockInit => CountInv
BY RefsInit DEF LockInit, CountInv

-----------------------------------------------------------------------------
(* What the runs check *)

LEMMA RefsAlways == LockSpec => []RefsInv
BY RefsInit, RefsStep, PTL DEF LockSpec

LEMMA CountAlways == LockSpec => []CountInv
BY CountInit, CountStep, PTL DEF LockSpec

LEMMA TallyCounts ==
  ASSUME CountInv
  PROVE  CountExact /\ OneOpenFile
<1> USE DEF CountInv, RefsInv
<1>1. CASE ~loaded
  <2>1. OpenFiles = {} /\ Between = {}
    BY <1>1 DEF NobodyUnloaded, OpenFiles, Between
  <2> QED
    BY <1>1, <2>1, FS_EmptySet DEF CountExact, OneOpenFile
<1>2. CASE loaded /\ setting.serial
  <2>1. CASE count = 0 /\ OpenFiles = {} /\ Between = {}
    BY <2>1, FS_EmptySet DEF CountExact, OneOpenFile
  <2>2. CASE count = 1 /\ (\E f \in Tasks : OpenFiles = {f}) /\ Between = {}
    <3>1. Cardinality(OpenFiles) = 1
      BY <2>2, FS_Singleton
    <3>2. Cardinality(Between) = 0
      BY <2>2, FS_EmptySet
    <3> QED
      BY <2>2, <3>1, <3>2 DEF CountExact, OneOpenFile
  <2>3. CASE count = 1 /\ OpenFiles = {} /\ \E t \in Tasks : Between = {t}
    <3>1. Cardinality(OpenFiles) = 0
      BY <2>3, FS_EmptySet
    <3>2. Cardinality(Between) = 1
      BY <2>3, FS_Singleton
    <3> QED
      BY <2>3, <3>1, <3>2 DEF CountExact, OneOpenFile
  <2> QED
    BY <1>2, <2>1, <2>2, <2>3 DEF Tally
<1>3. CASE ~setting.serial
  BY <1>3 DEF CountExact, OneOpenFile
<1> QED
  BY <1>1, <1>2, <1>3

\* Without references nobody is in code that the kernel counts references of
LEMMA UnloadedAlone ==
  ASSUME RefsInv, [LockNext]_lockVars, Owned, loaded, ~loaded'
  PROVE  OpenFiles = {} /\ \A t \in Tasks : pc[t] = "user"
<1>1. Unload
  <2>1. CASE Load \/ UNCHANGED lockVars
    BY <2>1 DEF Load, lockVars
  <2>2. ASSUME NEW t \in Tasks, OpenCall(t) \/ OpenTest(t) \/ OpenLoad(t) \/ OpenStore(t)
        PROVE  FALSE
    BY <2>2 DEF OpenCall, OpenTest, OpenLoad, OpenStore
  <2>3. ASSUME NEW t \in Tasks, OpenDone(t) \/ \E u \in Tasks : Fork(t, u) PROVE FALSE
    BY <2>3 DEF OpenDone, Fork
  <2>4. ASSUME NEW t \in Tasks, Close(t) \/ RelLoad(t) \/ RelStore(t) \/ RelPut(t)
        PROVE  FALSE
    BY <2>4 DEF Close, RelLoad, RelStore, RelPut
  <2> QED
    BY <2>1, <2>2, <2>3, <2>4 DEF LockNext, LockStep
<1>2. OpenFiles = {} /\ Holding = {}
  BY <1>1, Countable, FS_EmptySet DEF RefsInv, RefsExact, Unload
<1>3. \A t \in Tasks : pc[t] = "user"
  BY <1>2 DEF Holding, RefsInv, LockTypeOK, Places
<1> QED
  BY <1>2, <1>3

\* Reading, writing and the port do not touch the counter and the references
LEMMA PortStepLocks == [PortNext]_portVars => [LockNext]_lockVars
<1> SUFFICES ASSUME [PortNext]_portVars PROVE [LockNext]_lockVars
  OBVIOUS
<1>1. CASE UNCHANGED portVars
  BY <1>1 DEF portVars, vars
<1>2. ASSUME NEW t \in Tasks, PortOpen(t) PROVE LockNext
  BY <1>2 DEF PortOpen, Open, LockNext
<1>3. ASSUME NEW t \in Tasks, (\E ch \in Bytes : SendByte(t, ch)) \/ RecordByte(t) \/ Ioctl(t)
      PROVE  UNCHANGED lockVars
  BY <1>3 DEF SendByte, RecordByte, Ioctl, vars
<1>4. ASSUME NEW t \in Tasks, FileOp(t) PROVE UNCHANGED lockVars
  BY <1>4 DEF FileOp, Read, GetMsg, Write, SetMsg
<1>5. CASE OtherStep
  BY <1>4, <1>5 DEF OtherStep, LoadBuffers, LockNext
<1> QED
  BY <1>1, <1>2, <1>3, <1>5 DEF PortNext

LEMMA ImplementsLock == PortSpec => LockSpec
<1>1. PortInit => LockInit
  BY DEF PortInit, Init
<1> QED
  BY <1>1, PortStepLocks, PTL DEF PortSpec, LockSpec

\* Whatever tasks open, share and close at once, in any interleaving of the
\* loads and stores of device_open and device_release, the use count of the
\* module is the number of open files and calls in progress.
THEOREM UseCountExact == PortSpec => []RefsExact
<1>1. RefsInv => RefsExact
  BY DEF RefsInv
<1> QED
  BY <1>1, ImplementsLock, RefsAlways, PTL

\* Where the kernel runs one open at a time Device_Open (module4_flagopen,
\* module5_flagopen) is the number of open files, files on the way in or out
\* included: no increment or decrement is lost.
THEOREM OpenCounterExact == PortSpec => []CountExact
<1>1. CountInv => CountExact
  BY TallyCounts
<1> QED
  BY <1>1, ImplementsLock, CountAlways, PTL

\* There, the driver talks to one program at a time.
THEOREM OneProgram == PortSpec => []OneOpenFile
<1>1. CountInv => OneOpenFile
  BY TallyCounts
<1> QED
  BY <1>1, ImplementsLock, CountAlways, PTL

\* rmmod of module4 and module5, which set .owner, finds nobody in their code
\* and no open file.
THEOREM OwnedCodeStays == PortSpec => CodeStays
<1> DEFINE Alright == Owned /\ loaded /\ ~loaded' =>
                        OpenFiles = {} /\ \A t \in Tasks : pc[t] = "user"
<1>1. RefsInv /\ [LockNext]_lockVars => [Alright]_lockVars
  BY UnloadedAlone
<1>2. LockSpec => [][Alright]_lockVars
  BY <1>1, RefsAlways, PTL DEF LockSpec
<1> QED
  BY <1>2, ImplementsLock, PTL DEF CodeStays

-----------------------------------------------------------------------------

(* The message *)

\* Types; and, if no text fills the buffer, its last place is always NUL and
\* what was read had no NUL
MessageInv ==
  /\ Message \in [Buf -> Letters \cup {0}]
  /\ Message_Ptr \in 0..BufLen
  /\ ~Full => /\ Message[BufLen - 1] = 0
              /\ \A i \in Buf : i < Message_Ptr => Message[i] # 0

LEMMA BufLast == BufLen - 1 \in Buf /\ 0 \in Buf
BY MessageAssumption DEF Buf

LEMMA MessageInit == Init => MessageInv
<1> SUFFICES ASSUME Init PROVE MessageInv
  OBVIOUS
<1>1. Message \in [Buf -> Letters \cup {0}] /\ Message[BufLen - 1] = 0
  BY BufLast DEF Init
<1>2. Message_Ptr \in 0..BufLen /\ \A i \in Buf : ~(i < Message_Ptr)
  BY MessageAssumption DEF Init, Buf
<1> QED
  BY <1>1, <1>2 DEF MessageInv

\* Text copied over the buffer: a text that does not fill it leaves a NUL last,
\* whether or not its own terminator is copied
LEMMA CopiedKeeps ==
  ASSUME NEW buffer \in [Buf -> Letters \cup {0}],
         NEW text \in Seq(Letters), NEW n \in 0..BufLen
  PROVE  /\ Copied(buffer, text, n) \in [Buf -> Letters \cup {0}]
         /\ buffer[BufLen - 1] = 0 /\ Len(text) < BufLen
              => Copied(buffer, text, n)[BufLen - 1] = 0
<1>1. \A i \in Buf : i < Len(text) => text[i + 1] \in Letters
  BY MessageAssumption DEF Buf
<1>2. Copied(buffer, text, n) \in [Buf -> Letters \cup {0}]
  BY <1>1 DEF Copied
<1>3. ASSUME buffer[BufLen - 1] = 0, Len(text) < BufLen
      PROVE  Copied(buffer, text, n)[BufLen - 1] = 0
  BY <1>3, BufLast, MessageAssumption DEF Copied
<1> QED
  BY <1>2, <1>3

\* What programs pass
LEMMA TextsAre ==
  ASSUME NEW text \in Texts
  PROVE  text \in Seq(Letters) /\ Len(text) \in Nat /\ (~Full => Len(text) < BufLen)
<1>1. PICK n \in 0..(IF Full THEN BufLen + 1 ELSE BufLen - 1) : text \in [1..n -> Letters]
  BY DEF Texts
<1>2. n \in Nat /\ (~Full => n < BufLen)
  BY <1>1, MessageAssumption
<1>3. text \in Seq(Letters) /\ Len(text) = n
  BY <1>1, <1>2
<1> QED
  BY <1>2, <1>3

\* device_write and IOCTL_SET_MSG
LEMMA PutKeeps ==
  ASSUME MessageInv, NEW text \in Texts, NEW n \in Nat, Put(text, n)
  PROVE  MessageInv'
<1>1. Least(n, BufLen) \in 0..BufLen
  BY MessageAssumption DEF Least
<1>2. /\ Message' \in [Buf -> Letters \cup {0}]
      /\ ~Full => Message'[BufLen - 1] = 0
  BY <1>1, TextsAre, CopiedKeeps DEF MessageInv, Put
<1>3. Message_Ptr' \in 0..BufLen /\ \A i \in Buf : ~(i < Message_Ptr')
  BY MessageAssumption DEF Put, Buf
<1> QED
  BY <1>2, <1>3 DEF MessageInv

\* device_read
LEMMA ReadKeeps ==
  ASSUME MessageInv, NEW t \in Tasks, NEW length \in Nat, Read(t, length)
  PROVE  MessageInv'
<1>1. PICK n \in 0..length :
        /\ \A i \in Message_Ptr..(Message_Ptr + n - 1) : i \in Buf => Message[i] # 0
        /\ Message_Ptr' = Least(Message_Ptr + n, BufLen)
  BY DEF Read
<1>2. Message' = Message
  BY DEF Read
<1>3. Message_Ptr' \in 0..BufLen
  BY <1>1, MessageAssumption DEF MessageInv, Least
<1>4. ASSUME ~Full, NEW i \in Buf, i < Message_Ptr' PROVE Message[i] # 0
  <2>1. CASE i < Message_Ptr
    BY <1>4, <2>1 DEF MessageInv
  <2>2. CASE ~(i < Message_Ptr)
    <3>1. i \in Message_Ptr..(Message_Ptr + n - 1)
      BY <1>1, <1>4, <2>2, MessageAssumption DEF MessageInv, Least, Buf
    <3> QED
      BY <1>1, <3>1
  <2> QED
    BY <2>1, <2>2
<1> QED
  BY <1>2, <1>3, <1>4 DEF MessageInv

\* The last step of open
LEMMA OpenKeeps ==
  ASSUME LockTypeOK, MessageInv, NEW t \in Tasks, Open(t)
  PROVE  MessageInv'
<1>1. setting.driver \in {"char_dev", "chardev", "module4", "module5"}
  BY DEF LockTypeOK, Settings, Drivers
<1>2. CASE setting.driver = "char_dev"
  BY <1>2, MessageAssumption DEF Open, MessageInv, Buf
<1>3. CASE setting.driver = "chardev"
  <2>1. Message_Ptr' = 0 /\ Message' = Copied(Message, Greeting, Len(Greeting) + 1)
    BY <1>3 DEF Open
  <2>2. Len(Greeting) + 1 \in 0..BufLen
    BY MessageAssumption
  <2>3. /\ Message' \in [Buf -> Letters \cup {0}]
        /\ ~Full => Message'[BufLen - 1] = 0
    BY <2>1, <2>2, MessageAssumption, CopiedKeeps DEF MessageInv
  <2>4. Message_Ptr' \in 0..BufLen /\ \A i \in Buf : ~(i < Message_Ptr')
    BY <2>1, MessageAssumption DEF Buf
  <2> QED
    BY <2>3, <2>4 DEF MessageInv
<1>4. CASE setting.driver \notin {"char_dev", "chardev"}
  BY <1>4 DEF Open, MessageInv
<1> QED
  BY <1>2, <1>3, <1>4

LEMMA MessageStep == LockTypeOK /\ MessageInv /\ [PortNext]_portVars => MessageInv'
<1> SUFFICES ASSUME LockTypeOK, MessageInv, [PortNext]_portVars PROVE MessageInv'
  OBVIOUS
<1>1. ASSUME UNCHANGED <<Message, Message_Ptr>> PROVE MessageInv'
  BY <1>1 DEF MessageInv
<1>2. CASE LoadBuffers
  <2>1. Message' \in [Buf -> Letters \cup {0}] /\ Message'[BufLen - 1] = 0
    BY <1>2, BufLast DEF LoadBuffers
  <2>2. Message_Ptr' \in 0..BufLen /\ \A i \in Buf : ~(i < Message_Ptr')
    BY <1>2, MessageAssumption DEF LoadBuffers, Buf
  <2> QED
    BY <2>1, <2>2 DEF MessageInv
<1>3. ASSUME NEW t \in Tasks, FileOp(t) PROVE MessageInv'
  <2>1. ASSUME NEW length \in 1..BufLen, Read(t, length) PROVE MessageInv'
    BY <2>1, ReadKeeps, MessageAssumption
  <2>2. CASE GetMsg(t)
    BY <2>2, ReadKeeps, MessageAssumption DEF GetMsg
  <2>3. ASSUME NEW text \in Texts, Write(t, text) PROVE MessageInv'
    BY <2>3, PutKeeps, TextsAre DEF Write
  <2>4. ASSUME NEW text \in Texts, SetMsg(t, text) PROVE MessageInv'
    <3>1. SetLength(text) \in Nat
      BY TextsAre, MessageAssumption DEF SetLength, Least
    <3> QED
      BY <2>4, <3>1, PutKeeps DEF SetMsg
  <2> QED
    BY <1>3, <2>1, <2>2, <2>3, <2>4 DEF FileOp
<1>4. CASE OtherStep
  BY <1>1, <1>2, <1>3, <1>4 DEF OtherStep
<1>5. ASSUME NEW t \in Tasks, PortOpen(t) PROVE MessageInv'
  BY <1>5, OpenKeeps DEF PortOpen
<1>6. ASSUME NEW t \in Tasks, (\E ch \in Bytes : SendByte(t, ch)) \/ RecordByte(t) \/ Ioctl(t)
      PROVE  MessageInv'
  BY <1>1, <1>6 DEF SendByte, RecordByte, Ioctl, vars
<1>7. CASE UNCHANGED portVars
  BY <1>1, <1>7 DEF portVars, vars
<1> QED
  BY <1>4, <1>5, <1>6, <1>7 DEF PortNext

\* As long as no text fills the buffer, device_read ends at a NUL inside it, and
\* the pointer has never passed one, for any length of the buffer and any
\* sequence of writes, ioctls and reads.
THEOREM ReadingEndsInside == PortSpec => []ReadsInside
<1>1. PortInit => MessageInv
  BY MessageInit DEF PortInit
<1>2. RefsInv /\ MessageInv /\ [PortNext]_portVars => MessageInv'
  BY MessageStep DEF RefsInv
<1>3. MessageInv => ReadsInside
  <2> SUFFICES ASSUME MessageInv, ~Full PROVE ReadsInside
    BY DEF ReadsInside
  <2>1. Message_Ptr <= BufLen - 1
    BY BufLast, MessageAssumption DEF MessageInv, Buf
  <2> QED
    BY <2>1, BufLast DEF MessageInv, ReadsInside
<1> QED
  BY <1>1, <1>2, <1>3, ImplementsLock, RefsAlways, PTL DEF PortSpec
\* IOCTL_SET_MSG copies the text and its NUL
LEMMA SetMsgCopies ==
  ASSUME MessageInv, NEW t \in Tasks, NEW text \in Texts,
         SetMsg(t, text), text # <<>>, Len(text) < BufLen
  PROVE  Text(Message') = text
<1>1. text \in Seq(Letters) /\ Len(text) \in Nat
  BY TextsAre
<1>2. Least(SetLength(text), BufLen) = Len(text) + 1
  BY <1>1, MessageAssumption DEF SetLength, Least
<1>3. Message' = Copied(Message, text, Len(text) + 1)
  BY <1>2 DEF SetMsg, Put
<1>4. /\ \A i \in Buf : i < Len(text) => Message'[i] = text[i + 1]
      /\ Message'[Len(text)] = 0
  BY <1>1, <1>3, MessageAssumption DEF Copied, Buf
<1>5. \A i \in Buf : i < Len(text) => Message'[i] # 0
  BY <1>1, <1>4, MessageAssumption DEF Buf
<1> DEFINE Ends(n) == /\ \A i \in Buf : i < n => Message'[i] # 0
                      /\ n < BufLen => Message'[n] = 0
<1>6. Len(text) \in 0..BufLen /\ Ends(Len(text))
  BY <1>1, <1>4, <1>5, MessageAssumption
<1>7. ASSUME NEW n \in 0..BufLen, Ends(n) PROVE n = Len(text)
  <2>1. CASE n < Len(text)
    BY <1>1, <1>5, <1>7, <2>1, MessageAssumption DEF Buf
  <2>2. CASE n > Len(text)
    BY <1>1, <1>4, <1>7, <2>2, MessageAssumption DEF Buf
  <2> QED
    BY <1>1, <2>1, <2>2
<1>8. TextLength(Message') = Len(text)
  BY <1>6, <1>7 DEF TextLength
<1>9. \A i \in 1..Len(text) : Message'[i - 1] = text[i]
  BY <1>1, <1>4, MessageAssumption DEF Buf
<1> QED
  BY <1>1, <1>8, <1>9 DEF Text

\* IOCTL_SET_MSG makes the text the device's message, over whatever was there
\* before, although it finds the length by fetching the first character twice.
THEOREM SettingSets == PortSpec => SetMsgSets
<1> DEFINE Sets == \A t \in Tasks, text \in Texts :
                     SetMsg(t, text) /\ text # <<>> /\ Len(text) < BufLen => Text(Message') = text
<1>1. PortInit => MessageInv
  BY MessageInit DEF PortInit
<1>2. RefsInv /\ MessageInv /\ [PortNext]_portVars => MessageInv'
  BY MessageStep DEF RefsInv
<1>3. MessageInv => [Sets]_vars
  BY SetMsgCopies
<1> QED
  BY <1>1, <1>2, <1>3, ImplementsLock, RefsAlways, PTL DEF PortSpec, SetMsgSets

-----------------------------------------------------------------------------
(* The byte of module4 *)

\* One program at a time, which does not share its file
Private == setting.driver = "module4" /\ setting.serial /\ ~setting.forks

\* A task has its file to itself, as long as nobody forks
OwnFile == \A t, u \in Tasks : file[t] # NoFile /\ file[t] = file[u] => t = u

\* A task in module4_write has the device open, and its byte is on the port
Sending ==
  \A t \in Tasks : writing[t] # NoByte => file[t] # NoFile /\ port = writing[t] /\ ~fresh

\* What read would return is right
Recorded ==
  \A t \in Tasks : file[t] # NoFile /\ writing[t] = NoByte => lastbyte = IF fresh THEN 0 ELSE port

ByteInv ==
  /\ writing \in [Tasks -> Bytes \cup {NoByte}]
  /\ Private => OwnFile /\ Sending /\ Recorded

\* One task has the device
LEMMA OneUser ==
  ASSUME CountInv, ByteInv, Private,
         NEW t \in Tasks, NEW u \in Tasks, file[t] # NoFile, file[u] # NoFile
  PROVE  t = u
<1>1. loaded
  BY DEF CountInv, RefsInv, NobodyUnloaded
<1>2. file[t] \in OpenFiles /\ file[u] \in OpenFiles
  BY DEF OpenFiles
<1>3. file[t] = file[u]
  BY <1>1, <1>2 DEF CountInv, Tally, Private
<1> QED
  BY <1>3 DEF ByteInv, OwnFile

\* Where an open ends nobody has the device
LEMMA NoUser ==
  ASSUME CountInv, Private, NEW t \in Tasks, OpenDone(t)
  PROVE  \A u \in Tasks : file[u] = NoFile
<1>1. loaded /\ t \in Between
  BY DEF CountInv, RefsInv, NobodyUnloaded, OpenDone, Between
<1>2. OpenFiles = {}
  BY <1>1 DEF CountInv, Tally, Private
<1> QED
  BY <1>2 DEF OpenFiles

\* Other steps only take files away
LEMMA FilesKept ==
  ASSUME CountInv, Private, OtherStep, NEW t \in Tasks
  PROVE  file'[t] = NoFile \/ file'[t] = file[t]
<1> USE DEF CountInv, RefsInv, LockTypeOK
<1>1. CASE LoadBuffers
  BY <1>1 DEF LoadBuffers, Load
<1>2. ASSUME NEW u \in Tasks, FileOp(u) PROVE file' = file
  BY <1>2 DEF FileOp, Read, GetMsg, Write, SetMsg, lockVars
<1>3. CASE Unload
  BY <1>3 DEF Unload
<1>4. ASSUME NEW u \in Tasks, OpenCall(u) \/ OpenTest(u) \/ OpenLoad(u) \/ OpenStore(u)
      PROVE  file' = file
  BY <1>4 DEF OpenCall, OpenTest, OpenLoad, OpenStore
<1>5. ASSUME NEW u \in Tasks, NEW v \in Tasks, Fork(u, v) PROVE FALSE
  BY <1>5 DEF Fork, Private
<1>6. ASSUME NEW u \in Tasks, Close(u) PROVE file'[t] = NoFile \/ file'[t] = file[t]
  BY <1>6 DEF Close
<1>7. ASSUME NEW u \in Tasks, RelLoad(u) \/ RelStore(u) \/ RelPut(u) PROVE file' = file
  BY <1>7 DEF RelLoad, RelStore, RelPut
<1> QED
  BY <1>1, <1>2, <1>3, <1>4, <1>5, <1>6, <1>7 DEF OtherStep, LockStep

LEMMA ByteStep == CountInv /\ ByteInv /\ [PortNext]_portVars => ByteInv'
<1> SUFFICES ASSUME CountInv, ByteInv, [PortNext]_portVars PROVE ByteInv'
  OBVIOUS
<1>0. LockTypeOK /\ NoByte \notin Bytes /\ writing \in [Tasks -> Bytes \cup {NoByte}]
  BY BytesAssumption DEF CountInv, RefsInv, ByteInv
<1>a. setting' = setting
  BY PortStepLocks, SettingStays
<1>1. writing' \in [Tasks -> Bytes \cup {NoByte}]
  BY <1>0 DEF PortNext, OtherStep, PortOpen, SendByte, RecordByte, Ioctl, portVars
<1>2. SUFFICES ASSUME Private PROVE OwnFile' /\ Sending' /\ Recorded'
  BY <1>1, <1>2, <1>a DEF ByteInv, Private
<1>3. OwnFile /\ Sending /\ Recorded
  BY <1>2 DEF ByteInv
<1> USE DEF LockTypeOK, OwnFile, Sending, Recorded
<1>4. CASE OtherStep
  <2>1. \A t \in Tasks : file'[t] = NoFile \/ file'[t] = file[t]
    BY <1>2, <1>4, FilesKept
  <2>2. /\ writing' = writing /\ port' = port /\ fresh' = fresh /\ lastbyte' = lastbyte
        /\ \A t \in Tasks : writing[t] # NoByte => file'[t] = file[t]
    BY <1>4 DEF OtherStep
  <2> QED
    BY <1>0, <1>3, <2>1, <2>2
<1>5. ASSUME NEW t \in Tasks, PortOpen(t) PROVE OwnFile' /\ Sending' /\ Recorded'
  <2>1. \A u \in Tasks : file[u] = NoFile
    BY <1>2, <1>5, NoUser DEF PortOpen, Open
  <2>2. PICK f \in Tasks : file' = [file EXCEPT ![t] = f]
    BY <1>5 DEF PortOpen, Open, OpenDone
  <2>3. lastbyte' = 0 /\ fresh' = TRUE /\ writing' = writing
    BY <1>2, <1>5 DEF PortOpen, Cleared, PortDrivers, Private
  <2>4. \A u \in Tasks : writing[u] = NoByte
    BY <1>3, <2>1
  <2> QED
    BY <1>0, <2>1, <2>2, <2>3, <2>4, TasksAssumption
<1>6. ASSUME NEW t \in Tasks, NEW ch \in Bytes, SendByte(t, ch)
      PROVE  OwnFile' /\ Sending' /\ Recorded'
  <2>1. \A u \in Tasks : file[u] # NoFile => u = t
    BY <1>2, <1>6, OneUser DEF SendByte, Inside
  <2>2. /\ port' = ch /\ fresh' = FALSE /\ writing' = [writing EXCEPT ![t] = ch]
        /\ lastbyte' = lastbyte /\ file' = file /\ file[t] # NoFile
    BY <1>6 DEF SendByte, outb, Inside, vars, lockVars
  <2> QED
    BY <1>0, <1>3, <2>1, <2>2
<1>7. ASSUME NEW t \in Tasks, RecordByte(t) PROVE OwnFile' /\ Sending' /\ Recorded'
  <2>1. \A u \in Tasks : file[u] # NoFile => u = t
    BY <1>2, <1>3, <1>7, OneUser DEF RecordByte
  <2>2. /\ lastbyte' = writing[t] /\ writing' = [writing EXCEPT ![t] = NoByte]
        /\ port' = port /\ fresh' = fresh /\ file' = file
    BY <1>7 DEF RecordByte, vars, lockVars
  <2>3. port = writing[t] /\ ~fresh
    BY <1>3, <1>7 DEF RecordByte
  <2> QED
    BY <1>0, <1>3, <2>1, <2>2, <2>3
<1>8. ASSUME NEW t \in Tasks, Ioctl(t) PROVE FALSE
  BY <1>2, <1>8 DEF Ioctl, Inside, Private
<1>9. CASE UNCHANGED portVars
  BY <1>3, <1>9 DEF portVars, vars, lockVars
<1> QED
  BY <1>4, <1>5, <1>6, <1>7, <1>8, <1>9 DEF PortNext

\* What module4_read returns to a program that has the device to itself is the
\* byte it sent last, and 0 before: nothing of the last user's shows.
THEOREM OwnByteRead == PortSpec => []ReadsOwnByte
<1>1. PortInit => ByteInv
  <2> SUFFICES ASSUME PortInit PROVE ByteInv
    OBVIOUS
  <2>1. /\ writing \in [Tasks -> Bytes \cup {NoByte}]
        /\ \A t \in Tasks : file[t] = NoFile /\ writing[t] = NoByte
    BY DEF PortInit, Init, LockInit
  <2> QED
    BY <2>1 DEF ByteInv, OwnFile, Sending, Recorded
<1>2. ByteInv => ReadsOwnByte
  BY DEF ByteInv, Private, Recorded, ReadsOwnByte
<1> QED
  BY <1>1, <1>2, ByteStep, ImplementsLock, CountAlways, PTL DEF PortSpec
=============================================================================
