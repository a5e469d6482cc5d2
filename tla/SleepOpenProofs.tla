--------------------------- MODULE SleepOpenProofs ---------------------------
(***************************************************************************)
(* Theorems about SleepOpen for any number of processes, proved with       *)
(* TLAPS.                                                                  *)
(***************************************************************************)
EXTENDS SleepOpen, FiniteSetTheorems, TLAPS

\* Nobody is in the module while it is not loaded
AllOutUnloaded == ~loaded => \A p \in Procs : pc[p] = "out"

\* The inductive invariant: the runs' invariants and AllOutUnloaded
Inv ==
  /\ TypeOK
  /\ AllOutUnloaded
  /\ RefsExact
  /\ FlagHasHolder
  /\ NoLostWakeup

\* wake_up and signals move waiters about within module_open
LEMMA WokenPlace ==
  ASSUME NEW place \in Places
  PROVE  /\ Woken(place) \in Places
         /\ Woken(place) # "asleep"
         /\ place \in Opening => Woken(place) \in Opening
         /\ place \notin {"asleep", "queued"} => Woken(place) = place
         /\ place \in {"asleep", "queued"} => Woken(place) \in {"prepare", "woken"}
BY DEF Woken, Places, Opening, Closing

\* Types, at first
LEMMA TypeInit == Init => TypeOK
<1> SUFFICES ASSUME Init PROVE TypeOK
  OBVIOUS
<1>1. "out" \in Places
  BY DEF Places
<1>2. pc \in [Procs -> Places] /\ nonblock \in [Procs -> BOOLEAN]
  BY <1>1 DEF Init
<1>3. pending \in [Procs -> {"none", "fatal", "shared"}]
  BY DEF Init
<1>4. Already_Open \in 0..1 /\ finished \in 0..1 /\ refs \in Int
  BY DEF Init
<1>5. loaded \in BOOLEAN /\ heard \in SUBSET Procs /\ cpu \in Procs \cup {Nobody}
  BY DEF Init
<1> QED
  BY <1>2, <1>3, <1>4, <1>5 DEF TypeOK

\* Types, on every step
LEMMA TypeStep == TypeOK /\ [Next]_vars => TypeOK'
<1> SUFFICES ASSUME TypeOK, [Next]_vars PROVE TypeOK'
  OBVIOUS
<1> USE DEF TypeOK, Goto, Occupy, Places, Opening, Closing
<1>1. CASE Load
  BY <1>1 DEF Load
<1>2. CASE Unload
  BY <1>2 DEF Unload
<1>3. ASSUME NEW p \in Procs, NEW nb \in BOOLEAN, Enter(p, nb) PROVE TypeOK'
  BY <1>3 DEF Enter
<1>4. ASSUME NEW p \in Procs, Get(p) PROVE TypeOK'
  BY <1>4 DEF Get
<1>5. ASSUME NEW p \in Procs, Test(p) PROVE TypeOK'
  BY <1>5 DEF Test, Quiet
<1>6. ASSUME NEW p \in Procs, Wait(p) PROVE TypeOK'
  BY <1>6 DEF Wait, Quiet
<1>7. ASSUME NEW p \in Procs, Prepare(p) PROVE TypeOK'
  BY <1>7 DEF Prepare, Quiet
<1>8. ASSUME NEW p \in Procs, Sleep(p) PROVE TypeOK'
  BY <1>8 DEF Sleep, Quiet
<1>9. ASSUME NEW p \in Procs, CheckSignals(p) PROVE TypeOK'
  BY <1>9 DEF CheckSignals
<1>10. ASSUME NEW p \in Procs, SetOpen(p) PROVE TypeOK'
  BY <1>10 DEF SetOpen
<1>11. ASSUME NEW p \in Procs, Read(p) PROVE TypeOK'
  BY <1>11 DEF Read
<1>12. ASSUME NEW p \in Procs, Close(p) PROVE TypeOK'
  BY <1>12 DEF Close
<1>13. ASSUME NEW p \in Procs, Wake(p) PROVE TypeOK'
  BY <1>13, WokenPlace DEF Wake, Quiet
<1>14. ASSUME NEW p \in Procs, Put(p) PROVE TypeOK'
  BY <1>14 DEF Put
<1>15. ASSUME NEW p \in Procs, NEW sig \in Signals, Signal(p, sig) PROVE TypeOK'
  BY <1>15, WokenPlace, ProcsAssumption DEF Signal
<1>16. CASE UNCHANGED vars
  BY <1>16 DEF vars
<1> QED
  BY <1>1, <1>2, <1>3, <1>4, <1>5, <1>6, <1>7, <1>8, <1>9, <1>10, <1>11, <1>12, <1>13, <1>14,
     <1>15, <1>16 DEF Next, OpenStep, CloseStep

\* Only Enter, which needs the module loaded, takes a process in
LEMMA UnloadedStep == Inv /\ [Next]_vars => AllOutUnloaded'
<1> SUFFICES ASSUME Inv, [Next]_vars PROVE AllOutUnloaded'
  OBVIOUS
<1>1. \A p \in Procs : pc[p] \in Places
  BY DEF Inv, TypeOK
<1> USE DEF Inv, TypeOK, AllOutUnloaded
<1>2. CASE Load \/ Unload
  BY <1>2 DEF Load, Unload
<1>3. ASSUME NEW p \in Procs, NEW nb \in BOOLEAN, Enter(p, nb) PROVE AllOutUnloaded'
  BY <1>3 DEF Enter
<1>4. ASSUME NEW p \in Procs, OpenStep(p) \/ CloseStep(p) \/ Read(p) \/ Close(p)
      PROVE  AllOutUnloaded'
  <2>1. loaded' = loaded /\ pc[p] # "out"
    BY <1>4 DEF OpenStep, CloseStep, Get, Test, Wait, Prepare, Sleep, CheckSignals, SetOpen,
       Read, Close, Wake, Put, Quiet
  <2> QED
    BY <2>1
<1>5. ASSUME NEW p \in Procs, NEW sig \in Signals, Signal(p, sig) PROVE AllOutUnloaded'
  BY <1>5 DEF Signal, Opening
<1>6. CASE UNCHANGED vars
  BY <1>6 DEF vars
<1> QED
  BY <1>2, <1>3, <1>4, <1>5, <1>6 DEF Next

\* What a step does to the set of processes that hold a reference
LEMMA CountedSteps ==
  ASSUME Inv, NEW p \in Procs
  PROVE  /\ Get(p) => p \notin Counted /\ Counted' = Counted \cup {p}
         /\ Put(p) => p \in Counted /\ Counted' = Counted \ {p}
         /\ CheckSignals(p) /\ pending[p] = "fatal" => p \in Counted /\ Counted' = Counted \ {p}
         /\ CheckSignals(p) /\ pending[p] # "fatal" => Counted' = Counted
         /\ Test(p) \/ Wait(p) \/ Prepare(p) \/ Sleep(p) \/ SetOpen(p) \/ Read(p) \/ Close(p)
              => Counted' = Counted
<1> USE DEF Inv, TypeOK, Counted, Goto
<1>1. Get(p) => p \notin Counted /\ Counted' = Counted \cup {p}
  BY DEF Get
<1>2. Put(p) => p \in Counted /\ Counted' = Counted \ {p}
  BY DEF Put
<1>3. /\ CheckSignals(p) /\ pending[p] = "fatal" => p \in Counted /\ Counted' = Counted \ {p}
      /\ CheckSignals(p) /\ pending[p] # "fatal" => Counted' = Counted
  BY DEF CheckSignals
<1>4. Test(p) \/ Wait(p) \/ Prepare(p) \/ Sleep(p) \/ SetOpen(p) => Counted' = Counted
  BY DEF Test, Wait, Prepare, Sleep, SetOpen
<1>5. Read(p) \/ Close(p) => Counted' = Counted
  BY DEF Read, Close
<1> QED
  BY <1>1, <1>2, <1>3, <1>4, <1>5

\* try_module_get and module_put balance on every step
LEMMA RefsStep == Inv /\ [Next]_vars => RefsExact'
<1> SUFFICES ASSUME Inv, [Next]_vars PROVE RefsExact'
  OBVIOUS
<1>1. IsFiniteSet(Counted) /\ Cardinality(Counted) \in Nat /\ refs = Cardinality(Counted)
  BY ProcsAssumption, FS_Subset, FS_CardinalityType DEF Counted, Inv, RefsExact
<1>2. ASSUME NEW p \in Procs, p \notin Counted, Counted' = Counted \cup {p}, refs' = refs + 1
      PROVE  RefsExact'
  BY <1>1, <1>2, FS_AddElement DEF RefsExact
<1>3. ASSUME NEW p \in Procs, p \in Counted, Counted' = Counted \ {p}, refs' = refs - 1
      PROVE  RefsExact'
  BY <1>1, <1>3, FS_RemoveElement DEF RefsExact
<1>4. ASSUME Counted' = Counted, refs' = refs PROVE RefsExact'
  BY <1>1, <1>4 DEF RefsExact
<1>5. CASE Load \/ Unload \/ UNCHANGED vars
  BY <1>4, <1>5 DEF Load, Unload, vars, Counted
<1>6. ASSUME NEW p \in Procs, OpenStep(p) \/ Put(p) \/ Read(p) \/ Close(p) PROVE RefsExact'
  <2>1. CASE Get(p)
    BY <1>2, <2>1, CountedSteps DEF Get
  <2>2. CASE Put(p)
    BY <1>3, <2>2, CountedSteps DEF Put
  <2>3. CASE CheckSignals(p)
    BY <1>3, <1>4, <2>3, CountedSteps DEF CheckSignals
  <2>4. CASE Test(p) \/ Wait(p) \/ Prepare(p) \/ Sleep(p) \/ SetOpen(p) \/ Read(p) \/ Close(p)
    BY <1>4, <2>4, CountedSteps DEF Test, Wait, Prepare, Sleep, SetOpen, Read, Close, Quiet
  <2> QED
    BY <1>6, <2>1, <2>2, <2>3, <2>4 DEF OpenStep
<1>7. ASSUME NEW p \in Procs, NEW nb \in BOOLEAN, Enter(p, nb) PROVE RefsExact'
  <2>1. Counted' = Counted
    BY <1>7 DEF Enter, Goto, Counted, Inv, TypeOK
  <2> QED
    BY <1>4, <1>7, <2>1 DEF Enter
<1>8. ASSUME NEW p \in Procs, Wake(p) PROVE RefsExact'
  <2>1. \A q \in Procs : Woken(pc[q]) \in {"out", "get"} <=> pc[q] \in {"out", "get"}
    BY WokenPlace DEF Inv, TypeOK, Woken
  <2>2. Counted' = Counted
    BY <1>8, <2>1 DEF Wake, Counted, Inv, TypeOK
  <2> QED
    BY <1>4, <1>8, <2>2 DEF Wake, Quiet
<1>9. ASSUME NEW p \in Procs, NEW sig \in Signals, Signal(p, sig) PROVE RefsExact'
  <2>1. Woken(pc[p]) \in {"out", "get"} <=> pc[p] \in {"out", "get"}
    BY WokenPlace DEF Inv, TypeOK, Woken
  <2>2. Counted' = Counted
    BY <1>9, <2>1 DEF Signal, Counted, Inv, TypeOK
  <2> QED
    BY <1>4, <1>9, <2>2 DEF Signal
<1> QED
  BY <1>5, <1>6, <1>7, <1>8, <1>9 DEF Next, CloseStep
\* Only its closer takes the last holder away, and clears the flag as it does
LEMMA FlagStep == Inv /\ [Next]_vars => FlagHasHolder'
<1> SUFFICES ASSUME Inv, [Next]_vars, Already_Open' = 1 PROVE \E h \in Procs : pc'[h] = "open"
  BY DEF FlagHasHolder, Holders
<1> USE DEF Inv, TypeOK, FlagHasHolder, Holders
<1>1. CASE Load \/ Unload \/ UNCHANGED vars
  BY <1>1 DEF Load, Unload, vars
<1>2. ASSUME NEW p \in Procs, SetOpen(p) PROVE pc'[p] = "open"
  BY <1>2 DEF SetOpen, Goto
<1>3. ASSUME NEW p \in Procs, Close(p) PROVE FALSE
  BY <1>3 DEF Close
<1>4. ASSUME Already_Open' = Already_Open,
             \A q \in Procs : pc[q] = "open" => pc'[q] = "open"
      PROVE  \E h \in Procs : pc'[h] = "open"
  BY <1>4
<1>5. ASSUME NEW p \in Procs, NEW nb \in BOOLEAN, Enter(p, nb)
      PROVE  \E h \in Procs : pc'[h] = "open"
  BY <1>4, <1>5 DEF Enter, Goto
<1>6. ASSUME NEW p \in Procs,
             Get(p) \/ Test(p) \/ Wait(p) \/ Prepare(p) \/ Sleep(p) \/ CheckSignals(p) \/ Put(p) \/ Read(p)
      PROVE  \E h \in Procs : pc'[h] = "open"
  BY <1>4, <1>6 DEF Get, Test, Wait, Prepare, Sleep, CheckSignals, Put, Read, Goto, Quiet
<1>7. ASSUME NEW p \in Procs, Wake(p) PROVE \E h \in Procs : pc'[h] = "open"
  BY <1>4, <1>7 DEF Wake, Woken, Quiet
<1>8. ASSUME NEW p \in Procs, NEW sig \in Signals, Signal(p, sig)
      PROVE  \E h \in Procs : pc'[h] = "open"
  BY <1>4, <1>8 DEF Signal, Woken
<1> QED
  BY <1>1, <1>2, <1>3, <1>5, <1>6, <1>7, <1>8 DEF Next, OpenStep, CloseStep

\* A process goes to sleep only on a set flag, and whoever clears the flag goes
\* on to wake_up, which leaves nobody asleep
LEMMA WakeupStep == Inv /\ [Next]_vars => NoLostWakeup'
<1> SUFFICES ASSUME Inv, [Next]_vars, NEW s \in Procs, pc'[s] = "asleep"
             PROVE  Already_Open' = 1 \/ \E q \in Procs : pc'[q] = "wake"
  BY DEF NoLostWakeup
<1> USE DEF Inv, TypeOK, NoLostWakeup
<1>1. CASE Load \/ Unload \/ UNCHANGED vars
  BY <1>1 DEF Load, Unload, vars, AllOutUnloaded
<1>2. ASSUME NEW p \in Procs, SetOpen(p) PROVE Already_Open' = 1
  BY <1>2 DEF SetOpen
<1>3. ASSUME NEW p \in Procs, Close(p) PROVE pc'[p] = "wake"
  BY <1>3 DEF Close, Goto
<1>4. ASSUME Already_Open' = Already_Open, pc[s] = "asleep" \/ Already_Open = 1,
             \A q \in Procs : pc[q] = "wake" => pc'[q] = "wake"
      PROVE  Already_Open' = 1 \/ \E q \in Procs : pc'[q] = "wake"
  BY <1>4
<1>5. ASSUME NEW p \in Procs, NEW nb \in BOOLEAN, Enter(p, nb)
      PROVE  Already_Open' = 1 \/ \E q \in Procs : pc'[q] = "wake"
  BY <1>4, <1>5 DEF Enter, Goto
<1>6. ASSUME NEW p \in Procs,
             Get(p) \/ Test(p) \/ Wait(p) \/ Prepare(p) \/ CheckSignals(p) \/ Put(p) \/ Read(p)
      PROVE  Already_Open' = 1 \/ \E q \in Procs : pc'[q] = "wake"
  BY <1>4, <1>6 DEF Get, Test, Wait, Prepare, CheckSignals, Put, Read, Goto, Quiet
<1>7. ASSUME NEW p \in Procs, Sleep(p)
      PROVE  Already_Open' = 1 \/ \E q \in Procs : pc'[q] = "wake"
  BY <1>4, <1>7 DEF Sleep, Goto, Quiet
<1>8. ASSUME NEW p \in Procs, Wake(p) PROVE FALSE
  BY <1>8, WokenPlace DEF Wake
<1>9. ASSUME NEW p \in Procs, NEW sig \in Signals, Signal(p, sig)
      PROVE  Already_Open' = 1 \/ \E q \in Procs : pc'[q] = "wake"
  <2>1. pc[s] = "asleep" /\ \A q \in Procs : pc[q] = "wake" => pc'[q] = "wake"
    BY <1>9, WokenPlace DEF Signal, Woken
  <2> QED
    BY <1>4, <1>9, <2>1 DEF Signal
<1> QED
  BY <1>1, <1>2, <1>3, <1>5, <1>6, <1>7, <1>8, <1>9 DEF Next, OpenStep, CloseStep

\* The inductive invariant holds throughout
LEMMA Invariance == Spec => []Inv
<1>1. Init => Inv
  <2> SUFFICES ASSUME Init PROVE Inv
    OBVIOUS
  <2>1. Counted = {}
    BY DEF Init, Counted
  <2> QED
    BY <2>1, TypeInit, FS_EmptySet DEF Init, Inv, AllOutUnloaded, RefsExact, FlagHasHolder,
       NoLostWakeup
<1>2. Inv /\ [Next]_vars => Inv'
  BY TypeStep, UnloadedStep, RefsStep, FlagStep, WakeupStep DEF Inv
<1> QED
  BY <1>1, <1>2, PTL DEF Spec

\* The module's use count is the number of processes that module_open let past
\* try_module_get and that have not reached module_put, whatever interleaves
THEOREM RefsAlwaysExact == Spec => [](TypeOK /\ RefsExact)
BY Invariance, PTL DEF Inv

\* Already_Open never stays set with the file closed, whatever interleaves
THEOREM FlagNeverStuck == Spec => []FlagHasHolder
BY Invariance, PTL DEF Inv

\* No close leaves a process asleep in WaitQ that nobody is about to wake
THEOREM WakeupsNotLost == Spec => []NoLostWakeup
BY Invariance, PTL DEF Inv

-----------------------------------------------------------------------------
(* Without preemption *)

\* From the loop's last test to the assignment a process keeps the processor,
\* and the flag stays as the test saw it
UniInv ==
  /\ TypeOK
  /\ \A p \in Procs : pc[p] = "set" => cpu = p /\ Already_Open = 0
  /\ \A p \in Procs : pc[p] = "open" => Already_Open = 1
  /\ \A p, q \in Procs : pc[p] = "open" /\ pc[q] = "open" => p = q
  /\ ~loaded => \A p \in Procs : pc[p] = "out"

\* They stay so on every step
LEMMA UniStep == ASSUME ~Preempt, UniInv, [Next]_vars PROVE UniInv'
<1>0. TypeOK'
  BY TypeStep DEF UniInv
<1> USE DEF UniInv, TypeOK, Goto, Occupy, Runs, Resting
<1>1. CASE Load \/ Unload \/ UNCHANGED vars
  BY <1>0, <1>1 DEF Load, Unload, vars
<1>2. ASSUME NEW p \in Procs, NEW nb \in BOOLEAN, Enter(p, nb) PROVE UniInv'
  BY <1>0, <1>2, ProcsAssumption DEF Enter
<1>3. ASSUME NEW p \in Procs, Test(p) PROVE UniInv'
  BY <1>0, <1>3, ProcsAssumption DEF Test, Quiet
<1>4. ASSUME NEW p \in Procs, SetOpen(p) PROVE UniInv'
  BY <1>0, <1>4, ProcsAssumption DEF SetOpen
<1>5. ASSUME NEW p \in Procs, Close(p) PROVE UniInv'
  BY <1>0, <1>5, ProcsAssumption DEF Close
<1>6. ASSUME NEW p \in Procs, Read(p) PROVE UniInv'
  BY <1>0, <1>6 DEF Read
<1>7. ASSUME NEW p \in Procs, Get(p) \/ Wait(p) \/ Prepare(p) \/ Sleep(p) PROVE UniInv'
  BY <1>0, <1>7, ProcsAssumption DEF Get, Wait, Prepare, Sleep, Quiet
<1>8. ASSUME NEW p \in Procs, CheckSignals(p) \/ Put(p) PROVE UniInv'
  BY <1>0, <1>8, ProcsAssumption DEF CheckSignals, Put
<1>9. ASSUME NEW p \in Procs, Wake(p) PROVE UniInv'
  BY <1>0, <1>9, ProcsAssumption DEF Wake, Woken, Quiet
<1>10. ASSUME NEW p \in Procs, NEW sig \in Signals, Signal(p, sig) PROVE UniInv'
  BY <1>0, <1>10 DEF Signal, Woken, Opening
<1> QED
  BY <1>1, <1>2, <1>3, <1>4, <1>5, <1>6, <1>7, <1>8, <1>9, <1>10 DEF Next, OpenStep, CloseStep

LEMMA UniInvariance == ASSUME ~Preempt PROVE Spec => []UniInv
<1>1. Init => UniInv
  BY TypeInit DEF Init, UniInv
<1>2. UniInv /\ [Next]_vars => UniInv'
  BY UniStep
<1> QED
  BY <1>1, <1>2, PTL DEF Spec

\* Where two processes cannot be in the kernel at once module_open is exclusive,
\* and its last comment is true
THEOREM ExclusiveWithoutPreemption ==
  ASSUME ~Preempt
  PROVE  Spec => [](ZeroAtSet /\ OneHolder)
<1>1. UniInv => ZeroAtSet /\ OneHolder
  BY DEF UniInv, ZeroAtSet, OneHolder, Holders
<1> QED
  BY <1>1, UniInvariance, PTL

\* module_output is at its end of file only while the one that has the file open
\* has read the message, so that the next opener starts with the message
EndHeard == finished = 1 => \E p \in Procs : pc[p] = "open" /\ p \in heard

LEMMA EndHeardStep ==
  ASSUME ReadsToEnd, UniInv, EndHeard, [Next]_vars
  PROVE  EndHeard'
<1> SUFFICES ASSUME finished' = 1 PROVE \E h \in Procs : pc'[h] = "open" /\ h \in heard'
  BY DEF EndHeard
<1> USE DEF UniInv, TypeOK, EndHeard
<1>1. CASE Load \/ Unload \/ UNCHANGED vars
  BY <1>1 DEF Load, Unload, vars
<1>2. ASSUME NEW p \in Procs, Read(p) PROVE \E h \in Procs : pc'[h] = "open" /\ h \in heard'
  BY <1>2 DEF Read
<1>3. ASSUME NEW p \in Procs, Close(p) PROVE FALSE
  BY <1>3 DEF Close
<1>4. ASSUME finished' = finished,
             \A q \in Procs : pc[q] = "open" => pc'[q] = "open" /\ (q \in heard => q \in heard')
      PROVE  \E h \in Procs : pc'[h] = "open" /\ h \in heard'
  BY <1>4
<1>5. ASSUME NEW p \in Procs, NEW nb \in BOOLEAN, Enter(p, nb)
      PROVE  \E h \in Procs : pc'[h] = "open" /\ h \in heard'
  BY <1>4, <1>5 DEF Enter, Goto
<1>6. ASSUME NEW p \in Procs, OpenStep(p) \/ Put(p)
      PROVE  \E h \in Procs : pc'[h] = "open" /\ h \in heard'
  BY <1>4, <1>6 DEF OpenStep, Get, Test, Wait, Prepare, Sleep, CheckSignals, SetOpen, Put, Goto, Quiet
<1>7. ASSUME NEW p \in Procs, Wake(p) PROVE \E h \in Procs : pc'[h] = "open" /\ h \in heard'
  BY <1>4, <1>7 DEF Wake, Woken, Quiet
<1>8. ASSUME NEW p \in Procs, NEW sig \in Signals, Signal(p, sig)
      PROVE  \E h \in Procs : pc'[h] = "open" /\ h \in heard'
  BY <1>4, <1>8 DEF Signal, Woken
<1> QED
  BY <1>1, <1>2, <1>3, <1>5, <1>6, <1>7, <1>8 DEF Next, CloseStep

\* Programs that read until the end of file get the message before it, although
\* module_output's static is shared by all: one at a time has the file open
THEOREM MessageComesFirst ==
  ASSUME ~Preempt, ReadsToEnd
  PROVE  Spec => EndAfterMessage
<1>1. Init => EndHeard
  BY DEF Init, EndHeard
<1>2. UniInv /\ EndHeard /\ [Next]_vars => EndHeard'
  BY EndHeardStep
<1>3. UniInv /\ EndHeard => \A p \in Procs : Read(p) /\ finished = 1 => p \in heard
  BY DEF UniInv, EndHeard, Read
<1> QED
  BY <1>1, <1>2, <1>3, UniInvariance, PTL DEF Spec, EndAfterMessage
=============================================================================
