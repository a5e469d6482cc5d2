------------------------------ MODULE SleepOpen ------------------------------
(***************************************************************************)
(* The /proc/sleep file of lkm5/sleep.c: one process at a time has it open,*)
(* the others wait in WaitQ, may be interrupted by signals, and every one  *)
(* inside holds a reference to the module.  module_open, module_close and  *)
(* wait_event_interruptible are split where another process can run.       *)
(*                                                                         *)
(* Preempt says whether the kernel can run two processes' kernel code      *)
(* interleaved (SMP or a preemptible kernel).  Without it a process keeps  *)
(* the processor until it sleeps or returns to user mode.                  *)
(*                                                                         *)
(* Signals a process can get: a "fatal" one, which the kernel also queues  *)
(* to the thread itself as SIGKILL, and a "shared" one, with a handler or  *)
(* stopping the process, which it queues to the process only.              *)
(***************************************************************************)
EXTENDS Integers, FiniteSets

CONSTANTS Procs, Preempt, Signals,
          ReadsToEnd, \* programs read until the end of file before they close
          Nobody      \* the processor is not held by kernel code

ASSUME ProcsAssumption ==
  /\ IsFiniteSet(Procs)
  /\ Preempt \in BOOLEAN /\ ReadsToEnd \in BOOLEAN
  /\ Signals \subseteq {"fatal", "shared"}
  /\ Nobody \notin Procs

VARIABLES pc,            \* where each process is
          nonblock,      \* Procs -> it opens with O_NONBLOCK
          pending,       \* Procs -> the signal it has to act on, or "none"
          Already_Open,
          refs,          \* references taken with try_module_get
          loaded,
          finished,      \* module_output's static
          heard,         \* processes that have read the message since they opened
          cpu            \* without preemption, the process that keeps the processor

vars == <<pc, nonblock, pending, Already_Open, refs, loaded, finished, heard, cpu>>

\* Lines of module_open, then of module_close
Opening == {"get", "test", "wait", "prepare", "queued", "woken", "asleep", "signals", "set"}
Closing == {"wake", "put"}
Places  == {"out", "open"} \cup Opening \cup Closing

\* In user mode or asleep: another process can run in any kernel
Resting == {"out", "open", "asleep"}

Runs(p) == cpu \in {p, Nobody}

Occupy(p, place) == cpu' = IF Preempt \/ place \in Resting THEN Nobody ELSE p

Goto(p, place) == pc' = [pc EXCEPT ![p] = place] /\ Occupy(p, place)

Quiet == UNCHANGED <<nonblock, pending, Already_Open, refs, loaded, finished, heard>>

-----------------------------------------------------------------------------
Init ==
  /\ pc = [p \in Procs |-> "out"]
  /\ nonblock = [p \in Procs |-> FALSE]
  /\ pending = [p \in Procs |-> "none"]
  /\ Already_Open = 0
  /\ refs = 0
  /\ loaded = FALSE
  /\ finished = 0
  /\ heard = {}
  /\ cpu = Nobody

\* Variant: finished starts set
LoadFinished ==
  /\ ~loaded
  /\ loaded' = TRUE
  /\ Already_Open' = 0 /\ finished' = 1
  /\ UNCHANGED <<pc, nonblock, pending, refs, heard, cpu>>

\* init_module: the statics start from zero
Load ==
  /\ ~loaded
  /\ loaded' = TRUE
  /\ Already_Open' = 0 /\ finished' = 0
  /\ UNCHANGED <<pc, nonblock, pending, refs, heard, cpu>>

\* rmmod and cleanup_module: no references, neither the module's own nor those
\* the proc file system takes while a process has the file looked up
Unload ==
  /\ loaded
  /\ refs = 0 /\ \A p \in Procs : pc[p] = "out"
  /\ loaded' = FALSE
  /\ UNCHANGED <<pc, nonblock, pending, Already_Open, refs, finished, heard, cpu>>

-----------------------------------------------------------------------------
(* module_open *)

\* The O_NONBLOCK test: -EAGAIN leaves the process where it was
Enter(p, nb) ==
  /\ loaded /\ pc[p] = "out"
  /\ Runs(p)
  /\ ~(nb /\ Already_Open = 1)
  /\ Goto(p, "get")
  /\ nonblock' = [nonblock EXCEPT ![p] = nb]
  /\ heard' = heard \ {p}
  /\ UNCHANGED <<pending, Already_Open, refs, loaded, finished>>

Get(p) ==
  /\ pc[p] = "get"
  /\ Runs(p)
  /\ refs' = refs + 1
  /\ Goto(p, "test")
  /\ UNCHANGED <<nonblock, pending, Already_Open, loaded, finished, heard>>

\* Variant: if (Already_Open) once, as after a wait that cannot be in vain
CheckSignalsOnce(p) ==
  /\ pc[p] = "signals"
  /\ Runs(p)
  /\ IF pending[p] = "fatal"
       THEN /\ Goto(p, "out")
            /\ refs' = refs - 1
            /\ pending' = [pending EXCEPT ![p] = "none"]
       ELSE Goto(p, "set") /\ UNCHANGED <<refs, pending>>
  /\ UNCHANGED <<nonblock, Already_Open, loaded, finished, heard>>

\* while (Already_Open)
Test(p) ==
  /\ pc[p] = "test"
  /\ Runs(p)
  /\ Goto(p, IF Already_Open = 0 THEN "set" ELSE "wait")
  /\ Quiet

\* wait_event_interruptible tests the condition before it queues
Wait(p) ==
  /\ pc[p] = "wait"
  /\ Runs(p)
  /\ Goto(p, IF Already_Open = 0 THEN "signals" ELSE "prepare")
  /\ Quiet

\* prepare_to_wait
Prepare(p) ==
  /\ pc[p] = "prepare"
  /\ Runs(p)
  /\ Goto(p, "queued")
  /\ Quiet

\* Variant: the condition is tested before the process queues, not after
SleepUnchecked(p) ==
  /\ pc[p] \in {"queued", "woken"}
  /\ Runs(p)
  /\ Goto(p, IF pending[p] # "none" THEN "signals"
             ELSE IF pc[p] = "woken" THEN "prepare" ELSE "asleep")
  /\ Quiet

\* The condition, then signal_pending, then schedule; schedule comes back at
\* once to a process that was woken after it queued
Sleep(p) ==
  /\ pc[p] \in {"queued", "woken"}
  /\ Runs(p)
  /\ Goto(p, IF Already_Open = 0 \/ pending[p] # "none" THEN "signals"
             ELSE IF pc[p] = "woken" THEN "prepare" ELSE "asleep")
  /\ Quiet

\* Variant: the interrupted open forgets module_put
CheckSignalsKeeping(p) ==
  /\ pc[p] = "signals"
  /\ Runs(p)
  /\ IF pending[p] = "fatal"
       THEN Goto(p, "out") /\ pending' = [pending EXCEPT ![p] = "none"]
       ELSE Goto(p, "test") /\ UNCHANGED pending
  /\ UNCHANGED <<nonblock, Already_Open, refs, loaded, finished, heard>>

\* Variant: the loop does not look at signals
CheckSignalsNever(p) ==
  /\ pc[p] = "signals"
  /\ Runs(p)
  /\ Goto(p, "test")
  /\ Quiet

\* is_sig looks at what is queued to the thread: -EINTR, or the loop again
CheckSignals(p) ==
  /\ pc[p] = "signals"
  /\ Runs(p)
  /\ IF pending[p] = "fatal"
       THEN /\ Goto(p, "out")
            /\ refs' = refs - 1
            /\ pending' = [pending EXCEPT ![p] = "none"]
       ELSE Goto(p, "test") /\ UNCHANGED <<refs, pending>>
  /\ UNCHANGED <<nonblock, Already_Open, loaded, finished, heard>>

\* Already_Open = 1; back in user mode the process runs a handler
SetOpen(p) ==
  /\ pc[p] = "set"
  /\ Runs(p)
  /\ Already_Open' = 1
  /\ Goto(p, "open")
  /\ pending' = [pending EXCEPT ![p] = IF @ = "shared" THEN "none" ELSE @]
  /\ UNCHANGED <<nonblock, refs, loaded, finished, heard>>

-----------------------------------------------------------------------------
(* module_output and module_close *)

\* module_output: the message, then an end of file, whoever reads
Read(p) ==
  /\ pc[p] = "open" /\ pending[p] # "fatal"
  /\ Runs(p)
  /\ finished' = 1 - finished
  /\ heard' = IF finished = 0 THEN heard \cup {p} ELSE heard
  /\ UNCHANGED <<pc, nonblock, pending, Already_Open, refs, loaded, cpu>>

\* Variant: the flag is left alone
CloseLeavingFlag(p) ==
  /\ pc[p] = "open"
  /\ Runs(p)
  /\ ReadsToEnd /\ p \in heard => finished = 0
  /\ Goto(p, "wake")
  /\ Quiet

Close(p) ==
  /\ pc[p] = "open"
  /\ Runs(p)
  /\ ReadsToEnd /\ p \in heard => finished = 0
  /\ Already_Open' = 0
  /\ Goto(p, "wake")
  /\ UNCHANGED <<nonblock, pending, refs, loaded, finished, heard>>

\* What wake_up does to a waiter
Woken(place) ==
  CASE place = "asleep" -> "prepare"
    [] place = "queued" -> "woken"
    [] OTHER -> place

\* Variant: wake_up is left out
WakeNobody(p) ==
  /\ pc[p] = "wake"
  /\ Runs(p)
  /\ Goto(p, "put")
  /\ Quiet

\* wake_up(&WaitQ): every waiter
Wake(p) ==
  /\ pc[p] = "wake"
  /\ Runs(p)
  /\ pc' = [q \in Procs |-> IF q = p THEN "put" ELSE Woken(pc[q])]
  /\ Occupy(p, "put")
  /\ Quiet

\* module_put; a process that was being killed is gone
Put(p) ==
  /\ pc[p] = "put"
  /\ Runs(p)
  /\ refs' = refs - 1
  /\ Goto(p, "out")
  /\ pending' = [pending EXCEPT ![p] = "none"]
  /\ UNCHANGED <<nonblock, Already_Open, loaded, finished, heard>>

\* A signal arrives during module_open and wakes a sleeper; one that arrives in
\* user mode is acted on there and changes nothing here
Signal(p, sig) ==
  /\ pc[p] \in Opening /\ pending[p] \notin {"fatal", sig}
  /\ pending' = [pending EXCEPT ![p] = sig]
  /\ pc' = [pc EXCEPT ![p] = Woken(@)]
  /\ UNCHANGED <<nonblock, Already_Open, refs, loaded, finished, heard, cpu>>

-----------------------------------------------------------------------------
OpenStep(p) ==
  Get(p) \/ Test(p) \/ Wait(p) \/ Prepare(p) \/ Sleep(p) \/ CheckSignals(p) \/ SetOpen(p)

CloseStep(p) == Wake(p) \/ Put(p)

Next ==
  \/ Load
  \/ Unload
  \/ \E p \in Procs :
       \/ \E nb \in BOOLEAN : Enter(p, nb)
       \/ OpenStep(p)
       \/ Read(p)
       \/ Close(p)
       \/ CloseStep(p)
       \/ \E sig \in Signals : Signal(p, sig)

Spec == Init /\ [][Next]_vars

\* A process in the kernel goes on, and one that was killed closes its files;
\* no other process has to close, nor any to open
FairSpec ==
  Spec /\ \A p \in Procs : /\ WF_vars(OpenStep(p))
                           /\ WF_vars(CloseStep(p))
                           /\ WF_vars(pending[p] = "fatal" /\ Close(p))

-----------------------------------------------------------------------------
Holders == {p \in Procs : pc[p] = "open"}

\* Processes that hold a reference to the module
Counted == {p \in Procs : pc[p] \notin {"out", "get"}}

TypeOK ==
  /\ pc \in [Procs -> Places]
  /\ nonblock \in [Procs -> BOOLEAN]
  /\ pending \in [Procs -> {"none", "fatal", "shared"}]
  /\ Already_Open \in 0..1 /\ finished \in 0..1
  /\ refs \in Int
  /\ loaded \in BOOLEAN
  /\ heard \in SUBSET Procs
  /\ cpu \in Procs \cup {Nobody}

\* try_module_get and module_put balance on every path, -EINTR included: the
\* module never becomes immortal, and never loses a reference someone counts on
RefsExact == refs = Cardinality(Counted)

\* The flag is never left set with the file closed: nobody is refused, or put to
\* sleep, for ever
FlagHasHolder == Already_Open = 1 => Holders # {}

\* Nobody sleeps through a close: while a process sleeps the file is open, or
\* the one that closed it is on its way to wake_up
NoLostWakeup ==
  \A p \in Procs : pc[p] = "asleep" => Already_Open = 1 \/ \E q \in Procs : pc[q] = "wake"

\* module_open lets one process in at a time
OneHolder == \A p, q \in Holders : p = q

\* "If we got here, Already_Open must be zero"
ZeroAtSet == \A p \in Procs : pc[p] = "set" => Already_Open = 0

\* module_output returns 0, "that we have nothing more to say", only to a
\* process that has heard the message
EndAfterMessage ==
  [][\A p \in Procs : Read(p) /\ finished = 1 => p \in heard]_vars

\* A process that is killed gets out of module_open and of the module
KilledLeaves == \A p \in Procs : pending[p] = "fatal" ~> pc[p] = "out"

\* A signal the process does not block fails the system call, which "allows
\* processes to be killed or stopped"
SignalsInterrupt == \A p \in Procs : pending[p] # "none" ~> pending[p] = "none"

\* A process that waits, once nobody else is inside, gets the file
LeftAloneGetsIn ==
  \A p \in Procs :
    <>[](\A q \in Procs \ {p} : pc[q] = "out") => (pc[p] \in Opening ~> pc[p] \notin Opening)
=============================================================================
