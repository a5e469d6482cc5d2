----------------------------- MODULE MCSleepOpen -----------------------------
(***************************************************************************)
(* Model-checking instance of SleepOpen: the processes are alike.          *)
(***************************************************************************)
EXTENDS SleepOpen, TLC

Alike == Permutations(Procs)
=============================================================================
