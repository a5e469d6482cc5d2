----------------------------- MODULE MCSfsRace -----------------------------
(***************************************************************************)
(* Model-checking instance of SfsRace: names of at most 15 characters and  *)
(* the symmetry.                                                           *)
(***************************************************************************)
EXTENDS SfsRace, TLC

StoredWhole == [n \in Names |-> n]

\* A disk that lags behind costs states, and so does a listing: there, files of
\* one block
LongestFiles == [io |-> 2, crash |-> 1, list |-> 1]

\* After these nothing is claimed any more
Clean == ~overlap /\ ~lost

Interchangeable == Permutations(Names) \cup Permutations(Tasks)
=============================================================================
