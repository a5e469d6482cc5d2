------------------------------ MODULE MCRealSfs ------------------------------
(***************************************************************************)
(* Model-checking instance of RealSfs: the constants that a .cfg cannot    *)
(* write, and the symmetry.                                                *)
(***************************************************************************)
EXTENDS RealSfs, TLC

\* One name has 15 characters, the others extend it; or every name is kept whole
CONSTANT Prefix
StoredNames == [n \in Names |-> IF Prefix \in Names THEN Prefix ELSE n]

Interchangeable == Permutations(Objs) \cup Permutations(Names)
=============================================================================
