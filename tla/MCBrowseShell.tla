--------------------------- MODULE MCBrowseShell ---------------------------
(***************************************************************************)
(* Model-checking instance of BrowseShell: names of at most 15 characters, *)
(* permissions with and without the write bit, and the symmetry.           *)
(***************************************************************************)
EXTENDS BrowseShell, TLC

StoredWhole == [n \in Names |-> n]
RwOrR       == {{"r", "w"}, {"r"}}

Interchangeable == Permutations(Names) \cup Permutations(Texts)
=============================================================================
