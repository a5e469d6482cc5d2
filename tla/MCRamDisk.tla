----------------------------- MODULE MCRamDisk -----------------------------
(***************************************************************************)
(* Model-checking instance of RamDisk: requests of one and two sectors, in *)
(* one segment and several, and with segments that end inside a sector.    *)
(***************************************************************************)
EXTENDS RamDisk

Segments == {<<2>>, <<4>>, <<2, 2>>, <<1, 1>>, <<2, 1, 1>>}
=============================================================================
