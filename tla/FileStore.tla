----------------------------- MODULE FileStore -----------------------------
(***************************************************************************)
(* What a file system promises its programs about names and sizes.  Caches,*)
(* memory reclaim and mounting do not show: only a program that has a file *)
(* open changes its size, and nothing but unmounting ever takes a size     *)
(* back, to the last one that was saved.                                   *)
(***************************************************************************)
CONSTANTS FileNames, Sizes, Fresh, Absent

VARIABLES size,   \* FileNames -> its size, or Absent
          kept,   \* FileNames -> the last size saved, or Absent
          opened  \* the names of open files

Init ==
  /\ size = [n \in FileNames |-> Absent]
  /\ kept = size
  /\ opened = {}

Make(n) ==
  /\ size[n] = Absent
  /\ size' = [size EXCEPT ![n] = Fresh]
  /\ kept' = [kept EXCEPT ![n] = Fresh]
  /\ UNCHANGED opened

Erase(n) ==
  /\ size[n] # Absent /\ n \notin opened
  /\ size' = [size EXCEPT ![n] = Absent]
  /\ kept' = [kept EXCEPT ![n] = Absent]
  /\ UNCHANGED opened

Resize(n) ==
  /\ n \in opened
  /\ \E z \in Sizes : size' = [size EXCEPT ![n] = z]
  /\ UNCHANGED <<kept, opened>>

Save(n) ==
  /\ kept' = [kept EXCEPT ![n] = size[n]]
  /\ UNCHANGED <<size, opened>>

Use(n) ==
  /\ size[n] # Absent /\ n \notin opened
  /\ opened' = opened \cup {n}
  /\ UNCHANGED <<size, kept>>

Leave(n) ==
  /\ n \in opened
  /\ opened' = opened \ {n}
  /\ UNCHANGED <<size, kept>>

\* Unmounting loses the unsaved sizes of some files
Detach ==
  /\ opened = {}
  /\ \E lost \in SUBSET FileNames :
       size' = [n \in FileNames |-> IF n \in lost THEN kept[n] ELSE size[n]]
  /\ kept' = size'
  /\ UNCHANGED opened

Next ==
  \/ \E n \in FileNames : Make(n) \/ Erase(n) \/ Resize(n) \/ Save(n) \/ Use(n) \/ Leave(n)
  \/ Detach

Spec == Init /\ [][Next]_<<size, kept, opened>>
=============================================================================
