----------------------------- MODULE BlockPool -----------------------------
(***************************************************************************)
(* What the block accounting of a file system promises: every data block   *)
(* is free or belongs to one owner, and moves only between the two.        *)
(***************************************************************************)
CONSTANTS Owners, Pool

VARIABLES owned,  \* Owners -> the blocks each has
          free

Init ==
  /\ owned = [w \in Owners |-> {}]
  /\ free = Pool

Take(w) ==
  \E b \in free :
    /\ owned' = [owned EXCEPT ![w] = @ \cup {b}]
    /\ free' = free \ {b}

\* Of one owner, or of several at once
Release ==
  \E B \in SUBSET UNION {owned[w] : w \in Owners} :
    /\ owned' = [w \in Owners |-> owned[w] \ B]
    /\ free' = free \cup B

Next == Release \/ \E w \in Owners : Take(w)

Spec == Init /\ [][Next]_<<owned, free>>
=============================================================================
