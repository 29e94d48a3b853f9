------------------------------ MODULE IndexPool ------------------------------
(***************************************************************************)
(* What a table promises about the indices of its rows: an index is given  *)
(* to a row only while it is free, and it is never free and given to a row *)
(* at the same time.  An implementation may lose free indices on the way,  *)
(* it may never make an index free that a row still has.                   *)
(***************************************************************************)
CONSTANT Index \* the indices that rows may have

VARIABLES
  free, \* indices that can be given to a row (those outside Index included)
  used  \* indices of the rows that exist

vars == <<free, used>>

Init ==
  /\ Index \subseteq free
  /\ used = {}

\* A row is created with an index that was free.
Reserve(i) ==
  /\ i \in free \ used
  /\ used' = used \cup {i}
  /\ free' \subseteq free \ {i}

\* A row is removed; its index may become free again.
Release(i) ==
  /\ i \in used
  /\ used' = used \ {i}
  /\ free' \subseteq free \cup {i}

\* A creation failed; the index it was about may become free.
Reclaim(i) ==
  /\ i \notin used
  /\ used' = used
  /\ free' \subseteq free \cup {i}

Next == \E i \in Index : Reserve(i) \/ Release(i) \/ Reclaim(i)

Spec == Init /\ [][Next]_vars
=============================================================================
