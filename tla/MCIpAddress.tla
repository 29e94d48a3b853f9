------------------------------ MODULE MCIpAddress ------------------------------
(***************************************************************************)
(* Two addresses of version 4 that share their first octet and one of      *)
(* version 6.                                                              *)
(***************************************************************************)
EXTENDS IpAddress, TLC

CONSTANTS first, second, other

MCVersion == first :> 4 @@ second :> 4 @@ other :> 6
MCOctets == [a \in Address |-> [l \in Length |-> IF a = other THEN 32 ELSE 10]]

\* An address is made, attached, moved, taken out of service and destroyed.
MCRequested ==
  {<<Unnamed, s>> : s \in {"createAndWait", "active", "notInService", "destroy"}}
    \cup {<<i, "active">> : i \in Index} \cup {<<2, "none">>}

Symmetry == Permutations({first, second})
===============================================================================
