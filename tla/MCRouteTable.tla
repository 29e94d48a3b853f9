----------------------------- MODULE MCRouteTable -----------------------------
(* Model values for RouteTable.                                            *)
EXTENDS RouteTable, TLC

CONSTANTS k1, k2, metric1, nextHopAS, v0, v1

MCKey == {k1, k2}
MCColumn == {metric1, nextHopAS}
MCUnsigned == {nextHopAS}
MCValue == {v0, v1}
MCDefault == [c \in MCColumn |-> v0]
Symmetry == Permutations(MCKey)
=============================================================================
