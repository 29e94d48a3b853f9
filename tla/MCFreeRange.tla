----------------------------- MODULE MCFreeRange -----------------------------
(* Model values for FreeRange.                                             *)
EXTENDS FreeRange, TLC

CONSTANTS e1, e2, e3, e4

MCEntry == {e1, e2, e3, e4}
Symmetry == Permutations(MCEntry)
=============================================================================
