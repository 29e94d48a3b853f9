---------------------------- MODULE MCBinaryTree ----------------------------
(* Model values for BinaryTree: eight nodes, of which 3 and 4 share a key,  *)
(* and a small set for the run that adds removed nodes again.               *)
EXTENDS BinaryTree

MCNode == 1 .. 8
MCKey == [n \in MCNode |-> IF n <= 3 THEN n ELSE n - 1]

FewNode == 1 .. 4
FewKey == [n \in FewNode |-> n]

\* Keys with a difference of more than one, as object identifiers have.
ApartKey == [n \in FewNode |-> 3 * n]
============================================================
