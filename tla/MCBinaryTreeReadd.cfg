CONSTANTS
  Node <- FewNode
  Key <- FewKey
  FreshNodes = FALSE
  Differences = FALSE
SPECIFICATION Spec
INVARIANTS
  NoRedRed
CHECK_DEADLOCK FALSE
