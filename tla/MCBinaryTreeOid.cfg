CONSTANTS
  Node <- FewNode
  Key <- ApartKey
  FreshNodes = TRUE
  Differences = TRUE
SPECIFICATION Spec
INVARIANTS
  ScanInOrder
