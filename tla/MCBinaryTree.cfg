CONSTANTS
  Node <- MCNode
  Key <- MCKey
  FreshNodes = TRUE
  Differences = FALSE
SPECIFICATION Spec
INVARIANTS
  TypeOK
  HoldsMembers
  NoRedRed
  Balanced
  NoNullDereference
  LookupsAgree
  ScanInOrder
  AdjustTestsTrivial
PROPERTIES
  CallsReturn
