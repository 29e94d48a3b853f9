SPECIFICATION Spec
CONSTANTS
  Catalogue <- ScalarTables
  Both = TRUE
INVARIANT ReturnsToPreviousValue
