SPECIFICATION Spec
CONSTANTS
  Catalogue <- WalkedTables
  Differences = TRUE
  MaxChanges = 3
CHECK_DEADLOCK FALSE
INVARIANT TypeOK
INVARIANT WalkSeesAll
