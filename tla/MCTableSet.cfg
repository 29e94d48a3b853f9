SPECIFICATION Spec
CONSTANTS
  Catalogue <- SetTables
  Both = TRUE
INVARIANT TypeOK
INVARIANT NoOtherFault
INVARIANT RolledBack
INVARIANT TakesEffect
INVARIANT RowsAreMade
INVARIANT PartsAreNotMade
PROPERTY FrozenWhileUp
