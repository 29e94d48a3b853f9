CONSTANTS
  e1 = e1
  e2 = e2
  e3 = e3
  e4 = e4
  Entry <- MCEntry
  U32Max = 7
  RangeStart = 1
  RangeEnd = 7
  MaxIndex = 5
SPECIFICATION Spec
SYMMETRY Symmetry
INVARIANTS
  TypeOK
  RangesDisjoint
  NoDoubleAllocation
PROPERTIES
  BoundedLoss
  KeepsPromise
