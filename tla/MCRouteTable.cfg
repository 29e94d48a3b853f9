CONSTANTS
  k1 = k1
  k2 = k2
  metric1 = metric1
  nextHopAS = nextHopAS
  v0 = v0
  v1 = v1
  Key <- MCKey
  Column <- MCColumn
  Unsigned <- MCUnsigned
  Value <- MCValue
  Default <- MCDefault
  MaxVariables = 3
SPECIFICATION Spec
SYMMETRY Symmetry
INVARIANTS
  TypeOK
  NoDangling
  RolledBack
PROPERTIES
  AllOrNothing
