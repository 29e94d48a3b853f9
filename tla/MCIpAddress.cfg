SPECIFICATION Spec
CONSTANTS
  first = first
  second = second
  other = other
  Address = {first, second, other}
  Version <- MCVersion
  Octets <- MCOctets
  Length = {8}
  Requested <- MCRequested
  LastIndex = 2
  Modulus = 4
SYMMETRY Symmetry
INVARIANT UsesCounted
