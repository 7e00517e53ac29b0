SPECIFICATION Spec
CONSTANTS
  a = a
  b = b
  c = c
  d = d
  e = e
  f = f
  Elem = {a, b, c, d, e, f}
  Flag <- MCFlag
  maxSize = 4
  maxFlagCount = 6
  MaxOffset = 6
INVARIANTS
  TypeOK
  PositionsInv
  PendingInv
  FlagsInv
PROPERTIES
  ImplementsTxCache
