SPECIFICATION Spec
CONSTANTS
  c1 = c1
  x1 = x1
  x2 = x2
  x3 = x3
  x4 = x4
  Client = {c1}
  Tx = {x1, x2, x3, x4}
  Deps <- MCDeps
  Fee <- MCFee
  Prio <- MCPrio
  Size <- MCSize
  MAX_FAS_TOTAL_SIZE = 4
  MAX_RELAY_TRANSACTION_BYTES = 2
  MaxHashes = 2
  Gather = {0, 2, 9}
INVARIANTS
  SelectsBest
  RequestsBounded
  ClientsToldAll
  ParentsHandedOut
PROPERTIES
  ClaimGivenUp
