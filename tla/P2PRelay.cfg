SPECIFICATION Spec
CONSTANTS
  x1 = x1
  x2 = x2
  Tx = {x1, x2}
  MaxBlock = 2
  TxSeenMax = 1
  BlockSeenMax = 1
  WaitingMax = 1
  MaxHeaders = 2
  MaxWire = 1
  Theirs <- MCTheirs
  Ours <- MCOurs
  MaxConn <- MCMaxConn
CHECK_DEADLOCK FALSE
INVARIANTS
  TypeOK
  ConnectedHere
  InOrder
  BlocksAccounted
  RequestsAccounted
