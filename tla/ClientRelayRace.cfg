SPECIFICATION Spec
CONSTANTS
  x1 = x1
  x2 = x2
  x3 = x3
  b1 = b1
  b2 = b2
  NoTx = NoTx
  Tx = {x1, x2, x3}
  Size <- MCSize
  Block = {b1, b2}
  BlockTxs <- MCBlockTxs
  MaxWire = 3
  MaxConn = 1
  MAX_TXN_IN_FAS = 2
  MAX_FAS_TOTAL_SIZE = 2
  MAX_RELAY_TRANSACTION_BYTES = 2
  OLD_MAX_TXN_IN_FAS = 2
  OLD_MAX_RELAY_TRANSACTION_BYTES = 1
  OLD_MAX_RELAY_OVERSIZE_TRANSACTION_BYTES = 2
  OLD_MAX_EXTRA_OVERSIZE_TRANSACTIONS = 1
  IndexMod = 6
  SizeMod = 64
CHECK_DEADLOCK FALSE
INVARIANTS
  BlocksAccepted
