SPECIFICATION DecompressorSpec
CONSTANTS
  x1 = x1
  x2 = x2
  x3 = x3
  x4 = x4
  x5 = x5
  x6 = x6
  x7 = x7
  x8 = x8
  x9 = x9
  NoTx = NoTx
  Tx = {x1, x2, x3, x4, x5, x6, x7, x8, x9}
  Size <- MCSize
  Case <- MCCase
  MayFollow <- MCMayFollow
  MaxTxnInBlock = 12
  MAX_TXN_IN_FAS = 5
  MAX_FAS_TOTAL_SIZE = 5
  MAX_RELAY_TRANSACTION_BYTES = 1
  OLD_MAX_TXN_IN_FAS = 5
  OLD_MAX_RELAY_TRANSACTION_BYTES = 1
  OLD_MAX_RELAY_OVERSIZE_TRANSACTION_BYTES = 1
  OLD_MAX_EXTRA_OVERSIZE_TRANSACTIONS = 1
  IndexMod = 6
  SizeMod = 64
CHECK_DEADLOCK FALSE
INVARIANTS
  DecodesAsSent
  NothingLost
  SlotsInRange
  RowKeepsRoot
  OnlyTheBlock
