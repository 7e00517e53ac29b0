SPECIFICATION KeepaliveSpec
CONSTANTS
  MaxConn = 3
  NonceMod = 8
  FirstNonce = 7
  Multiplier = 6
INVARIANTS
  OwnPing
  OnePing
PROPERTIES
  DeadPeerFound
