CONSTANTS
  b1 = b1  b2 = b2  b3 = b3  b4 = b4
  Buffer <- Buffers
  txbuf = txbuf  Poison = Poison
SPECIFICATION Spec
INVARIANTS TypeOK NoBufferLost
PROPERTIES CountsThePool
