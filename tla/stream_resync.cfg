SPECIFICATION Spec
CONSTANTS
  x = x
  y = y
  Block <- MCBlock
  BlocksPerPacket = 1
  PacketsPerBuffer = 3
  AckLoss = TRUE
  Resync = TRUE
INVARIANT IInv
PROPERTIES IsChannel
