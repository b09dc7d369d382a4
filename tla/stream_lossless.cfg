SPECIFICATION FairSpec
CONSTANTS
  x = x
  y = y
  Block <- MCBlock
  BlocksPerPacket = 2
  PacketsPerBuffer = 2
  AckLoss = TRUE
  Resync = FALSE
INVARIANTS TypeOK WholePackets
PROPERTIES TransferFixed IsFifo NeverStalls
