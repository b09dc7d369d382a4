SPECIFICATION FairSpec
CONSTANTS
  BufPackets = 1
  MaxTrans = 2
  Wrap = 4
  Cells = 1
  AckLoss = FALSE
  ClearsUnset = FALSE
PROPERTIES
  JobEndsInService
CHECK_DEADLOCK FALSE
