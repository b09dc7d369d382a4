SPECIFICATION Spec
CONSTANTS
  BufPackets = 1
  MaxTrans = 2
  Wrap = 4
  Cells = 1
  AckLoss = TRUE
  ClearsUnset = TRUE
INVARIANTS
  NohaltRegistered
