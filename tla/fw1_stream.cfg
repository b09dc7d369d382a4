SPECIFICATION FairSpec
CONSTANTS
  BufPackets = 2
  MaxTrans = 2
  Wrap = 4
  Cells = 2
  AckLoss = TRUE
  ClearsUnset = FALSE
INVARIANTS
  RegistersQuiet
  JobUnderWay
  IInv
  AtMostTwice
  UsesInv
  InStep
  CompletionServed
PROPERTIES
  JobEnds
  ReadyIsServed
CHECK_DEADLOCK FALSE
