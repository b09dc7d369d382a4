SPECIFICATION FairSpec
CONSTANTS
  CtrlSize = 2
  Address <- MCAddress
  Requests <- MCFew
  MayAbandon = TRUE
PROPERTIES TransferEnds
