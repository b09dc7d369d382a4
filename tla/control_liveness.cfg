SPECIFICATION FairSpec
CONSTANTS
  Address <- MCAddress
  Configuration <- MCConfiguration
  Requests <- MCShapes
  MayAbandon = TRUE
  SetupDuringIsr = FALSE
  SetupClearsIn = FALSE
PROPERTIES TransferEnds ResetServed IsDevice
