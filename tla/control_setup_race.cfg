SPECIFICATION Spec
CONSTANTS
  Address <- MCAddress
  Configuration <- MCConfiguration
  Requests <- MCShapes
  MayAbandon = FALSE
  SetupDuringIsr = TRUE
  SetupClearsIn = TRUE
PROPERTIES EverySetupSeen
