SPECIFICATION HostsSpec
CONSTANTS
  Address <- MCAddress
  Configuration <- MCConfiguration
  Requests <- Request
  MayAbandon = TRUE
  SetupDuringIsr = FALSE
  SetupClearsIn = FALSE
INVARIANTS HostsInv ReplyMatches FifoOff
PROPERTIES AddressFollowsHost
