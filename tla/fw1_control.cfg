SPECIFICATION Spec
CONSTANTS
  CtrlSize = 2
  Address <- MCAddress
  Requests <- MCRequests
  MayAbandon = TRUE
INVARIANTS IInv StateExpected ReplyMatches StallsExplained EndpointsFollowHost EndpointsOwned AddressReached
PROPERTIES AddressFollowsHost IsDevice
