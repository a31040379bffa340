CONSTANTS
  IPs <- MCIPs
  PortNumbers <- MCPortNumbers
  ServiceNames <- MCServiceNames
  Responses <- MCResponses
  LARGE_SURFACE = 1
  VERY_LARGE_SURFACE = 2
  addresses <- MCAddresses
  Scannable <- MCScannable
  Locals <- MCLocals
SPECIFICATION Spec
INVARIANT ReportsFollowLatestScan
INVARIANT FindingsOncePerPort
INVARIANT TopologyIsStar
PROPERTY DetectedOnOpenPort
