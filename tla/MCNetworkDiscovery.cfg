CONSTANTS
  IPs <- MCIPs
  PortNumbers <- MCPortNumbers
  ServiceNames <- MCServiceNames
  addresses <- MCAddresses
  MAX_CONCURRENT = 2
SPECIFICATION FairSpec
INVARIANT WorkersAccountedFor
INVARIANT SuccessIsExact
INVARIANT NoMixture
PROPERTY DiscoveryEnds
