CONSTANTS
  h1 = h1
  h2 = h2
  p1 = p1
  p2 = p2
  MaxEntries = 4
  ssh = ssh
  http = http
  IPs <- MCIPs
  PortNumbers <- MCPortNumbers
  ServiceNames <- MCServiceNames
SPECIFICATION StoreSpec
CONSTRAINT MCBound
SYMMETRY MCSymmetry
INVARIANT UniqueKeys
PROPERTY StableOrder
PROPERTY ImplementsTable
