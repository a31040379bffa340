CONSTANTS
  MAX_PORT = 5
  COMMON_PORTS <- MCCommonPorts
  MAX_WORKERS = 2
  ThreadLimit = 3
SPECIFICATION FairSpec
INVARIANT WorkersAccountedFor
INVARIANT ResultsSound
INVARIANT CompleteUnlessStopped
INVARIANT AtMostOneUnprobed
PROPERTY ScanReturns
