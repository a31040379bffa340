CONSTANTS
  MAX_PORT = 2
  COMMON_PORTS <- MCFewPorts
  MAX_WORKERS = 2
  ThreadLimit = 3
SPECIFICATION Spec
INVARIANT OpenMeansAccepted
