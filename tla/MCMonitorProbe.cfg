SPECIFICATION CommandSpec
CONSTANTS
  CounterLimit = 4
  MaxInterval = 2
  MaxTraffic = 6
  Ports = 2
  Addresses = 2
INVARIANTS
  NeverOverstates
  ExactWhenUndisturbed
  PromptStop
  DescriptorsClosed
  StatesBackedByEvidence
  FirstAnswerDecides
  ConclusionBacked
PROPERTIES
  PressEndsMonitor
  ProbeEnds
