SPECIFICATION Spec
CONSTANTS
  MaxPackets = 2
  MaxSeconds = 1
  ArrivalBound = 2
  QueueBound = 2
  Kinds <- MCKinds
PROPERTY PressStopsCapture
CHECK_DEADLOCK FALSE
