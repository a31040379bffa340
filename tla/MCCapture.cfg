SPECIFICATION CommandSpec
CONSTANTS
  MaxPackets = 2
  MaxSeconds = 2
  ArrivalBound = 4
  QueueBound = 2
  Kinds <- MCKinds
  c1 = c1
  CaptureNames <- MCNames
  LastCapture = LastCapture
  PacketBound = 2
  Lengths <- MCLengths
  Protocols <- MCProtocols
  Base = 2
  BufferLines = 3
INVARIANTS
  OnlyMatchingInOrder
  NumberedWithoutGap
  NothingLeftBehind
  RoundTrip
  CutFileIsPrefix
  FoundIsSaved
  LossIsOneBuffer
PROPERTY CaptureEnds
CHECK_DEADLOCK FALSE
