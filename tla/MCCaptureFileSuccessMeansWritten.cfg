SPECIFICATION FileSpec
CONSTANTS
  c1 = c1
  CaptureNames <- MCNames
  LastCapture = LastCapture
  PacketBound = 2
  Lengths <- MCLengths
  Protocols <- MCProtocols
  Base = 2
  BufferLines = 3
INVARIANT SuccessMeansWritten
