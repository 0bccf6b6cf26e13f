SPECIFICATION Spec
CONSTANTS
  MaxSignals = 1
  GSE_MAX_HEADER_LENGTH = 2
  GSE_MAX_TRAILER_LENGTH = 1
  GSE_MAX_PACKET_LENGTH = 7
  MaxFrames = 0
  FrameLens = {3, 9}
  BufferLen = 8
  PayloadLen = 6
  MAX_FRAG = 2
  ErrLimit = 2
  Faults <- NoFault
PROPERTY HandledSignalStops
\* The process ends: it returns, or a signal kills it.
CHECK_DEADLOCK FALSE
