SPECIFICATION Spec
CONSTANTS
  MaxSignals = 0
  GSE_MAX_HEADER_LENGTH = 2
  GSE_MAX_TRAILER_LENGTH = 1
  GSE_MAX_PACKET_LENGTH = 7
  MAX_FRAG = 2
  ErrLimit = 2
  BufferLen = 7
  DecapPayloadLen = 7
  EncapFailures <- NoFailure
  DecapFailures = {"write"}
  MaxFrames = 2
  FrameLens = {3, 7}
  EncapPayloadLen = 0
  Reorder = TRUE
  Incidents = {"loss", "copy", "stray", "restart"}
  MaxIncidents = 2
PROPERTY ImplementsService
CHECK_DEADLOCK FALSE
