SPECIFICATION Spec
CONSTANTS
  MaxSignals = 0
  GSE_MAX_HEADER_LENGTH = 2
  GSE_MAX_TRAILER_LENGTH = 1
  GSE_MAX_PACKET_LENGTH = 7
  MAX_FRAG = 2
  ErrLimit = 2
  BufferLen = 7
  DecapPayloadLen = 6
  EncapFailures <- NoFailure
  DecapFailures <- NoFailure
  MaxFrames = 2
  FrameLens = {3, 7}
  EncapPayloadLen = 6
  Reorder = FALSE
  Incidents = {"loss", "restart"}
  MaxIncidents = 2
PROPERTIES
  ImplementsService
  Recovers
CHECK_DEADLOCK FALSE
