SPECIFICATION Spec
CONSTANTS
  GSE_MAX_HEADER_LENGTH = 2
  GSE_MAX_TRAILER_LENGTH = 1
  GSE_MAX_PACKET_LENGTH = 7
  GSE_MAX_PDU_LEN = 9
  MaxFrames = 3
  FrameLens = {3, 7}
  Commands <- Programs
  Storages = 2
  MaxIncidents = 2
INVARIANTS
  TypeOK
  ForeignOnlyEarly
  ReceiverSurvives
  SenderSurvives
PROPERTIES
  ImplementsService
  ShortFramesArrive
CHECK_DEADLOCK FALSE
