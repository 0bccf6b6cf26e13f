SPECIFICATION Spec
CONSTANTS
  MaxSignals = 1
  GSE_MAX_HEADER_LENGTH = 2
  GSE_MAX_TRAILER_LENGTH = 1
  GSE_MAX_PACKET_LENGTH = 7
  MaxDatagrams = 3
  Datagrams <- AnyDatagram
  PayloadLen = 9
  GarbageLens <- AnyGarbage
  Faults <- AnyFault
INVARIANTS
  TypeOK
  Aligned
  EveryPacketParsed
  AtMostOneLatePacket
  Released
PROPERTIES
  DatagramFinishes
  StopHonoured
  ImplementsProgram
\* The process ends: it returns, or a signal kills it.
CHECK_DEADLOCK FALSE
