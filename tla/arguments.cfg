SPECIFICATION Spec
CONSTANTS
  UINT_MAX = 65535
  ULONG_MAX = 16777215
  USHRT_MAX = 65535
  MIN_ENCAP_FRAME_SIZE = 34
  DEFAULT_PAYLOAD_LENGTH = 1500
  DEFAULT_BUFFER_LENGTH = 8192
  DEFAULT_READ_TIMEOUT = 100
  Options <- ManyOptions
  MaxOptions = 5
INVARIANTS
  TypeOK
  RunsAsGiven
  FirstStopDecides
\* The program exits.
CHECK_DEADLOCK FALSE
