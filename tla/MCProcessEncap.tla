--------------------------- MODULE MCProcessEncap ---------------------------
(***************************************************************************)
(* Small instances of ProcessEncap.  Headers of 2 bytes and trailers of 1  *)
(* make MIN_ENCAP_FRAME_SIZE 6; frames of 3 and 9 bytes are sent whole, in *)
(* fragments, or cut to BufferLen when they are read.                      *)
(***************************************************************************)
EXTENDS ProcessEncap

AnyFault == EncapFaults
DrainFaults == {"receive", "getpkt", "send"}
SelectFault == {"select"}
NoFault == {}
=============================================================================
