----------------------------- MODULE MCCTunnel ------------------------------
(***************************************************************************)
(* Small instances of CTunnel: datagrams of 6 bytes with headers of 2, so  *)
(* that a frame of 3 bytes is sent whole and one of 7 in two fragments.    *)
(***************************************************************************)
EXTENDS CTunnel

NoFailure == {}
=============================================================================
