---------------------------- MODULE MCRustTunnel ----------------------------
(***************************************************************************)
(* A small instance of RustTunnel: packets of up to 7 bytes with headers   *)
(* of 2, so that a frame of 3 bytes is sent whole and one of 7 in two      *)
(* fragments.  The values of -p: none, one between a short and a full      *)
(* packet, one beyond the buffer; of -b: one that cuts frames, one beyond  *)
(* the buffer.                                                             *)
(***************************************************************************)
EXTENDS RustTunnel

Programs ==
    {[binaries |-> "rust", payload_len |-> p, buffer_len |-> 5] :
        p \in {0, 6, GSE_MAX_PACKET_LENGTH + 1}}
    \union
    {[binaries |-> "rust_testimonial", payload_len |-> 0, buffer_len |-> b] :
        b \in {5, GSE_MAX_PDU_LEN + 1}}
=============================================================================
