-------------------------------- MODULE Gse ---------------------------------
(***************************************************************************)
(* libgse and the UDP datagrams, as process_encap.c and process_decap.c    *)
(* use them.  The library is not part of the repository: a PDU waits in    *)
(* the encapsulator's FIFO and is cut into GSE packets, and the            *)
(* deencapsulator joins the packets of one fragment identifier again and   *)
(* accepts the result only when its length and CRC are right.              *)
(*                                                                         *)
(* Data are byte ranges: packet [id, from, to, total] carries the bytes    *)
(* from+1 .. to of PDU id, which has total bytes.  Every packet has one    *)
(* header of GSE_MAX_HEADER_LENGTH bytes; labels and the CRC trailer are   *)
(* part of no property and take no room.                                   *)
(***************************************************************************)
EXTENDS Integers, Sequences

CONSTANTS GSE_MAX_HEADER_LENGTH,
          GSE_MAX_TRAILER_LENGTH,
          GSE_MAX_PACKET_LENGTH

ASSUME GseAssumption ==
    /\ GSE_MAX_HEADER_LENGTH \in Nat \ {0}
    /\ GSE_MAX_TRAILER_LENGTH \in Nat \ {0}
    /\ GSE_MAX_PACKET_LENGTH \in Nat
    /\ GSE_MAX_PACKET_LENGTH > GSE_MAX_HEADER_LENGTH

MIN_ENCAP_FRAME_SIZE == 2 * GSE_MAX_HEADER_LENGTH + 2 * GSE_MAX_TRAILER_LENGTH

Least(a, b) == IF a <= b THEN a ELSE b

Packet == {pkt \in [id : Nat \ {0}, from : Nat, to : Nat, total : Nat] :
             pkt.from < pkt.to /\ pkt.to <= pkt.total}

IsStart(pkt)    == pkt.from = 0
IsEnd(pkt)      == pkt.to = pkt.total
IsComplete(pkt) == IsStart(pkt) /\ IsEnd(pkt)
PacketLen(pkt)  == GSE_MAX_HEADER_LENGTH + pkt.to - pkt.from

\* A PDU in the encapsulator's FIFO, of which `sent` bytes were packed.
Pdu == {pdu \in [id : Nat \ {0}, total : Nat, sent : Nat] : pdu.sent < pdu.total}
Remaining(pdu) == pdu.total - pdu.sent

\* gse_encap_get_packet(&pkt, encap, desired_len, QOS) on the oldest PDU.
NextPacket(pdu, desired_len) ==
    LET room == Least(desired_len, GSE_MAX_PACKET_LENGTH) - GSE_MAX_HEADER_LENGTH
        size == Least(Remaining(pdu), IF room > 0 THEN room ELSE 1)
    IN  [id |-> pdu.id, from |-> pdu.sent, to |-> pdu.sent + size, total |-> pdu.total]

\* The FIFO once pkt was taken from its head: a PDU that was packed whole
\* leaves the FIFO and its virtual fragment is destroyed.
Packed(fifo, pkt) ==
    IF IsEnd(pkt)
      THEN Tail(fifo)
      ELSE [fifo EXCEPT ![1].sent = pkt.to]

-----------------------------------------------------------------------------
\* A UDP datagram: the packets it carries and the zero bytes that follow.
Datagram == [src : {"remote", "other"}, pkts : Seq(Packet), pad : Nat]

\* Where packet k of a datagram starts; Len(pkts)+1 is where padding starts.
StartOf(pkts, k) ==
    LET at[i \in 1..k] == IF i = 1 THEN 0 ELSE at[i-1] + PacketLen(pkts[i-1])
    IN  at[k]

DatagramLen(dg) == StartOf(dg.pkts, Len(dg.pkts) + 1) + dg.pad

-----------------------------------------------------------------------------
\* What the deencapsulator holds of the PDU under reassembly: the announced
\* length, the bytes joined so far, and whether they are the PDU's first
\* bytes, which is what the CRC tells at the end.
NoContext == [id |-> 0, total |-> 0, got |-> 0, whole |-> FALSE]
Context == [id : Nat, total : Nat, got : Nat, whole : BOOLEAN]

Continues(ctx, pkt) ==
    ctx.whole /\ pkt.id = ctx.id /\ pkt.from = ctx.got /\ pkt.total = ctx.total

Joined(ctx, pkt) ==
    [ctx EXCEPT !.got = @ + pkt.to - pkt.from, !.whole = Continues(ctx, pkt)]

\* gse_deencap_packet() on one whole packet: the status and the new context.
Deencap(ctx, pkt) ==
    IF IsComplete(pkt)
      THEN [status |-> "PDU_RECEIVED", ctx |-> ctx]
    ELSE IF IsStart(pkt)
      THEN [status |-> IF ctx = NoContext THEN "OK" ELSE "DATA_OVERWRITTEN",
            ctx    |-> [id |-> pkt.id, total |-> pkt.total, got |-> pkt.to, whole |-> TRUE]]
    ELSE IF ctx = NoContext
      THEN [status |-> "ERROR", ctx |-> NoContext]
    ELSE IF IsEnd(pkt)
      THEN [status |-> IF Continues(ctx, pkt) THEN "PDU_RECEIVED" ELSE "ERROR",
            ctx    |-> NoContext]
    ELSE IF Joined(ctx, pkt).got >= ctx.total
      THEN [status |-> "ERROR", ctx |-> NoContext]
    ELSE [status |-> "OK", ctx |-> Joined(ctx, pkt)]
=============================================================================
