------------------------------ MODULE CTunnel -------------------------------
(***************************************************************************)
(* The C tunnel: process_encap() on one host, process_decap() on another,  *)
(* and between them the IP network that carries the datagrams of write_udp *)
(* to read_udp.  UDP may lose, duplicate and reorder them, and the kernel  *)
(* drops what arrives before satdecap has bound its socket.  Either        *)
(* process may end at any point and be started again, while the other one  *)
(* keeps what it has of the frame under way.                               *)
(***************************************************************************)
EXTENDS Naturals, Sequences, FiniteSets, SequencesExt

CONSTANTS MaxSignals, GSE_MAX_HEADER_LENGTH, GSE_MAX_TRAILER_LENGTH, GSE_MAX_PACKET_LENGTH,
          MaxFrames, FrameLens, BufferLen, MAX_FRAG, ErrLimit,
          EncapPayloadLen, DecapPayloadLen,     \* -p of satencap and of satdecap
          EncapFailures, DecapFailures,
          Reorder,       \* whether datagrams may overtake each other
          Incidents,     \* which of the incidents below may happen
          MaxIncidents   \* bound: how many of them happen

VARIABLES alive_e, installed_e, pending_e, signals_e, pc_e, status_e, fds_e, tap_e, arrived_e,
          vfrag_pdu, fifo, err, net, accepted, lost, late_e,
          alive_d, installed_d, pending_d, signals_d, pc_d, status_d, fds_d, sock, arrived_d,
          datagram, len_received, len_decapsulated, gse_length, ctx, tap_d, seen, late_d,
          wire, copies, incidents

encapVars == <<alive_e, installed_e, pending_e, signals_e, pc_e, status_e, fds_e, tap_e,
               arrived_e, vfrag_pdu, fifo, err, net, accepted, lost, late_e>>
decapVars == <<alive_d, installed_d, pending_d, signals_d, pc_d, status_d, fds_d, arrived_d,
               datagram, len_received, len_decapsulated, gse_length, ctx, tap_d, seen, late_d>>
incidentVars == <<copies, incidents>>
vars == <<encapVars, decapVars, sock, wire, incidentVars>>

Encap == INSTANCE ProcessEncap WITH
    PayloadLen <- EncapPayloadLen, Faults <- EncapFailures,
    alive <- alive_e, installed <- installed_e, pending <- pending_e, signals <- signals_e,
    pc <- pc_e, status <- status_e, fds <- fds_e, tap <- tap_e, arrived <- arrived_e,
    late <- late_e

Decap == INSTANCE ProcessDecap WITH
    MaxDatagrams <- 0, Datagrams <- {}, GarbageLens <- {0},
    PayloadLen <- DecapPayloadLen, Faults <- DecapFailures,
    alive <- alive_d, installed <- installed_d, pending <- pending_d, signals <- signals_d,
    pc <- pc_d, status <- status_d, fds <- fds_d, arrived <- arrived_d, tap <- tap_d,
    late <- late_d

ASSUME CTunnelAssumption ==
    /\ MaxSignals \in Nat /\ MaxIncidents \in Nat
    /\ GSE_MAX_HEADER_LENGTH \in Nat \ {0} /\ GSE_MAX_TRAILER_LENGTH \in Nat \ {0}
    /\ GSE_MAX_PACKET_LENGTH \in Nat /\ GSE_MAX_PACKET_LENGTH > GSE_MAX_HEADER_LENGTH
    /\ MaxFrames \in Nat /\ FrameLens \subseteq Nat \ {0} /\ BufferLen \in Nat
    /\ MAX_FRAG \in Nat \ {0} /\ ErrLimit \in Nat \ {0}
    /\ EncapPayloadLen \in Nat
    /\ DecapPayloadLen \in Nat /\ DecapPayloadLen <= GSE_MAX_PACKET_LENGTH + 2
    /\ EncapFailures \subseteq Encap!EncapFaults
    /\ DecapFailures \subseteq Decap!DecapFaults
    /\ Reorder \in BOOLEAN
    /\ Incidents \subseteq {"loss", "copy", "stray", "restart"}
    /\ ~Reorder => "copy" \notin Incidents

Init ==
    /\ Encap!Init
    /\ Decap!Init
    /\ wire = <<>> /\ copies = 0 /\ incidents = 0

\* What the encapsulator sends enters the network.
EncapStep ==
    /\ Encap!Step
    /\ wire' = wire \o SubSeq(net', Len(net) + 1, Len(net'))
    /\ UNCHANGED <<decapVars, sock, incidentVars>>

FrameArrives == Encap!TapArrives /\ UNCHANGED <<decapVars, sock, wire, incidentVars>>

DecapStep == Decap!Step /\ UNCHANGED <<encapVars, wire, incidentVars>>

\* One of the things that go wrong.
Incident(kind) ==
    /\ kind \in Incidents
    /\ incidents < MaxIncidents
    /\ incidents' = incidents + 1
    /\ copies' = IF kind = "copy" THEN copies + 1 ELSE copies

\* The process ends, by itself or killed, and is started again: what was in
\* its memory and in its kernel buffers is gone.
RestartEncap ==
    /\ Incident("restart")
    /\ Encap!Restart
    /\ UNCHANGED <<decapVars, sock, wire>>

RestartDecap ==
    /\ Incident("restart")
    /\ Decap!Restart
    /\ UNCHANGED <<encapVars, wire>>

-----------------------------------------------------------------------------
\* The network

Bound == "udp" \in fds_d
Received(dg) == sock' = IF Bound THEN Append(sock, dg) ELSE sock

\* The next datagram, or any of those in flight.
Reachable == IF Reorder THEN DOMAIN wire ELSE DOMAIN wire \intersect {1}

Carry ==
    /\ \E k \in Reachable : Received(wire[k]) /\ wire' = RemoveAt(wire, k)
    /\ UNCHANGED <<encapVars, decapVars, incidentVars>>

Lose ==
    /\ Incident("loss")
    /\ \E k \in Reachable : wire' = RemoveAt(wire, k)
    /\ UNCHANGED <<encapVars, decapVars, sock>>

Copy ==
    /\ Incident("copy")
    /\ \E k \in Reachable : Received(wire[k])
    /\ UNCHANGED <<encapVars, decapVars, wire>>

\* A datagram from another host, with a GSE packet nobody offered.
Stray ==
    /\ Incident("stray")
    /\ Received([src |-> "other", pad |-> 0,
                 pkts |-> <<[id |-> MaxFrames + 1, from |-> 0, to |-> 1, total |-> 1]>>])
    /\ UNCHANGED <<encapVars, decapVars, wire>>

Next ==
    \/ EncapStep \/ FrameArrives \/ DecapStep \/ RestartEncap \/ RestartDecap
    \/ Carry \/ Lose \/ Copy \/ Stray

\* Both processes are scheduled, and what is not lost is carried.
Spec ==
    /\ Init /\ [][Next]_vars
    /\ WF_vars(EncapStep) /\ WF_vars(DecapStep) /\ WF_vars(Carry)

-----------------------------------------------------------------------------
\* Properties

Service == INSTANCE TunnelService WITH
    Frames <- [id : 1..MaxFrames, len : 1..BufferLen], Ordered <- ~Reorder,
    offered <- accepted, delivered <- tap_d

\* The two processes and the network between them implement the service: no
\* frame is invented, altered, repeated or reordered by cutting, padding,
\* losing a fragment, mixing fragments, starting late or starting again.
ImplementsService == Service!Spec

\* Both sides agree on the size of a datagram.
LongestDatagram ==
    IF EncapPayloadLen # 0 THEN EncapPayloadLen
    ELSE Encap!Least(BufferLen + GSE_MAX_HEADER_LENGTH, GSE_MAX_PACKET_LENGTH)
SizesAgree == LongestDatagram <= DecapPayloadLen

\* The tunnel recovers from every loss and every restart: a frame of which
\* nothing was sent before the receiver was bound, the network stopped losing
\* and the processes stayed up is delivered, whatever fragments of earlier
\* frames are missing or wait for the rest.
Fresh(id) == \E k \in DOMAIN fifo : fifo[k].id = id /\ fifo[k].sent = 0
Delivered(id) == \E k \in DOMAIN tap_d : tap_d[k].id = id
Recovers ==
    \A id \in 1..MaxFrames :
        (SizesAgree /\ Fresh(id) /\ Bound /\ incidents = MaxIncidents) ~> Delivered(id)
=============================================================================
