-------------------------- MODULE RustTunnelProofs --------------------------
(***************************************************************************)
(* Safety of the two Rust tunnels for every number of frames, losses,      *)
(* strays and restarts, every frame length and argument: that a tunnel     *)
(* implements the tunnel service, and what its programs end over.          *)
(***************************************************************************)
EXTENDS RustTunnel, GseProofs, QueueProofs

\* What the programs hold at each of their lines.
Stages ==
    /\ spc = "send" => buffer # <<>>
    /\ rpc = "write" => out # <<>>
    /\ rpc # "write" => out = <<>>
    /\ rpc \in Setup \union {"recv"} => storages = Storages
    /\ rpc = "write" => storages = IF UsesGse THEN Storages - 1 ELSE Storages
    /\ refused => unreachable
    /\ early <= incidents

\* A packet of one of the frames; only long ones are cut, and only by rust/.
PeerPacket(pkt, frames, gse) ==
    /\ pkt \in Packet
    /\ \E f \in frames : /\ f.id = pkt.id /\ f.len = pkt.total
                         /\ IsComplete(pkt) \/ (gse /\ Long(f))

Carried(dg, frames, gse) ==
    /\ dg.src = "remote" /\ dg.pkts # <<>>
    /\ PeerPacket(dg.pkts[1], frames, gse)

\* What is under way: packets of accepted frames, and strays in the socket's
\* buffer.
Traffic ==
    /\ \A k \in 1..Len(wire) : Carried(wire[k], accepted, UsesGse)
    /\ \A k \in 1..Len(sock) : sock[k] \in Strays \/ Carried(sock[k], accepted, UsesGse)
    /\ buffer # <<>> =>
         \E f \in accepted : /\ f.id = buffer[1].id /\ f.len = buffer[1].total
                             /\ buffer[1].sent > 0 => UsesGse /\ Long(f)
    /\ out # <<>> => out[1].id = Foreign \/ out[1] \in accepted

TypeInv == TypeOK /\ Stages /\ Traffic

\* Every stray that was written, is to be written or waits came early.
ForeignIn(o) == IF o # <<>> /\ o[1].id = Foreign THEN 1 ELSE 0
StraysCounted == foreign + ForeignIn(out) + Count(sock, Strays) <= early

-----------------------------------------------------------------------------
\* The order of the frames

FramesInOrder ==
    /\ \A i, j \in 1..Len(tap_s) : i < j => tap_s[i].id < tap_s[j].id
    /\ \A i \in 1..Len(tap_s) : tap_s[i].id <= arrived
    /\ \A f \in accepted : f.id <= arrived /\ f.len <= GSE_MAX_PDU_LEN
    /\ \A f \in accepted : \A i \in 1..Len(tap_s) : f.id < tap_s[i].id

\* Packet p was sent before q: a frame that is not cut has only one packet.
Before(p, q) == p.id < q.id \/ (p.id = q.id /\ ~IsComplete(p) /\ ~IsComplete(q))

\* Strays belong to no order.
InTurn(dg, next) == dg.src = "other" \/ Before(dg.pkts[1], next.pkts[1])

\* What was sent comes before what is left of the PDU in the buffer.
BeforePdu(dg, pdu) ==
    \/ dg.src = "other"
    \/ dg.pkts[1].id < pdu.id
    \/ dg.pkts[1].id = pdu.id /\ ~IsComplete(dg.pkts[1]) /\ pdu.sent > 0

InLine(w, s, b) ==
    /\ \A j, k \in 1..Len(w) : j < k => InTurn(w[j], w[k])
    /\ \A j, k \in 1..Len(s) : j < k /\ s[k].src = "remote" => InTurn(s[j], s[k])
    /\ \A j \in 1..Len(s) : \A k \in 1..Len(w) : InTurn(s[j], w[k])
    /\ b # <<>> => /\ \A k \in 1..Len(w) : BeforePdu(w[k], b[1])
                  /\ \A k \in 1..Len(s) : BeforePdu(s[k], b[1])

\* Nothing is left under way of frame f or of an earlier one.
Over(f, w, s, b) ==
    /\ \A k \in 1..Len(w) : f.id < w[k].pkts[1].id
    /\ \A k \in 1..Len(s) : s[k].src = "remote" => f.id < s[k].pkts[1].id
    /\ b # <<>> => f.id < b[1].id

WrittenInOrder ==
    /\ \A k \in 1..Len(tap_d) : tap_d[k] \in accepted /\ Over(tap_d[k], wire, sock, buffer)
    /\ out # <<>> /\ out[1].id # Foreign =>
         /\ Over(out[1], wire, sock, buffer)
         /\ \A k \in 1..Len(tap_d) : tap_d[k].id < out[1].id
    /\ IsFiniteSet(Range(tap_d)) /\ Cardinality(Range(tap_d)) = Len(tap_d)

OrderInv == FramesInOrder /\ InLine(wire, sock, buffer) /\ WrittenInOrder

-----------------------------------------------------------------------------
\* Type correctness

LEMMA AfterSetupType ==
    ASSUME NEW label \in Setup
    PROVE  AfterSetup(label) \in {"bind", "connect", "recv"}
BY DEF AfterSetup, Setup

LEMMA ConstantsType ==
    /\ MaxFrames \in Nat /\ MaxIncidents \in Nat
    /\ GSE_MAX_PDU_LEN \in Nat \ {0}
    /\ FrameLens \subseteq 1..GSE_MAX_PDU_LEN
    /\ Storages \in Nat \ {0}
    /\ Foreign \in Nat /\ Foreign \notin 1..MaxFrames /\ 1..MaxFrames \subseteq 1..Foreign
    /\ Foreign \in 1..Foreign
    /\ GSE_MAX_HEADER_LENGTH \in Nat \ {0} /\ GSE_MAX_PACKET_LENGTH \in Nat
    /\ GSE_MAX_PACKET_LENGTH > GSE_MAX_HEADER_LENGTH
BY RustTunnelAssumption, GseAssumption DEF RustTunnelAssumption, GseAssumption, Foreign

LEMMA ArgsType ==
    ASSUME TypeOK
    PROVE  args.payload_len \in Nat /\ args.buffer_len \in Nat \ {0} /\ UsesGse \in BOOLEAN
<1>1. args \in [binaries : {"rust", "rust_testimonial"}, payload_len : Nat, buffer_len : Nat \ {0}]
  BY RustTunnelAssumption DEF RustTunnelAssumption, TypeOK
<1>2. QED
  BY <1>1 DEF UsesGse

\* A stray is a datagram with one packet of the frame Foreign.
LEMMA StrayType ==
    ASSUME NEW dg \in Strays
    PROVE  /\ dg \in Datagram /\ dg.src = "other" /\ dg.pkts # <<>>
           /\ dg.pkts[1] \in Packet /\ dg.pkts[1].id = Foreign
<1>1. PICK n \in {1, 2} :
        dg = [src |-> "other", pad |-> 0,
              pkts |-> <<[id |-> Foreign, from |-> 0, to |-> n, total |-> 2]>>]
  BY DEF Strays
<1>2. [id |-> Foreign, from |-> 0, to |-> n, total |-> 2] \in Packet
  BY ConstantsType DEF Packet, Foreign
<1>3. QED
  BY <1>1, <1>2 DEF Datagram

LEMMA InitType == Init => TypeInv
<1> SUFFICES ASSUME Init PROVE TypeInv
  OBVIOUS
<1>1. \A T : <<>> \in Seq(T)
  OBVIOUS
<1>2. TypeOK
  <2>1. 0 \in 0..MaxFrames /\ 0 \in 0..MaxIncidents /\ Storages \in 0..Storages
    BY ConstantsType
  <2>2. Len(<<>>) <= 1
    OBVIOUS
  <2>3. args \in Commands /\ spc \in Setup /\ rpc \in Setup /\ accepted \subseteq Frame
        /\ refused \in BOOLEAN /\ failed \in BOOLEAN /\ unreachable \in BOOLEAN /\ foreign \in Nat
    BY DEF Init, Setup
  <2>4. /\ buffer \in Seq(Pdu) /\ Len(buffer) <= 1 /\ tap_s \in Seq(Frame)
        /\ sock \in Seq(Datagram) /\ wire \in Seq(Datagram) /\ tap_d \in Seq(Frame)
        /\ out \in Seq([id : 1..Foreign, len : Nat \ {0}]) /\ Len(out) <= 1
    BY <1>1, <2>2 DEF Init
  <2>5. QED
    BY <2>1, <2>3, <2>4 DEF Init, TypeOK
<1>3. Stages
  BY ConstantsType DEF Init, Stages, Setup
<1>4. Traffic
  BY DEF Init, Traffic
<1>5. QED
  BY <1>2, <1>3, <1>4 DEF TypeInv

\* More accepted frames let a datagram be what it was.
LEMMA StillCarried ==
    ASSUME NEW dg, NEW frames, NEW more, NEW gse, frames \subseteq more, Carried(dg, frames, gse)
    PROVE  Carried(dg, more, gse)
BY DEF Carried, PeerPacket

\* The steps that leave what is under way alone.
LEMMA TrafficKept ==
    ASSUME Traffic, UNCHANGED <<args, accepted, wire, sock, buffer, out>>
    PROVE  Traffic'
BY DEF Traffic, UsesGse

\* A call that fails is counted.
LEMMA FailureType ==
    ASSUME incidents \in 0..MaxIncidents, failed \in BOOLEAN, CallFails \/ AllWell
    PROVE  incidents' \in 0..MaxIncidents /\ incidents <= incidents' /\ failed' \in BOOLEAN
<1>1. CASE CallFails
  <2>1. incidents' = incidents + 1 /\ incidents < MaxIncidents
    BY <1>1 DEF CallFails, Incident
  <2>2. incidents' \in 0..MaxIncidents /\ incidents <= incidents'
    BY <2>1, ConstantsType
  <2>3. QED
    BY <1>1, <2>2 DEF CallFails
<1>2. CASE AllWell
  BY <1>2, ConstantsType DEF AllWell
<1>3. QED
  BY <1>1, <1>2

LEMMA SetUpType ==
    ASSUME TypeInv,
           \/ SenderSetsUp /\ UNCHANGED <<args, receiverVars, sock, early, unreachable>>
           \/ FrameArrives
    PROVE  TypeInv'
<1>1. Traffic'
  BY TrafficKept DEF SenderSetsUp, FrameArrives, receiverVars, TypeInv
<1>2. CASE SenderSetsUp /\ UNCHANGED <<args, receiverVars, sock, early, unreachable>>
  <2>1. spc' \in {"bind", "connect", "recv", "panicked"}
    BY <1>2, AfterSetupType DEF SenderSetsUp
  <2>2. incidents' \in 0..MaxIncidents /\ incidents <= incidents' /\ failed' \in BOOLEAN
    <3>1. incidents \in 0..MaxIncidents /\ failed \in BOOLEAN
      BY DEF TypeInv, TypeOK
    <3>2. CallFails \/ AllWell
      BY <1>2 DEF SenderSetsUp
    <3>3. QED
      BY <3>1, <3>2, FailureType
  <2>3. early \in Nat /\ incidents \in Nat /\ early <= incidents'
    BY <2>2, ConstantsType DEF TypeInv, TypeOK, Stages
  <2>4. QED
    BY <1>1, <1>2, <2>1, <2>2, <2>3
       DEF SenderSetsUp, receiverVars, TypeInv, TypeOK, Stages, Setup, Ended, UsesGse
<1>3. CASE FrameArrives
  <2>1. arrived' \in 1..MaxFrames /\ arrived' = arrived + 1
    BY <1>3, ConstantsType DEF FrameArrives, TypeInv, TypeOK
  <2>2. tap_s' \in Seq(Frame)
    <3>1. ASSUME NEW l \in FrameLens PROVE [id |-> arrived + 1, len |-> l] \in Frame
      BY <2>1, ConstantsType DEF Frame
    <3>2. tap_s \in Seq(Frame)
      BY DEF TypeInv, TypeOK
    <3>3. QED
      <4>1. CASE UNCHANGED tap_s
        BY <3>2, <4>1
      <4>2. CASE \E l \in FrameLens : tap_s' = Append(tap_s, [id |-> arrived + 1, len |-> l])
        <5>1. PICK l \in FrameLens : tap_s' = Append(tap_s, [id |-> arrived + 1, len |-> l])
          BY <4>2
        <5>2. QED
          BY <3>1, <3>2, <5>1
      <4>3. QED
        BY <1>3, <4>1, <4>2 DEF FrameArrives
  <2>3. QED
    BY <1>1, <1>3, <2>1, <2>2
       DEF FrameArrives, receiverVars, TypeInv, TypeOK, Stages, UsesGse
<1>4. QED
  BY <1>2, <1>3

\* A failed recv() ends either program; what the receiver's socket held is gone.
LEMMA ReadFailsType ==
    ASSUME TypeInv,
           \/ SenderReadFails /\ UNCHANGED <<args, receiverVars, sock, early, unreachable>>
           \/ ReceiverReadFails /\ UNCHANGED <<args, senderVars, refused, wire, early, unreachable>>
    PROVE  TypeInv'
<1>1. incidents' \in 0..MaxIncidents /\ incidents <= incidents' /\ failed' \in BOOLEAN
  <2>1. incidents \in 0..MaxIncidents /\ failed \in BOOLEAN
    BY DEF TypeInv, TypeOK
  <2>2. CallFails
    BY DEF SenderReadFails, ReceiverReadFails
  <2>3. QED
    BY <2>1, <2>2, FailureType
<1>2. early \in Nat /\ incidents \in Nat /\ early <= incidents'
  BY <1>1, ConstantsType DEF TypeInv, TypeOK, Stages
<1>3. UNCHANGED <<args, tap_s, arrived, buffer, accepted, refused, storages, out, tap_d, foreign>>
      /\ UNCHANGED <<wire, early, unreachable>> /\ (sock' = sock \/ sock' = <<>>)
  BY DEF SenderReadFails, ReceiverReadFails, senderVars, receiverVars
<1>4. \/ spc = "recv" /\ spc' = "panicked" /\ rpc' = rpc
      \/ spc' = spc /\ rpc = "recv" /\ rpc' = "panicked" /\ sock' = <<>>
  BY DEF SenderReadFails, ReceiverReadFails, senderVars, receiverVars
<1>5. TypeOK'
  <2>1. spc' \in Setup \union Ended \union {"recv", "send"}
        /\ rpc' \in Setup \union Ended \union {"recv", "write"}
    BY <1>4 DEF TypeInv, TypeOK, Ended
  <2>2. sock' \in Seq(Datagram)
    <3>1. sock \in Seq(Datagram) /\ <<>> \in Seq(Datagram)
      BY DEF TypeInv, TypeOK
    <3>2. QED
      BY <1>3, <3>1
  <2>3. QED
    BY <1>1, <1>3, <2>1, <2>2 DEF TypeInv, TypeOK
<1>6. Stages'
  BY <1>1, <1>2, <1>3, <1>4 DEF TypeInv, Stages, Setup, UsesGse
<1>7. Traffic'
  BY <1>3 DEF TypeInv, Traffic, UsesGse
<1>8. QED
  BY <1>5, <1>6, <1>7 DEF TypeInv

\* A frame is read: what SenderReads does when Readable fits the buffer.
FrameRead ==
    LET f == [Head(tap_s) EXCEPT !.len = Least(@, Readable)]
    IN  /\ tap_s # <<>> /\ tap_s' = Tail(tap_s)
        /\ buffer' = <<[id |-> f.id, total |-> f.len, sent |-> 0]>>
        /\ accepted' = accepted \union {f}
        /\ spc' = "send"

LEMMA FrameReadType ==
    ASSUME TypeInv, FrameRead, spc = "recv", Readable <= GSE_MAX_PDU_LEN
    PROVE  \E f \in Frame :
             /\ f.id = Head(tap_s).id /\ f.len <= GSE_MAX_PDU_LEN
             /\ f = [id |-> f.id, len |-> f.len]
             /\ buffer' = <<[id |-> f.id, total |-> f.len, sent |-> 0]>>
             /\ [id |-> f.id, total |-> f.len, sent |-> 0] \in Pdu
             /\ accepted' = accepted \union {f}
<1>1. tap_s \in Seq(Frame) /\ tap_s # <<>>
  BY DEF TypeInv, TypeOK, FrameRead
<1>2. Head(tap_s) \in Frame
  BY <1>1
<1>3. Readable \in Nat \ {0} /\ GSE_MAX_PDU_LEN \in Nat /\ MaxFrames \in Nat
  BY ArgsType, ConstantsType DEF Readable, TypeInv
<1> DEFINE h == Head(tap_s)
           f == [id |-> h.id, len |-> Least(h.len, Readable)]
<1>4. h \in [id : 1..MaxFrames, len : Nat \ {0}]
  BY <1>2 DEF Frame
<1> HIDE DEF h
<1>5. [h EXCEPT !.len = Least(@, Readable)] = f
  BY <1>4
<1>6. f \in Frame /\ f.len <= GSE_MAX_PDU_LEN
  <2>1. Least(h.len, Readable) \in Nat \ {0} /\ Least(h.len, Readable) <= GSE_MAX_PDU_LEN
    BY <1>3, <1>4 DEF Least
  <2>2. QED
    BY <1>4, <2>1 DEF Frame
<1>7. f.id = h.id /\ f = [id |-> f.id, len |-> f.len]
  OBVIOUS
<1>8. buffer' = <<[id |-> f.id, total |-> f.len, sent |-> 0]>> /\ accepted' = accepted \union {f}
  BY <1>5 DEF FrameRead, h
<1> HIDE DEF f
<1>9. [id |-> f.id, total |-> f.len, sent |-> 0] \in Pdu
  BY <1>3, <1>6 DEF Frame, Pdu
<1>10. QED
  BY <1>6, <1>7, <1>8, <1>9 DEF h

LEMMA SenderReadsType ==
    ASSUME TypeInv, SenderReads, UNCHANGED <<args, receiverVars, sock, early, unreachable>>
    PROVE  TypeInv'
<1>1. CASE spc' = "panicked" /\ UNCHANGED <<tap_s, buffer, accepted>>
  <2>1. Traffic'
    BY <1>1, TrafficKept DEF SenderReads, AllWell, receiverVars, TypeInv
  <2>2. QED
    BY <1>1, <2>1 DEF SenderReads, AllWell, receiverVars, TypeInv, TypeOK, Stages, Ended, UsesGse
<1>2. CASE Readable <= GSE_MAX_PDU_LEN /\ FrameRead
  <2>1. PICK f \in Frame :
          /\ f.id = Head(tap_s).id /\ f.len <= GSE_MAX_PDU_LEN
          /\ f = [id |-> f.id, len |-> f.len]
          /\ buffer' = <<[id |-> f.id, total |-> f.len, sent |-> 0]>>
          /\ [id |-> f.id, total |-> f.len, sent |-> 0] \in Pdu
          /\ accepted' = accepted \union {f}
    BY <1>2, FrameReadType DEF SenderReads
  <2>2. tap_s' \in Seq(Frame) /\ spc' = "send"
    BY <1>2 DEF FrameRead, TypeInv, TypeOK
  <2>3. buffer' \in Seq(Pdu) /\ Len(buffer') <= 1 /\ buffer' # <<>>
        /\ buffer'[1] = [id |-> f.id, total |-> f.len, sent |-> 0]
    BY <2>1
  <2>4. accepted' \subseteq Frame /\ accepted \subseteq accepted' /\ f \in accepted'
    BY <2>1 DEF TypeInv, TypeOK
  <2>5. wire' = wire /\ sock' = sock /\ out' = out /\ args' = args
    BY DEF SenderReads, receiverVars
  <2>6. Traffic'
    <3>1. \A d : Carried(d, accepted, UsesGse) => Carried(d, accepted', UsesGse)
      BY <2>4, StillCarried
    <3>2. UsesGse' = UsesGse
      BY <2>5 DEF UsesGse
    <3>3. QED
      BY <2>3, <2>4, <2>5, <3>1, <3>2 DEF TypeInv, Traffic
  <2>7. QED
    BY <2>2, <2>3, <2>4, <2>6
       DEF SenderReads, AllWell, receiverVars, TypeInv, TypeOK, Stages, Setup, UsesGse
<1>3. QED
  <2>1. Readable \in Nat /\ GSE_MAX_PDU_LEN \in Nat
    BY ArgsType, ConstantsType DEF Readable, TypeInv
  <2>2. QED
    BY <1>1, <1>2, <2>1 DEF SenderReads, FrameRead

\* The packet of the PDU in the buffer.
LEMMA SentPacket ==
    ASSUME TypeInv, spc = "send"
    PROVE  \E pkt \in Packet :
             /\ buffer \in Seq(Pdu) /\ buffer # <<>> /\ Len(buffer) = 1
             /\ Head(buffer) = buffer[1] /\ buffer[1] \in Pdu
             /\ pkt = PacketOf(buffer[1])
             /\ pkt.id = buffer[1].id /\ pkt.total = buffer[1].total
             /\ pkt.from = buffer[1].sent /\ pkt.from < pkt.to
             /\ PeerPacket(pkt, accepted, UsesGse)
<1>1. buffer \in Seq(Pdu) /\ buffer # <<>> /\ Len(buffer) = 1 /\ Head(buffer) = buffer[1]
      /\ buffer[1] \in Pdu
  <2>1. buffer \in Seq(Pdu) /\ Len(buffer) <= 1 /\ buffer # <<>>
    BY DEF TypeInv, TypeOK, Stages
  <2>2. ASSUME NEW q \in Seq(Pdu), q # <<>>, Len(q) <= 1
        PROVE  Len(q) = 1 /\ Head(q) = q[1] /\ q[1] \in Pdu
    <3>1. Len(q) \in Nat /\ Len(q) >= 1
      BY <2>2
    <3>2. ASSUME NEW n \in Nat, n >= 1, n <= 1 PROVE n = 1
      BY <3>2
    <3>3. Len(q) = 1
      BY <2>2, <3>1, <3>2
    <3>4. QED
      BY <2>2, <3>3
  <2>3. QED
    BY <2>1, <2>2
<1>2. PICK pdu \in Pdu : pdu = buffer[1]
  BY <1>1
<1>3. PICK f \in accepted : /\ f.id = pdu.id /\ f.len = pdu.total
                            /\ pdu.sent > 0 => UsesGse /\ Long(f)
  BY <1>1, <1>2 DEF TypeInv, Traffic
<1>4. /\ pdu.id \in Nat \ {0} /\ pdu.total \in Nat /\ pdu.sent \in Nat /\ pdu.sent < pdu.total
      /\ GSE_MAX_PACKET_LENGTH \in Nat /\ GSE_MAX_HEADER_LENGTH \in Nat
  BY ConstantsType DEF Pdu
<1>5. CASE UsesGse
  <2>1. PICK pkt : pkt = NextPacket(pdu, GSE_MAX_PACKET_LENGTH)
    OBVIOUS
  <2>2. pkt \in Packet /\ pkt.id = pdu.id /\ pkt.from = pdu.sent /\ pkt.total = pdu.total
    BY <1>4, <2>1, NextPacketType
  <2>3. ASSUME ~Long(f) PROVE IsComplete(pkt)
    <3>1. pdu.sent = 0 /\ pdu.total + GSE_MAX_HEADER_LENGTH <= GSE_MAX_PACKET_LENGTH
      BY <1>3, <1>4, <2>3 DEF Long
    <3>2. QED
      BY <1>4, <2>1, <3>1, NextPacketWhole
  <2>4. PeerPacket(pkt, accepted, UsesGse)
    BY <1>3, <1>5, <2>2, <2>3 DEF PeerPacket
  <2>5. pkt = PacketOf(pdu)
    BY <1>5, <2>1 DEF PacketOf
  <2>6. pkt.from < pkt.to
    BY <2>2 DEF Packet
  <2>7. QED
    BY <1>1, <1>2, <2>2, <2>4, <2>5, <2>6
<1>6. CASE ~UsesGse
  <2>1. PICK pkt : pkt = [id |-> pdu.id, from |-> 0, to |-> pdu.total, total |-> pdu.total]
    OBVIOUS
  <2>2. pdu.sent = 0
    BY <1>3, <1>4, <1>6
  <2>3. pkt \in Packet /\ pkt.id = pdu.id /\ pkt.from = pdu.sent /\ pkt.total = pdu.total
        /\ pkt.from < pkt.to /\ IsComplete(pkt)
    BY <1>4, <2>1, <2>2 DEF Packet, IsComplete, IsStart, IsEnd
  <2>4. PeerPacket(pkt, accepted, UsesGse)
    BY <1>3, <2>3 DEF PeerPacket
  <2>5. pkt = PacketOf(pdu)
    BY <1>6, <2>1 DEF PacketOf
  <2>6. QED
    BY <1>1, <1>2, <2>3, <2>4, <2>5
<1>7. QED
  BY <1>5, <1>6

LEMMA PaddingType ==
    ASSUME TypeOK, NEW pkt \in Packet
    PROVE  Padding(pkt) \in Nat /\ PacketLen(pkt) \in Nat
BY ArgsType, PacketLenType DEF Padding

\* A packet is sent: what SenderSends does when nothing is wrong.
PacketSent(pkt) ==
    /\ wire' = Append(wire, [src |-> "remote", pkts |-> <<pkt>>, pad |-> Padding(pkt)])
    /\ buffer' = Packed(buffer, pkt)
    /\ spc' = IF IsEnd(pkt) THEN "recv" ELSE "send"
    /\ UNCHANGED refused /\ AllWell

\* What the sender's datagram and its buffer are then.
LEMMA PacketSentType ==
    ASSUME TypeOK, NEW pkt \in Packet, PacketSent(pkt), buffer # <<>>, Len(buffer) = 1,
           Head(buffer) = buffer[1], pkt.total = buffer[1].total
    PROVE  /\ \E dg \in Datagram : /\ dg.src = "remote" /\ dg.pkts # <<>> /\ dg.pkts[1] = pkt
                                   /\ wire' = Append(wire, dg)
           /\ buffer' \in Seq(Pdu)
           /\ spc' = "recv" => buffer' = <<>>
           /\ spc' = "send" =>
                /\ Len(buffer') = 1 /\ ~IsEnd(pkt)
                /\ buffer'[1].id = buffer[1].id /\ buffer'[1].total = buffer[1].total
                /\ buffer'[1].sent = pkt.to
           /\ spc' \in {"recv", "send"}
<1>1. PICK dg : dg = [src |-> "remote", pkts |-> <<pkt>>, pad |-> Padding(pkt)]
  OBVIOUS
<1>2. dg \in Datagram /\ dg.src = "remote" /\ dg.pkts # <<>> /\ dg.pkts[1] = pkt
  BY <1>1, PaddingType DEF Datagram
<1>3. wire' = Append(wire, dg)
  BY <1>1 DEF PacketSent
<1>4. buffer \in Seq(Pdu)
  BY DEF TypeOK
<1>5. PICK b : b = Packed(buffer, pkt)
  OBVIOUS
<1>6. b \in Seq(Pdu)
  BY <1>4, <1>5, PackedType
<1>7. /\ Len(b) = 1 - Shift(pkt)
      /\ \A i \in 1..Len(b) :
           /\ i + Shift(pkt) \in 1..1
           /\ b[i].id = buffer[i + Shift(pkt)].id
           /\ b[i].total = buffer[i + Shift(pkt)].total
           /\ b[i].sent = IF i + Shift(pkt) = 1 THEN pkt.to ELSE buffer[i + Shift(pkt)].sent
  BY <1>4, <1>5, PackedElements
<1>8. buffer' = b /\ spc' = IF IsEnd(pkt) THEN "recv" ELSE "send"
  BY <1>5 DEF PacketSent
<1>9. CASE IsEnd(pkt)
  <2>1. Len(b) = 0 /\ b = <<>>
    BY <1>6, <1>7, <1>9 DEF Shift
  <2>2. QED
    BY <1>2, <1>3, <1>6, <1>8, <1>9, <2>1
<1>10. CASE ~IsEnd(pkt)
  <2>1. Len(b) = 1 /\ b[1].id = buffer[1].id /\ b[1].total = buffer[1].total /\ b[1].sent = pkt.to
    <3>1. Shift(pkt) = 0 /\ 1 + 0 = 1 /\ 1 - 0 = 1 /\ 1 \in 1..1
      BY <1>10 DEF Shift
    <3>2. Len(b) = 1
      BY <1>7, <3>1
    <3>3. QED
      BY <1>7, <3>1, <3>2
  <2>2. QED
    BY <1>2, <1>3, <1>6, <1>8, <1>10, <2>1
<1>11. QED
  BY <1>9, <1>10

LEMMA SenderSendsType ==
    ASSUME TypeInv, SenderSends, UNCHANGED <<args, receiverVars, sock, early, unreachable>>
    PROVE  TypeInv'
<1>1. PICK pkt \in Packet :
        /\ buffer # <<>> /\ Len(buffer) = 1 /\ Head(buffer) = buffer[1]
        /\ pkt = PacketOf(buffer[1])
        /\ pkt.id = buffer[1].id /\ pkt.total = buffer[1].total /\ pkt.from < pkt.to
        /\ PeerPacket(pkt, accepted, UsesGse)
  BY SentPacket DEF SenderSends
<1>2. /\ UNCHANGED <<args, tap_s, arrived, accepted, sock, early, unreachable>>
      /\ UNCHANGED <<rpc, storages, out, tap_d, foreign>>
  BY DEF SenderSends, receiverVars
<1>3. \/ PacketSent(pkt)
      \/ /\ spc' = "panicked" /\ UNCHANGED <<buffer, wire>>
         /\ refused' = refused \/ refused' = FALSE
         /\ CallFails \/ AllWell
  BY <1>1 DEF SenderSends, PacketSent
<1>4. CASE PacketSent(pkt)
  <2>1. PICK dg \in Datagram : /\ dg.src = "remote" /\ dg.pkts # <<>> /\ dg.pkts[1] = pkt
                               /\ wire' = Append(wire, dg)
    BY <1>1, <1>4, PacketSentType DEF TypeInv
  <2>2. /\ buffer' \in Seq(Pdu) /\ spc' \in {"recv", "send"}
        /\ spc' = "recv" => buffer' = <<>>
        /\ spc' = "send" =>
             /\ Len(buffer') = 1 /\ ~IsEnd(pkt)
             /\ buffer'[1].id = buffer[1].id /\ buffer'[1].total = buffer[1].total
             /\ buffer'[1].sent = pkt.to
    BY <1>1, <1>4, PacketSentType DEF TypeInv
  <2>3. wire \in Seq(Datagram)
    BY DEF TypeInv, TypeOK
  <2>4. /\ wire' \in Seq(Datagram) /\ Len(wire') = Len(wire) + 1 /\ wire'[Len(wire) + 1] = dg
        /\ \A k \in 1..Len(wire) : wire'[k] = wire[k]
        /\ \A k \in 1..(Len(wire) + 1) : k \in 1..Len(wire) \/ k = Len(wire) + 1
    BY <2>1, <2>3, AppendElements
  <2>6. Traffic'
    <3>1. UsesGse' = UsesGse
      BY <1>2 DEF UsesGse
    <3>2. \A k \in 1..Len(sock) : sock[k] \in Strays \/ Carried(sock[k], accepted, UsesGse)
      BY DEF TypeInv, Traffic
    <3>3. Carried(dg, accepted, UsesGse)
      BY <1>1, <2>1 DEF Carried
    <3>4. \A k \in 1..Len(wire') : Carried(wire'[k], accepted, UsesGse)
      BY <2>4, <3>3 DEF TypeInv, Traffic
    <3>5. ASSUME buffer' # <<>>
          PROVE  \E f \in accepted : /\ f.id = buffer'[1].id /\ f.len = buffer'[1].total
                                     /\ UsesGse /\ Long(f)
      BY <1>1, <2>2, <3>5 DEF PeerPacket, IsComplete
    <3>6. out' # <<>> => out'[1].id = Foreign \/ out'[1] \in accepted'
      BY <1>2 DEF TypeInv, Traffic
    <3>8. QED
      BY <1>2, <3>1, <3>2, <3>4, <3>5, <3>6 DEF Traffic
  <2>7. Len(buffer') <= 1 /\ (spc' = "send" => buffer' # <<>>)
    <3>1. CASE spc' = "recv"
      <4>1. buffer' = <<>> /\ Len(<<>>) <= 1
        BY <2>2, <3>1
      <4>2. QED
        BY <3>1, <4>1
    <3>2. CASE spc' = "send"
      <4>1. Len(buffer') = 1
        BY <2>2, <3>2
      <4>2. QED
        BY <4>1
    <3>3. QED
      BY <2>2, <3>1, <3>2
  <2>8. refused' = refused /\ incidents' = incidents /\ failed' = failed
    BY <1>4 DEF PacketSent, AllWell
  <2>9. TypeOK'
    BY <1>2, <2>2, <2>4, <2>7, <2>8 DEF TypeInv, TypeOK
  <2>10. Stages'
    BY <1>2, <2>7, <2>8 DEF TypeInv, Stages, UsesGse
  <2>11. QED
    BY <2>6, <2>9, <2>10 DEF TypeInv
<1>5. CASE /\ spc' = "panicked" /\ UNCHANGED <<buffer, wire>>
           /\ refused' = refused \/ refused' = FALSE
           /\ CallFails \/ AllWell
  <2>1. Traffic'
    BY <1>2, <1>5, TrafficKept DEF TypeInv
  <2>2. incidents' \in 0..MaxIncidents /\ incidents <= incidents' /\ failed' \in BOOLEAN
    BY <1>5, FailureType DEF TypeInv, TypeOK
  <2>3. TypeOK'
    BY <1>2, <1>5, <2>2 DEF TypeInv, TypeOK, Ended
  <2>4. early \in Nat /\ incidents \in Nat /\ incidents' \in Nat
    BY <2>2, ConstantsType DEF TypeInv, TypeOK
  <2>5. Stages'
    BY <1>2, <1>5, <2>2, <2>4 DEF TypeInv, Stages, UsesGse
  <2>6. QED
    BY <2>1, <2>3, <2>5 DEF TypeInv
<1>6. QED
  BY <1>3, <1>4, <1>5

-----------------------------------------------------------------------------
LEMMA ReceiverSetsUpType ==
    ASSUME TypeInv, ReceiverSetsUp,
           UNCHANGED <<args, senderVars, refused, wire, early, unreachable>>
    PROVE  TypeInv'
<1>1. /\ UNCHANGED <<args, spc, tap_s, arrived, buffer, accepted>>
      /\ UNCHANGED <<refused, wire, early, unreachable, storages, out, tap_d, foreign>>
  BY DEF ReceiverSetsUp, senderVars
<1>2. rpc' \in {"bind", "connect", "recv", "panicked"} /\ rpc \in Setup
  BY AfterSetupType DEF ReceiverSetsUp
<1>3. sock' = sock \/ sock' = <<>>
  BY DEF ReceiverSetsUp
<1>4. incidents' \in 0..MaxIncidents /\ incidents <= incidents' /\ failed' \in BOOLEAN
  BY FailureType DEF TypeInv, TypeOK, ReceiverSetsUp
<1>5. TypeOK'
  <2>1. sock' \in Seq(Datagram)
    <3>1. sock \in Seq(Datagram) /\ <<>> \in Seq(Datagram)
      BY DEF TypeInv, TypeOK
    <3>2. QED
      BY <1>3, <3>1
  <2>2. rpc' \in Setup \union Ended \union {"recv", "write"}
    BY <1>2 DEF Setup, Ended
  <2>3. QED
    BY <1>1, <1>4, <2>1, <2>2 DEF TypeInv, TypeOK
<1>6. early \in Nat /\ incidents \in Nat /\ incidents' \in Nat
  BY <1>4, ConstantsType DEF TypeInv, TypeOK
<1>7. Stages'
  BY <1>1, <1>2, <1>4, <1>6 DEF TypeInv, Stages, UsesGse, Setup
<1>8. Traffic'
  BY <1>1, <1>3 DEF TypeInv, Traffic, UsesGse
<1>9. QED
  BY <1>5, <1>7, <1>8 DEF TypeInv

\* The datagram in front of the socket's buffer, and the frame in it.
LEMMA HeadOfSock ==
    ASSUME TypeInv, sock # <<>>
    PROVE  \E dg \in Datagram :
             /\ dg = Head(sock) /\ dg = sock[1] /\ 1 \in 1..Len(sock)
             /\ dg.pkts # <<>> /\ dg.pkts[1] \in Packet
             /\ \/ dg \in Strays /\ dg.src = "other" /\ dg.pkts[1].id = Foreign
                \/ Carried(dg, accepted, UsesGse)
<1>1. sock \in Seq(Datagram)
  BY DEF TypeInv, TypeOK
<1>2. PICK dg \in Datagram : dg = Head(sock) /\ dg = sock[1] /\ 1 \in 1..Len(sock)
  BY <1>1, TailElements
<1>3. dg \in Strays \/ Carried(dg, accepted, UsesGse)
  BY <1>2 DEF TypeInv, Traffic
<1>4. CASE dg \in Strays
  BY <1>2, <1>4, StrayType
<1>5. CASE Carried(dg, accepted, UsesGse)
  BY <1>2, <1>5 DEF Carried, PeerPacket
<1>6. QED
  BY <1>3, <1>4, <1>5

\* The frame of a datagram whose first packet is complete or is taken as it is.
LEMMA FrameOfPacket ==
    ASSUME TypeInv, NEW dg \in Datagram, dg.pkts # <<>>, dg.pkts[1] \in Packet,
           \/ dg \in Strays /\ dg.src = "other" /\ dg.pkts[1].id = Foreign
           \/ Carried(dg, accepted, UsesGse),
           UsesGse => IsComplete(dg.pkts[1])
    PROVE  \E f \in [id : 1..Foreign, len : Nat \ {0}] :
             /\ f = [id |-> dg.pkts[1].id, len |-> dg.pkts[1].to - dg.pkts[1].from]
             /\ f.id = dg.pkts[1].id
             /\ f.id = Foreign \/ f \in accepted
             /\ f.id = Foreign <=> dg \in Strays
<1> DEFINE pkt == dg.pkts[1]
           f == [id |-> pkt.id, len |-> pkt.to - pkt.from]
<1>1. /\ pkt.from \in Nat /\ pkt.to \in Nat /\ pkt.total \in Nat
      /\ pkt.from < pkt.to /\ pkt.to <= pkt.total
  BY DEF Packet
<1>2. f.len \in Nat \ {0} /\ f.id = pkt.id
  BY <1>1
<1>3. CASE dg \in Strays /\ dg.src = "other" /\ pkt.id = Foreign
  BY <1>2, <1>3, ConstantsType
<1>4. CASE Carried(dg, accepted, UsesGse)
  <2>1. PICK g \in accepted : /\ g.id = pkt.id /\ g.len = pkt.total
                              /\ IsComplete(pkt) \/ (UsesGse /\ Long(g))
    BY <1>4 DEF Carried, PeerPacket
  <2>2. g \in [id : 1..MaxFrames, len : Nat \ {0}]
    BY <2>1 DEF TypeInv, TypeOK, Frame
  <2>3. IsComplete(pkt)
    BY <2>1
  <2>4. f.len = g.len /\ f.id = g.id
    BY <1>1, <2>1, <2>3 DEF IsComplete, IsStart, IsEnd
  <2>5. f = g
    BY <2>2, <2>4
  <2>6. g.id \in 1..Foreign /\ g.id # Foreign
    BY <2>2, ConstantsType
  <2>7. dg \notin Strays
    BY <1>4, StrayType DEF Carried
  <2>8. QED
    BY <1>2, <2>1, <2>2, <2>5, <2>6, <2>7
<1>5. QED
  BY <1>3, <1>4

\* A frame is taken: what ReceiverReads does when the datagram goes on.
FrameTaken(dg, f) ==
    /\ rpc' = "write" /\ out' = <<f>> /\ sock' = Tail(sock)
    /\ storages' = IF UsesGse THEN storages - 1 ELSE storages

LEMMA ReadCases ==
    ASSUME TypeInv, ReceiverReads
    PROVE  /\ rpc = "recv" /\ out = <<>> /\ UNCHANGED <<tap_d, foreign, incidents, failed>>
           /\ \/ \E dg \in Datagram, f \in [id : 1..Foreign, len : Nat \ {0}] :
                    /\ sock # <<>> /\ dg = Head(sock) /\ dg = sock[1]
                    /\ dg.pkts # <<>> /\ f.id = dg.pkts[1].id
                    /\ f.id = Foreign \/ f \in accepted
                    /\ f.id = Foreign <=> dg \in Strays
                    /\ UsesGse => IsComplete(dg.pkts[1])
                    /\ FrameTaken(dg, f)
              \/ rpc' = "returned" /\ sock' = <<>> /\ UNCHANGED <<storages, out>>
<1>1. rpc = "recv" /\ out = <<>> /\ UNCHANGED <<tap_d, foreign, incidents, failed>> /\ sock # <<>>
  BY DEF ReceiverReads, AllWell, TypeInv, Stages
<1>2. PICK dg \in Datagram :
        /\ dg = Head(sock) /\ dg = sock[1]
        /\ dg.pkts # <<>> /\ dg.pkts[1] \in Packet
        /\ \/ dg \in Strays /\ dg.src = "other" /\ dg.pkts[1].id = Foreign
           \/ Carried(dg, accepted, UsesGse)
  BY <1>1, HeadOfSock
<1>3. CASE UsesGse => Goes(Head(sock))
  <2>1. UsesGse => IsComplete(dg.pkts[1])
    BY <1>2, <1>3 DEF Goes
  <2>2. PICK f \in [id : 1..Foreign, len : Nat \ {0}] :
          /\ f = [id |-> dg.pkts[1].id, len |-> dg.pkts[1].to - dg.pkts[1].from]
          /\ f.id = dg.pkts[1].id
          /\ f.id = Foreign \/ f \in accepted
          /\ f.id = Foreign <=> dg \in Strays
    BY <1>2, <2>1, FrameOfPacket
  <2>3. FrameTaken(dg, f)
    BY <1>2, <1>3, <2>2 DEF ReceiverReads, FrameTaken
  <2>4. QED
    BY <1>1, <1>2, <2>1, <2>2, <2>3
<1>4. CASE ~(UsesGse => Goes(Head(sock)))
  BY <1>1, <1>4 DEF ReceiverReads
<1>5. QED
  BY <1>3, <1>4

LEMMA ReceiverReadsType ==
    ASSUME TypeInv, ReceiverReads, UNCHANGED <<args, senderVars, refused, wire, early, unreachable>>
    PROVE  TypeInv'
<1>1. /\ UNCHANGED <<args, spc, tap_s, arrived, buffer, accepted>>
      /\ UNCHANGED <<refused, wire, early, unreachable>>
  BY DEF senderVars
<1>2. rpc = "recv" /\ out = <<>> /\ UNCHANGED <<tap_d, foreign, incidents, failed>>
  BY ReadCases
<1>3. CASE rpc' = "returned" /\ sock' = <<>> /\ UNCHANGED <<storages, out>>
  <2>1. <<>> \in Seq(Datagram)
    OBVIOUS
  <2>2. TypeOK'
    BY <1>1, <1>2, <1>3, <2>1 DEF TypeInv, TypeOK, Ended
  <2>3. Stages'
    BY <1>1, <1>2, <1>3 DEF TypeInv, Stages, UsesGse, Setup
  <2>4. Traffic'
    BY <1>1, <1>3 DEF TypeInv, Traffic, UsesGse
  <2>5. QED
    BY <2>2, <2>3, <2>4 DEF TypeInv
<1>4. ASSUME NEW dg \in Datagram, NEW f \in [id : 1..Foreign, len : Nat \ {0}],
             sock # <<>>, f.id = Foreign \/ f \in accepted, FrameTaken(dg, f)
      PROVE  TypeInv'
  <2>1. sock \in Seq(Datagram)
    BY DEF TypeInv, TypeOK
  <2>2. /\ sock' \in Seq(Datagram)
        /\ \A k \in 1..Len(sock') : sock'[k] = sock[k + 1] /\ k + 1 \in 1..Len(sock)
    BY <1>4, <2>1, TailElements DEF FrameTaken
  <2>3. /\ out' \in Seq([id : 1..Foreign, len : Nat \ {0}]) /\ Len(out') <= 1
        /\ out' # <<>> /\ out'[1] = f
    BY <1>4 DEF FrameTaken
  <2>4. /\ storages = Storages /\ storages' \in 0..Storages
        /\ storages' = IF UsesGse THEN Storages - 1 ELSE Storages
    BY <1>2, <1>4, ConstantsType DEF FrameTaken, TypeInv, Stages
  <2>5. TypeOK'
    BY <1>1, <1>2, <1>4, <2>2, <2>3, <2>4 DEF FrameTaken, TypeInv, TypeOK
  <2>6. Stages'
    BY <1>1, <1>2, <1>4, <2>3, <2>4 DEF FrameTaken, TypeInv, Stages, UsesGse, Setup
  <2>7. Traffic'
    <3>1. \A k \in 1..Len(sock') : sock'[k] \in Strays \/ Carried(sock'[k], accepted, UsesGse)
      BY <2>2 DEF TypeInv, Traffic
    <3>2. UsesGse' = UsesGse
      BY <1>1 DEF UsesGse
    <3>3. QED
      BY <1>1, <1>4, <2>3, <3>1, <3>2 DEF TypeInv, Traffic
  <2>8. QED
    BY <2>5, <2>6, <2>7 DEF TypeInv
<1>5. QED
  BY <1>3, <1>4, ReadCases

\* What ReceiverWrites does: the frame in `out` is written or lost.
LEMMA WriteCases ==
    ASSUME TypeInv, ReceiverWrites
    PROVE  \E f \in [id : 1..Foreign, len : Nat \ {0}] :
             /\ rpc = "write" /\ out # <<>> /\ f = out[1] /\ out' = <<>>
             /\ f.id = Foreign \/ f \in accepted
             /\ \/ /\ rpc' = "recv" /\ UNCHANGED sock /\ storages' = Storages
                   /\ AllWell
                   /\ \/ f.id = Foreign /\ foreign' = foreign + 1 /\ UNCHANGED tap_d
                      \/ /\ f.id # Foreign /\ f \in accepted
                         /\ tap_d' = Append(tap_d, f) /\ UNCHANGED foreign
                \/ /\ rpc' = "panicked" /\ sock' = <<>> /\ CallFails
                   /\ UNCHANGED <<tap_d, foreign, storages>>
<1>1. rpc = "write" /\ out # <<>> /\ out' = <<>>
  BY DEF ReceiverWrites, TypeInv, Stages
<1>2. PICK f : f = out[1]
  OBVIOUS
<1>3. f \in [id : 1..Foreign, len : Nat \ {0}]
  <2>1. out \in Seq([id : 1..Foreign, len : Nat \ {0}])
    BY DEF TypeInv, TypeOK
  <2>2. Head(out) = out[1] /\ Head(out) \in [id : 1..Foreign, len : Nat \ {0}]
    BY <1>1, <2>1, TailElements
  <2>3. QED
    BY <1>2, <2>2
<1>4. f.id = Foreign \/ f \in accepted
  BY <1>1, <1>2 DEF TypeInv, Traffic
<1>5. (IF UsesGse THEN Provision ELSE storages) = Storages
  BY <1>1, ConstantsType DEF TypeInv, Stages, Provision
<1>6. QED
  BY <1>1, <1>2, <1>3, <1>4, <1>5 DEF ReceiverWrites

LEMMA ReceiverWritesType ==
    ASSUME TypeInv, ReceiverWrites, UNCHANGED <<args, senderVars, refused, wire, early, unreachable>>
    PROVE  TypeInv'
<1>1. /\ UNCHANGED <<args, spc, tap_s, arrived, buffer, accepted>>
      /\ UNCHANGED <<refused, wire, early, unreachable>>
  BY DEF senderVars
<1>2. PICK f \in [id : 1..Foreign, len : Nat \ {0}] :
        /\ rpc = "write" /\ out' = <<>>
        /\ \/ /\ rpc' = "recv" /\ UNCHANGED sock /\ storages' = Storages
              /\ AllWell
              /\ \/ f.id = Foreign /\ foreign' = foreign + 1 /\ UNCHANGED tap_d
                 \/ /\ f.id # Foreign /\ f \in accepted
                    /\ tap_d' = Append(tap_d, f) /\ UNCHANGED foreign
           \/ /\ rpc' = "panicked" /\ sock' = <<>> /\ CallFails
              /\ UNCHANGED <<tap_d, foreign, storages>>
  BY WriteCases
<1>3. incidents' \in 0..MaxIncidents /\ incidents <= incidents' /\ failed' \in BOOLEAN
  BY <1>2, FailureType DEF TypeInv, TypeOK
<1>4. tap_d' \in Seq(Frame) /\ foreign' \in Nat
  <2>1. tap_d \in Seq(Frame) /\ foreign \in Nat /\ foreign + 1 \in Nat /\ accepted \subseteq Frame
    BY DEF TypeInv, TypeOK
  <2>2. f \in accepted => Append(tap_d, f) \in Seq(Frame)
    BY <2>1
  <2>3. QED
    BY <1>2, <2>1, <2>2
<1>5. sock' \in Seq(Datagram) /\ (sock' = sock \/ sock' = <<>>)
  <2>1. sock \in Seq(Datagram) /\ <<>> \in Seq(Datagram)
    BY DEF TypeInv, TypeOK
  <2>2. QED
    BY <1>2, <2>1
<1>6. storages' \in 0..Storages /\ (rpc' = "recv" => storages' = Storages)
      /\ rpc' \in {"recv", "panicked"}
  BY <1>2, ConstantsType DEF TypeInv, TypeOK
<1>7. out' \in Seq([id : 1..Foreign, len : Nat \ {0}]) /\ Len(out') <= 1
  <2>1. Len(<<>>) <= 1 /\ <<>> \in Seq([id : 1..Foreign, len : Nat \ {0}])
    OBVIOUS
  <2>2. QED
    BY <1>2, <2>1
<1>8. TypeOK'
  BY <1>1, <1>3, <1>4, <1>5, <1>6, <1>7 DEF TypeInv, TypeOK, Ended
<1>9. early \in Nat /\ incidents \in Nat /\ incidents' \in Nat
  BY <1>3, ConstantsType DEF TypeInv, TypeOK
<1>10. Stages'
  BY <1>1, <1>2, <1>3, <1>6, <1>9 DEF TypeInv, Stages, UsesGse, Setup
<1>11. Traffic'
  BY <1>1, <1>2, <1>5 DEF TypeInv, Traffic, UsesGse
<1>12. QED
  BY <1>8, <1>10, <1>11 DEF TypeInv

\* One incident more.
LEMMA IncidentType ==
    ASSUME TypeInv, Incident
    PROVE  /\ incidents \in Nat /\ incidents' \in 0..MaxIncidents /\ incidents' = incidents + 1
           /\ early \in 0..MaxIncidents /\ early <= incidents
BY ConstantsType DEF Incident, TypeInv, TypeOK, Stages

LEMMA RestartType ==
    ASSUME TypeInv, RestartSender \/ RestartReceiver
    PROVE  TypeInv'
<1>1. /\ incidents \in Nat /\ incidents' \in 0..MaxIncidents /\ incidents' = incidents + 1
      /\ early \in 0..MaxIncidents /\ early <= incidents
  BY IncidentType DEF RestartSender, RestartReceiver
<1>2. \A T : <<>> \in Seq(T)
  OBVIOUS
<1>3. Len(<<>>) <= 1 /\ Storages \in 0..Storages /\ early \in Nat
  BY <1>1, ConstantsType
<1>4. CASE RestartSender
  <2>1. /\ spc' = "args" /\ tap_s' = <<>> /\ buffer' = <<>> /\ refused' = FALSE
        /\ UNCHANGED <<args, arrived, accepted, sock, wire, early, failed, unreachable>>
        /\ UNCHANGED <<rpc, storages, out, tap_d, foreign>>
    BY <1>4 DEF RestartSender, receiverVars
  <2>2. TypeOK'
    BY <1>1, <1>2, <1>3, <2>1 DEF TypeInv, TypeOK, Setup
  <2>3. Stages'
    BY <1>1, <1>3, <2>1 DEF TypeInv, Stages, UsesGse
  <2>4. Traffic'
    BY <2>1 DEF TypeInv, Traffic, UsesGse
  <2>5. QED
    BY <2>2, <2>3, <2>4 DEF TypeInv
<1>5. CASE RestartReceiver
  <2>1. /\ rpc' = "args" /\ sock' = <<>> /\ storages' = Storages /\ out' = <<>>
        /\ UNCHANGED <<args, refused, tap_d, foreign, wire, early, failed, unreachable>>
        /\ UNCHANGED <<spc, tap_s, arrived, buffer, accepted>>
    BY <1>5 DEF RestartReceiver, senderVars
  <2>2. TypeOK'
    BY <1>1, <1>2, <1>3, <2>1 DEF TypeInv, TypeOK, Setup
  <2>3. Stages'
    BY <1>1, <1>3, <2>1 DEF TypeInv, Stages, UsesGse
  <2>4. Traffic'
    BY <2>1 DEF TypeInv, Traffic, UsesGse
  <2>5. QED
    BY <2>2, <2>3, <2>4 DEF TypeInv
<1>6. QED
  BY <1>4, <1>5

\* A datagram that leaves the wire, for the socket's buffer or for nowhere.
LEMMA OffTheWire ==
    ASSUME TypeInv, wire # <<>>, wire' = Tail(wire),
           sock' = sock \/ sock' = Append(sock, Head(wire)),
           UNCHANGED <<args, senderVars, receiverVars>>
    PROVE  wire' \in Seq(Datagram) /\ sock' \in Seq(Datagram) /\ Traffic'
<1>1. /\ UNCHANGED <<args, spc, tap_s, arrived, buffer, accepted>>
      /\ UNCHANGED <<rpc, storages, out, tap_d, foreign>>
  BY DEF senderVars, receiverVars
<1>2. wire \in Seq(Datagram) /\ sock \in Seq(Datagram)
  BY DEF TypeInv, TypeOK
<1>3. /\ wire' \in Seq(Datagram) /\ 1 \in 1..Len(wire) /\ Head(wire) = wire[1]
      /\ Head(wire) \in Datagram
      /\ \A k \in 1..Len(wire') : wire'[k] = wire[k + 1] /\ k + 1 \in 1..Len(wire)
  BY <1>2, TailElements
<1>4. PICK dg \in Datagram : dg = Head(wire) /\ Carried(dg, accepted, UsesGse)
  BY <1>3 DEF TypeInv, Traffic
<1>5. \A k \in 1..Len(wire') : Carried(wire'[k], accepted, UsesGse)
  BY <1>3 DEF TypeInv, Traffic
<1>6. /\ sock' \in Seq(Datagram)
      /\ \A k \in 1..Len(sock') : sock'[k] \in Strays \/ Carried(sock'[k], accepted, UsesGse)
  <2>1. CASE sock' = sock
    BY <1>2, <2>1 DEF TypeInv, Traffic
  <2>2. CASE sock' = Append(sock, dg)
    <3>1. /\ sock' \in Seq(Datagram) /\ Len(sock') = Len(sock) + 1 /\ sock'[Len(sock) + 1] = dg
          /\ \A k \in 1..Len(sock) : sock'[k] = sock[k]
          /\ \A k \in 1..(Len(sock) + 1) : k \in 1..Len(sock) \/ k = Len(sock) + 1
      BY <1>2, <2>2, AppendElements
    <3>2. QED
      BY <1>4, <3>1 DEF TypeInv, Traffic
  <2>3. QED
    BY <1>4, <2>1, <2>2
<1>7. UsesGse' = UsesGse
  BY <1>1 DEF UsesGse
<1>8. Traffic'
  BY <1>1, <1>5, <1>6, <1>7 DEF TypeInv, Traffic
<1>9. QED
  BY <1>3, <1>6, <1>8

LEMMA NetworkType ==
    ASSUME TypeInv, Carry \/ Lose
    PROVE  TypeInv'
<1>1. /\ UNCHANGED <<args, spc, tap_s, arrived, buffer, accepted>>
      /\ UNCHANGED <<rpc, storages, out, tap_d, foreign, early, failed>>
  BY DEF Carry, Lose, senderVars, receiverVars
<1>2. wire' \in Seq(Datagram) /\ sock' \in Seq(Datagram) /\ Traffic'
  BY OffTheWire DEF Carry, Lose
<1>3. early \in Nat /\ incidents \in 0..MaxIncidents /\ early <= incidents
  BY ConstantsType DEF TypeInv, TypeOK, Stages
<1>4. incidents' \in 0..MaxIncidents /\ early <= incidents'
  <2>1. CASE Carry
    BY <1>3, <2>1 DEF Carry
  <2>2. CASE Lose
    <3>1. incidents \in Nat /\ incidents' \in 0..MaxIncidents /\ incidents' = incidents + 1
      BY <2>2, IncidentType DEF Lose
    <3>2. QED
      BY <1>3, <3>1
  <2>3. QED
    BY <2>1, <2>2
<1>5. refused' \in BOOLEAN /\ unreachable' \in BOOLEAN /\ (refused' => unreachable')
  <2>1. refused \in BOOLEAN /\ unreachable \in BOOLEAN /\ (refused => unreachable)
    BY DEF TypeInv, TypeOK, Stages
  <2>2. CASE Carry
    <3>1. /\ unreachable' = (unreachable \/ ~Bound)
          /\ refused' = refused \/ (refused' = TRUE /\ ~Bound)
      BY <2>2 DEF Carry
    <3>2. refused' \in BOOLEAN
      BY <2>1, <3>1
    <3>3. CASE unreachable \/ ~Bound
      <4>1. unreachable' = TRUE
        BY <3>1, <3>3
      <4>2. QED
        BY <3>2, <4>1
    <3>4. CASE ~(unreachable \/ ~Bound)
      <4>1. unreachable' = FALSE /\ refused' = refused
        BY <3>1, <3>4
      <4>2. QED
        BY <2>1, <3>4, <4>1
    <3>5. QED
      BY <3>3, <3>4
  <2>3. CASE Lose
    BY <2>1, <2>3 DEF Lose
  <2>4. QED
    BY <2>2, <2>3
<1>6. TypeOK'
  BY <1>1, <1>2, <1>4, <1>5 DEF TypeInv, TypeOK
<1>7. Stages'
  BY <1>1, <1>4, <1>5 DEF TypeInv, Stages, UsesGse
<1>8. QED
  BY <1>2, <1>6, <1>7 DEF TypeInv

LEMMA StrayArrives ==
    ASSUME TypeInv, Stray
    PROVE  TypeInv'
<1>1. /\ UNCHANGED <<args, spc, tap_s, arrived, buffer, accepted, refused>>
      /\ UNCHANGED <<rpc, storages, out, tap_d, foreign, wire, failed, unreachable>>
  BY DEF Stray, senderVars, receiverVars
<1>2. /\ incidents \in Nat /\ incidents' \in 0..MaxIncidents /\ incidents' = incidents + 1
      /\ early \in 0..MaxIncidents /\ early <= incidents
  BY IncidentType DEF Stray
<1>3. early' \in 0..MaxIncidents /\ early' <= incidents'
  BY <1>2, ConstantsType DEF Stray
<1>4. PICK dg \in Strays : sock' = Append(sock, dg)
  BY DEF Stray
<1>5. dg \in Datagram /\ sock \in Seq(Datagram)
  BY StrayType DEF TypeInv, TypeOK
<1>6. /\ sock' \in Seq(Datagram) /\ Len(sock') = Len(sock) + 1 /\ sock'[Len(sock) + 1] = dg
      /\ \A k \in 1..Len(sock) : sock'[k] = sock[k]
      /\ \A k \in 1..(Len(sock) + 1) : k \in 1..Len(sock) \/ k = Len(sock) + 1
  BY <1>4, <1>5, AppendElements
<1>7. \A k \in 1..Len(sock') : sock'[k] \in Strays \/ Carried(sock'[k], accepted, UsesGse)
  BY <1>4, <1>6 DEF TypeInv, Traffic
<1>8. UsesGse' = UsesGse
  BY <1>1 DEF UsesGse
<1>9. Traffic'
  BY <1>1, <1>7, <1>8 DEF TypeInv, Traffic
<1>10. TypeOK'
  BY <1>1, <1>2, <1>3, <1>6 DEF TypeInv, TypeOK
<1>11. Stages'
  BY <1>1, <1>3, <1>8 DEF TypeInv, Stages
<1>12. QED
  BY <1>9, <1>10, <1>11 DEF TypeInv

LEMMA StutterType ==
    ASSUME TypeInv, UNCHANGED vars
    PROVE  TypeInv'
<1>1. /\ UNCHANGED <<args, spc, tap_s, arrived, buffer, accepted, refused>>
      /\ UNCHANGED <<rpc, storages, out, tap_d, foreign, sock, wire, early, incidents, failed>>
      /\ UNCHANGED unreachable
  BY DEF vars, senderVars, receiverVars
<1>2. TypeOK'
  BY <1>1 DEF TypeInv, TypeOK
<1>3. Stages'
  BY <1>1 DEF TypeInv, Stages, UsesGse
<1>4. Traffic'
  BY <1>1, TrafficKept DEF TypeInv
<1>5. QED
  BY <1>2, <1>3, <1>4 DEF TypeInv

LEMMA NextType == TypeInv /\ [Next]_vars => TypeInv'
<1> SUFFICES ASSUME TypeInv, [Next]_vars PROVE TypeInv'
  OBVIOUS
<1>1. CASE Sender
  BY <1>1, SetUpType, SenderReadsType, ReadFailsType, SenderSendsType DEF Sender
<1>2. CASE Receiver
  BY <1>2, ReceiverSetsUpType, ReceiverReadsType, ReadFailsType, ReceiverWritesType DEF Receiver
<1>3. CASE FrameArrives
  BY <1>3, SetUpType
<1>4. CASE RestartSender \/ RestartReceiver
  BY <1>4, RestartType
<1>5. CASE Carry \/ Lose
  BY <1>5, NetworkType
<1>6. CASE Stray
  BY <1>6, StrayArrives
<1>7. CASE UNCHANGED vars
  BY <1>7, StutterType
<1>8. QED
  BY <1>1, <1>2, <1>3, <1>4, <1>5, <1>6, <1>7 DEF Next

\* Every variable of both programs keeps its type.
THEOREM TypeCorrect == Spec => []TypeOK
<1>1. TypeInv => TypeOK
  BY DEF TypeInv
<1>2. QED
  BY InitType, NextType, <1>1, PTL DEF Spec

-----------------------------------------------------------------------------
\* Frames from elsewhere

LEMMA StraysNumbers ==
    ASSUME TypeOK
    PROVE  foreign \in Nat /\ early \in Nat /\ Count(sock, Strays) \in Nat /\ ForeignIn(out) \in {0, 1}
<1>1. sock \in Seq(Datagram) /\ foreign \in Nat /\ early \in Nat
  BY ConstantsType DEF TypeOK
<1>2. Count(sock, Strays) \in Nat
  BY <1>1, CountType
<1>3. QED
  BY <1>1, <1>2 DEF ForeignIn

\* Fewer datagrams wait, or none, and nothing new is to be written.
LEMMA FewerStrays ==
    ASSUME TypeInv, StraysCounted,
           foreign' = foreign, early' = early,
           sock' = sock \/ sock' = <<>>, out' = out \/ out' = <<>>
    PROVE  StraysCounted'
<1>1. ForeignIn(<<>>) = 0 /\ Count(<<>>, Strays) = 0
  BY CountEmpty DEF ForeignIn
<1>2. /\ foreign \in Nat /\ early \in Nat /\ Count(sock, Strays) \in Nat
      /\ ForeignIn(out) \in {0, 1}
  BY StraysNumbers DEF TypeInv
<1>3. Count(sock', Strays) \in Nat /\ Count(sock', Strays) <= Count(sock, Strays)
  BY <1>1, <1>2
<1>4. ForeignIn(out') \in {0, 1} /\ ForeignIn(out') <= ForeignIn(out)
  BY <1>1, <1>2
<1>5. foreign + ForeignIn(out') + Count(sock', Strays) <= early
  BY <1>2, <1>3, <1>4 DEF StraysCounted
<1>6. QED
  BY <1>5 DEF StraysCounted

LEMMA ReadStrays ==
    ASSUME TypeInv, StraysCounted, ReceiverReads, early' = early
    PROVE  StraysCounted'
<1>1. out = <<>> /\ foreign' = foreign
  BY ReadCases
<1>2. ASSUME NEW dg \in Datagram, NEW f \in [id : 1..Foreign, len : Nat \ {0}],
             sock # <<>>, dg = Head(sock), f.id = Foreign <=> dg \in Strays, FrameTaken(dg, f)
      PROVE  StraysCounted'
  <2>1. /\ foreign \in Nat /\ early \in Nat /\ Count(sock, Strays) \in Nat
        /\ ForeignIn(out) \in {0, 1}
    BY StraysNumbers DEF TypeInv
  <2>2. sock \in Seq(Datagram)
    BY DEF TypeInv, TypeOK
  <2>3. Count(sock, Strays) = Count(sock', Strays) + (IF dg \in Strays THEN 1 ELSE 0)
    BY <1>2, <2>2, CountTail DEF FrameTaken
  <2>4. Count(sock', Strays) \in Nat
    BY <1>2, <2>2, CountType, TailElements DEF FrameTaken
  <2>5. ForeignIn(out') = IF dg \in Strays THEN 1 ELSE 0
    BY <1>2 DEF ForeignIn, FrameTaken
  <2>6. ForeignIn(out) = 0
    BY <1>1 DEF ForeignIn
  <2>7. foreign + ForeignIn(out') + Count(sock', Strays) <= early
    BY <2>1, <2>3, <2>4, <2>5, <2>6 DEF StraysCounted
  <2>8. QED
    BY <1>1, <2>7 DEF StraysCounted
<1>3. CASE sock' = <<>> /\ out' = out
  BY <1>1, <1>3, FewerStrays
<1>4. QED
  BY <1>2, <1>3, ReadCases

LEMMA WriteStrays ==
    ASSUME TypeInv, StraysCounted, ReceiverWrites, early' = early
    PROVE  StraysCounted'
<1>1. PICK f :
        /\ out # <<>> /\ f = out[1] /\ out' = <<>>
        /\ \/ UNCHANGED sock /\ f.id = Foreign /\ foreign' = foreign + 1
           \/ UNCHANGED sock /\ f.id # Foreign /\ UNCHANGED foreign
           \/ sock' = <<>> /\ UNCHANGED foreign
  BY WriteCases
<1>2. CASE sock' = sock /\ f.id = Foreign /\ foreign' = foreign + 1
  <2>1. ForeignIn(out) = 1 /\ ForeignIn(out') = 0
    BY <1>1, <1>2 DEF ForeignIn
  <2>2. foreign \in Nat /\ early \in Nat /\ Count(sock, Strays) \in Nat
    BY StraysNumbers DEF TypeInv
  <2>3. foreign + 1 + Count(sock, Strays) <= early
    BY <2>1 DEF StraysCounted
  <2>4. (foreign + 1) + 0 + Count(sock, Strays) <= early
    BY <2>2, <2>3
  <2>5. QED
    BY <1>2, <2>1, <2>4 DEF StraysCounted
<1>3. CASE (sock' = sock \/ sock' = <<>>) /\ foreign' = foreign
  BY <1>1, <1>3, FewerStrays
<1>4. QED
  BY <1>1, <1>2, <1>3

\* What comes over the wire is no stray.
LEMMA CarryStrays ==
    ASSUME TypeInv, StraysCounted, Carry
    PROVE  StraysCounted'
<1>1. wire # <<>> /\ foreign' = foreign /\ early' = early /\ out' = out
  BY DEF Carry, receiverVars
<1>2. sock \in Seq(Datagram) /\ wire \in Seq(Datagram)
  BY DEF TypeInv, TypeOK
<1>3. Head(wire) = wire[1] /\ 1 \in 1..Len(wire) /\ Head(wire) \in Datagram
  BY <1>1, <1>2, TailElements
<1>4. PICK dg \in Datagram : dg = Head(wire) /\ Carried(dg, accepted, UsesGse)
  BY <1>3 DEF TypeInv, Traffic
<1>5. dg \notin Strays
  BY <1>4, StrayType DEF Carried
<1>6. Count(sock', Strays) = Count(sock, Strays)
  <2>1. Count(sock, Strays) \in Nat
    BY <1>2, CountType
  <2>2. Count(Append(sock, dg), Strays) = Count(sock, Strays) + 0
    BY <1>2, <1>5, CountAppend
  <2>3. sock' = sock \/ sock' = Append(sock, dg)
    BY <1>4 DEF Carry
  <2>4. Count(Append(sock, dg), Strays) = Count(sock, Strays)
    BY <2>1, <2>2
  <2>5. CASE sock' = sock
    BY <2>5
  <2>6. CASE sock' = Append(sock, dg)
    BY <2>4, <2>6
  <2>7. QED
    BY <2>3, <2>5, <2>6
<1>7. QED
  BY <1>1, <1>6 DEF StraysCounted

\* A stray is taken only before connect(), where it is counted.
LEMMA StrayStrays ==
    ASSUME TypeInv, StraysCounted, Stray
    PROVE  StraysCounted'
<1>1. foreign' = foreign /\ out' = out
  BY DEF Stray, receiverVars
<1>2. PICK dg \in Strays : sock' = Append(sock, dg) /\ Accepts(dg)
  BY DEF Stray
<1>3. dg \in Datagram /\ dg.src = "other"
  BY StrayType
<1>4. early' = early + 1
  BY <1>2, <1>3 DEF Stray, Accepts
<1>5. sock \in Seq(Datagram)
  BY DEF TypeInv, TypeOK
<1>6. Count(sock', Strays) = Count(sock, Strays) + 1
  BY <1>2, <1>3, <1>5, CountAppend
<1>7. /\ foreign \in Nat /\ early \in Nat /\ Count(sock, Strays) \in Nat
      /\ ForeignIn(out) \in {0, 1}
  BY StraysNumbers DEF TypeInv
<1>8. foreign + ForeignIn(out) + (Count(sock, Strays) + 1) <= early + 1
  BY <1>7 DEF StraysCounted
<1>9. QED
  BY <1>1, <1>4, <1>6, <1>8 DEF StraysCounted

LEMMA NextStrays == TypeInv /\ StraysCounted /\ [Next]_vars => StraysCounted'
<1> SUFFICES ASSUME TypeInv, StraysCounted, [Next]_vars PROVE StraysCounted'
  OBVIOUS
<1>1. CASE Sender \/ FrameArrives \/ RestartSender \/ Lose \/ UNCHANGED vars
  <2>1. foreign' = foreign /\ out' = out /\ sock' = sock /\ early' = early
    BY <1>1 DEF Sender, FrameArrives, RestartSender, Lose, vars, receiverVars
  <2>2. QED
    BY <2>1 DEF StraysCounted
<1>2. CASE Receiver
  <2>1. early' = early
    BY <1>2 DEF Receiver
  <2>2. CASE ReceiverSetsUp \/ ReceiverReadFails
    BY <2>1, <2>2, FewerStrays DEF ReceiverSetsUp, ReceiverReadFails
  <2>3. QED
    BY <1>2, <2>1, <2>2, ReadStrays, WriteStrays DEF Receiver
<1>3. CASE RestartReceiver
  BY <1>3, FewerStrays DEF RestartReceiver
<1>4. CASE Carry
  BY <1>4, CarryStrays
<1>5. CASE Stray
  BY <1>5, StrayStrays
<1>6. QED
  BY <1>1, <1>2, <1>3, <1>4, <1>5 DEF Next

LEMMA InitStrays == Init => StraysCounted
BY CountEmpty DEF Init, StraysCounted, ForeignIn

\* At most one frame from elsewhere is written for every datagram that came
\* between bind() and connect(), and none otherwise (ForeignOnlyEarly).
THEOREM OnlyEarlyStraysAreWritten == Spec => []ForeignOnlyEarly
<1>1. TypeInv /\ StraysCounted => ForeignOnlyEarly
  <2> SUFFICES ASSUME TypeInv, StraysCounted PROVE ForeignOnlyEarly
    OBVIOUS
  <2>1. /\ foreign \in Nat /\ early \in Nat /\ Count(sock, Strays) \in Nat
        /\ ForeignIn(out) \in {0, 1}
    BY StraysNumbers DEF TypeInv
  <2>2. QED
    BY <2>1 DEF StraysCounted, ForeignOnlyEarly
<1>2. QED
  BY InitType, NextType, InitStrays, NextStrays, <1>1, PTL DEF Spec

-----------------------------------------------------------------------------
\* What the programs end over

\* A packet fits `payload`, padded or not, when -p does.
LEMMA FitsPayload ==
    ASSUME TypeInv, spc = "send", PastPayload(PacketOf(buffer[1]))
    PROVE  UsesGse /\ args.payload_len > GSE_MAX_PACKET_LENGTH
<1>1. PICK pdu \in Pdu : pdu = buffer[1]
  BY SentPacket
<1>2. PICK pkt : pkt = PacketOf(pdu)
  OBVIOUS
<1>3. UsesGse /\ PacketLen(pkt) + Padding(pkt) > GSE_MAX_PACKET_LENGTH
  BY <1>1, <1>2 DEF PastPayload
<1>4. pkt \in Packet /\ PacketLen(pkt) <= GSE_MAX_PACKET_LENGTH
  BY <1>2, <1>3, NextPacketType, ConstantsType DEF PacketOf
<1>5. PacketLen(pkt) \in Nat /\ args.payload_len \in Nat /\ GSE_MAX_PACKET_LENGTH \in Nat
  BY <1>4, PacketLenType, ArgsType, ConstantsType DEF TypeInv
<1>6. QED
  BY <1>3, <1>4, <1>5 DEF Padding

LEMMA NextSenderSurvives == TypeInv /\ SenderSurvives /\ [Next]_vars => SenderSurvives'
<1> SUFFICES ASSUME TypeInv, SenderSurvives, [Next]_vars PROVE SenderSurvives'
  OBVIOUS
<1>1. ASSUME UNCHANGED <<args, unreachable>>, failed' = TRUE
      PROVE  SenderSurvives'
  BY <1>1 DEF SenderSurvives
<1>2. CASE Sender
  <2>1. UNCHANGED <<args, unreachable>>
    BY <1>2 DEF Sender
  <2>2. CASE SenderSetsUp
    BY <1>1, <2>1, <2>2, AfterSetupType DEF SenderSetsUp, CallFails, SenderSurvives
  <2>3. CASE SenderReads
    <3>1. Readable > GSE_MAX_PDU_LEN => ~UsesGse /\ args.buffer_len > GSE_MAX_PDU_LEN
      BY ConstantsType DEF Readable
    <3>2. QED
      BY <2>1, <2>3, <3>1 DEF SenderReads, AllWell, SenderSurvives, UsesGse
  <2>4. CASE SenderReadFails
    BY <1>1, <2>1, <2>4 DEF SenderReadFails, CallFails
  <2>5. CASE SenderSends
    <3>1. refused => unreachable
      BY DEF TypeInv, Stages
    <3>2. spc' # "panicked" \/ PastPayload(PacketOf(buffer[1])) \/ refused \/ CallFails
      BY <2>5 DEF SenderSends
    <3>3. CASE CallFails
      BY <1>1, <2>1, <3>3 DEF CallFails
    <3>4. CASE PastPayload(PacketOf(buffer[1]))
      <4>1. UsesGse /\ args.payload_len > GSE_MAX_PACKET_LENGTH
        BY <2>5, <3>4, FitsPayload DEF SenderSends
      <4>2. QED
        BY <2>1, <4>1 DEF SenderSurvives, UsesGse
    <3>5. QED
      BY <2>1, <3>1, <3>2, <3>3, <3>4 DEF SenderSurvives
  <2>6. QED
    BY <1>2, <2>2, <2>3, <2>4, <2>5 DEF Sender
<1>3. CASE ~Sender
  <2>1. args' = args /\ (spc' = spc \/ spc' = "args")
    BY <1>3 DEF Next, Receiver, FrameArrives, RestartSender, RestartReceiver, Carry, Lose, Stray,
               vars, senderVars
  <2>2. unreachable => unreachable'
    BY <1>3 DEF Next, Receiver, FrameArrives, RestartSender, RestartReceiver, Carry, Lose, Stray, vars
  <2>3. failed => failed'
    BY <1>3 DEF Next, Receiver, ReceiverSetsUp, ReceiverReads, ReceiverReadFails, ReceiverWrites,
               CallFails, AllWell, FrameArrives, RestartSender, RestartReceiver, Carry, Lose, Stray, vars
  <2>4. QED
    BY <2>1, <2>2, <2>3 DEF SenderSurvives, UsesGse
<1>4. QED
  BY <1>2, <1>3

\* The sender ends only over a failing call, -p or -b beyond its buffers, or a
\* datagram that met no receiver (SenderSurvives).
THEOREM WhatTheSenderEndsOver == Spec => []SenderSurvives
<1>1. Init => SenderSurvives
  BY DEF Init, SenderSurvives
<1>2. QED
  BY InitType, NextType, <1>1, NextSenderSurvives, PTL DEF Spec

LEMMA NextReceiverSurvives ==
    TypeInv /\ StraysCounted /\ ReceiverSurvives /\ [Next]_vars => ReceiverSurvives'
<1> SUFFICES ASSUME TypeInv, StraysCounted, ReceiverSurvives, [Next]_vars
             PROVE  ReceiverSurvives'
  OBVIOUS
<1>1. CASE ReceiverReads /\ UNCHANGED <<args, senderVars, refused, wire, early, unreachable>>
  <2>1. UNCHANGED <<args, accepted, early>>
    BY <1>1 DEF senderVars
  <2>2. CASE UsesGse => Goes(Head(sock))
    BY <1>1, <2>2 DEF ReceiverReads, ReceiverSurvives
  <2>3. CASE ~(UsesGse => Goes(Head(sock)))
    <3>1. PICK dg \in Datagram :
            /\ dg = Head(sock) /\ dg = sock[1] /\ 1 \in 1..Len(sock)
            /\ dg.pkts # <<>>
            /\ dg \in Strays \/ Carried(dg, accepted, UsesGse)
      BY <1>1, HeadOfSock DEF ReceiverReads
    <3>2. storages > 0
      BY <1>1, ConstantsType DEF ReceiverReads, TypeInv, Stages
    <3>3. UsesGse /\ ~IsComplete(dg.pkts[1])
      BY <2>3, <3>1, <3>2 DEF Goes
    <3>4. early > 0 \/ \E f \in accepted : Long(f)
      <4>1. CASE dg \in Strays
        <5>1. /\ foreign \in Nat /\ early \in Nat /\ Count(sock, Strays) \in Nat
              /\ ForeignIn(out) \in {0, 1}
          BY StraysNumbers DEF TypeInv
        <5>2. sock \in Seq(Datagram)
          BY DEF TypeInv, TypeOK
        <5>3. Count(sock, Strays) # 0
          BY <3>1, <4>1, <5>2, CountType
        <5>4. QED
          BY <5>1, <5>3 DEF StraysCounted
      <4>2. CASE Carried(dg, accepted, UsesGse)
        BY <3>3, <4>2 DEF Carried, PeerPacket
      <4>3. QED
        BY <3>1, <4>1, <4>2
    <3>5. QED
      BY <2>1, <3>3, <3>4 DEF ReceiverSurvives, UsesGse
  <2>4. QED
    BY <2>2, <2>3
<1>2. CASE ~(ReceiverReads /\ UNCHANGED <<args, senderVars, refused, wire, early, unreachable>>)
  <2>1. rpc' = "returned" => rpc = "returned"
    <3>1. CASE Receiver
      BY <1>2, <3>1, AfterSetupType
         DEF Receiver, ReceiverSetsUp, ReceiverReadFails, ReceiverWrites
    <3>2. CASE ~Receiver
      BY <3>2 DEF Next, Sender, FrameArrives, RestartSender, RestartReceiver, Carry, Lose, Stray,
                 vars, receiverVars
    <3>3. QED
      BY <3>1, <3>2
  <2>2. accepted \subseteq accepted' /\ args' = args
    BY DEF Next, Sender, SenderSetsUp, SenderReads, SenderReadFails, SenderSends, Receiver,
           FrameArrives, RestartSender, RestartReceiver, Carry, Lose, Stray, vars, senderVars
  <2>3. early > 0 => early' > 0
    <3>1. early \in Nat
      BY ConstantsType DEF TypeInv, TypeOK
    <3>2. early' = early \/ early' = early + 1
      BY DEF Next, Sender, Receiver, FrameArrives, RestartSender, RestartReceiver, Carry, Lose,
             Stray, vars
    <3>3. QED
      BY <3>1, <3>2
  <2>4. QED
    BY <2>1, <2>2, <2>3 DEF ReceiverSurvives, UsesGse
<1>3. QED
  BY <1>1, <1>2

\* The receiver leaves its loop only over a fragment of a long frame or a
\* datagram that came before connect(): never for want of a storage
\* (ReceiverSurvives).
THEOREM WhatTheReceiverEndsOver == Spec => []ReceiverSurvives
<1>1. Init => ReceiverSurvives
  BY DEF Init, ReceiverSurvives
<1>2. QED
  BY InitType, NextType, InitStrays, NextStrays, <1>1, NextReceiverSurvives, PTL DEF Spec

-----------------------------------------------------------------------------
\* What is under way stays in order

\* r is q, q without its head, or empty.
Part(r, q) == \E d \in {0, 1} : \A k \in 1..Len(r) : k + d \in 1..Len(q) /\ r[k] = q[k + d]

LEMMA Parts ==
    ASSUME NEW T, NEW q \in Seq(T)
    PROVE  Part(q, q) /\ Part(<<>>, q) /\ (q # <<>> => Part(Tail(q), q))
<1>1. Part(q, q)
  <2>1. \A k \in 1..Len(q) : k + 0 \in 1..Len(q) /\ q[k] = q[k + 0]
    OBVIOUS
  <2>2. QED
    BY <2>1 DEF Part
<1>2. Part(<<>>, q)
  BY DEF Part
<1>3. ASSUME q # <<>> PROVE Part(Tail(q), q)
  <2>1. \A k \in 1..Len(Tail(q)) : k + 1 \in 1..Len(q) /\ Tail(q)[k] = q[k + 1]
    BY <1>3, TailElements
  <2>2. QED
    BY <2>1 DEF Part
<1>4. QED
  BY <1>1, <1>2, <1>3

LEMMA FewerInLine ==
    ASSUME NEW w, NEW s, NEW b, NEW w2, NEW s2, NEW b2,
           Part(w2, w), Part(s2, s), b2 \in {b, <<>>}
    PROVE  /\ InLine(w, s, b) => InLine(w2, s2, b2)
           /\ \A f : Over(f, w, s, b) => Over(f, w2, s2, b2)
<1>1. PICK d \in {0, 1} : \A k \in 1..Len(w2) : k + d \in 1..Len(w) /\ w2[k] = w[k + d]
  BY DEF Part
<1>2. PICK e \in {0, 1} : \A k \in 1..Len(s2) : k + e \in 1..Len(s) /\ s2[k] = s[k + e]
  BY DEF Part
<1>3. ASSUME InLine(w, s, b) PROVE InLine(w2, s2, b2)
  <2>1. \A j, k \in 1..Len(w2) : j < k => InTurn(w2[j], w2[k])
    <3>1. \A j, k \in 1..Len(w2) : j < k => j + d < k + d
      OBVIOUS
    <3>2. QED
      BY <1>1, <1>3, <3>1 DEF InLine
  <2>2. \A j, k \in 1..Len(s2) : j < k /\ s2[k].src = "remote" => InTurn(s2[j], s2[k])
    <3>1. \A j, k \in 1..Len(s2) : j < k => j + e < k + e
      OBVIOUS
    <3>2. QED
      BY <1>2, <1>3, <3>1 DEF InLine
  <2>3. \A j \in 1..Len(s2) : \A k \in 1..Len(w2) : InTurn(s2[j], w2[k])
    BY <1>1, <1>2, <1>3 DEF InLine
  <2>4. b2 # <<>> => /\ \A k \in 1..Len(w2) : BeforePdu(w2[k], b2[1])
                    /\ \A k \in 1..Len(s2) : BeforePdu(s2[k], b2[1])
    BY <1>1, <1>2, <1>3 DEF InLine
  <2>5. QED
    BY <2>1, <2>2, <2>3, <2>4 DEF InLine
<1>4. ASSUME NEW f, Over(f, w, s, b) PROVE Over(f, w2, s2, b2)
  BY <1>1, <1>2, <1>4 DEF Over
<1>5. QED
  BY <1>3, <1>4

\* A datagram reaches the socket's buffer.
LEMMA CarriedInLine ==
    ASSUME NEW w \in Seq(Datagram), NEW s \in Seq(Datagram), NEW b, w # <<>>
    PROVE  /\ InLine(w, s, b) => InLine(Tail(w), Append(s, Head(w)), b)
           /\ \A f : Over(f, w, s, b) => Over(f, Tail(w), Append(s, Head(w)), b)
<1>1. /\ 1 \in 1..Len(w) /\ Head(w) = w[1] /\ Head(w) \in Datagram
      /\ \A k \in 1..Len(Tail(w)) : Tail(w)[k] = w[k + 1] /\ k + 1 \in 1..Len(w) /\ 1 < k + 1
  BY TailElements
<1>2. PICK r : r = Tail(w)
  OBVIOUS
<1>3. PICK t : t = Append(s, Head(w))
  OBVIOUS
<1>4. \A k \in 1..Len(r) : r[k] = w[k + 1] /\ k + 1 \in 1..Len(w) /\ 1 < k + 1
  BY <1>1, <1>2
<1>5. /\ Len(t) = Len(s) + 1 /\ t[Len(s) + 1] = w[1]
      /\ \A k \in 1..Len(s) : t[k] = s[k]
      /\ \A k \in 1..(Len(s) + 1) : k \in 1..Len(s) \/ k = Len(s) + 1
  BY <1>1, <1>3, AppendElements
<1>6. Len(s) \in Nat
  OBVIOUS
<1>7. ASSUME InLine(w, s, b) PROVE InLine(r, t, b)
  <2>1. \A j, k \in 1..Len(r) : j < k => InTurn(r[j], r[k])
    <3>1. \A j, k \in 1..Len(r) : j < k => j + 1 < k + 1
      OBVIOUS
    <3>2. QED
      BY <1>4, <1>7, <3>1 DEF InLine
  <2>2. \A j, k \in 1..Len(t) : j < k /\ t[k].src = "remote" => InTurn(t[j], t[k])
    <3>1. SUFFICES ASSUME NEW j \in 1..(Len(s) + 1), NEW k \in 1..(Len(s) + 1),
                          j < k, t[k].src = "remote"
                   PROVE  InTurn(t[j], t[k])
      BY <1>5
    <3>2. j \in 1..Len(s)
      BY <1>6, <3>1
    <3>3. CASE k \in 1..Len(s)
      BY <1>5, <1>7, <3>1, <3>2, <3>3 DEF InLine
    <3>4. CASE k = Len(s) + 1
      BY <1>1, <1>5, <1>7, <3>2, <3>4 DEF InLine
    <3>5. QED
      BY <1>5, <3>3, <3>4
  <2>3. \A j \in 1..Len(t) : \A k \in 1..Len(r) : InTurn(t[j], r[k])
    <3>1. SUFFICES ASSUME NEW j \in 1..(Len(s) + 1), NEW k \in 1..Len(r)
                   PROVE  InTurn(t[j], r[k])
      BY <1>5
    <3>2. r[k] = w[k + 1] /\ k + 1 \in 1..Len(w) /\ 1 < k + 1
      BY <1>4
    <3>3. CASE j \in 1..Len(s)
      BY <1>5, <1>7, <3>2, <3>3 DEF InLine
    <3>4. CASE j = Len(s) + 1
      BY <1>1, <1>5, <1>7, <3>2, <3>4 DEF InLine
    <3>5. QED
      BY <1>5, <3>3, <3>4
  <2>4. b # <<>> => /\ \A k \in 1..Len(r) : BeforePdu(r[k], b[1])
                   /\ \A k \in 1..Len(t) : BeforePdu(t[k], b[1])
    BY <1>1, <1>4, <1>5, <1>7 DEF InLine
  <2>5. QED
    BY <2>1, <2>2, <2>3, <2>4 DEF InLine
<1>8. ASSUME NEW f, Over(f, w, s, b) PROVE Over(f, r, t, b)
  BY <1>1, <1>4, <1>5, <1>8 DEF Over
<1>9. QED
  BY <1>2, <1>3, <1>7, <1>8

\* A stray reaches it.
LEMMA StrayInLine ==
    ASSUME NEW w \in Seq(Datagram), NEW s \in Seq(Datagram), NEW b,
           NEW dg \in Datagram, dg.src = "other"
    PROVE  /\ InLine(w, s, b) => InLine(w, Append(s, dg), b)
           /\ \A f : Over(f, w, s, b) => Over(f, w, Append(s, dg), b)
<1>1. PICK t : t = Append(s, dg)
  OBVIOUS
<1>2. /\ Len(t) = Len(s) + 1 /\ t[Len(s) + 1] = dg
      /\ \A k \in 1..Len(s) : t[k] = s[k]
      /\ \A k \in 1..(Len(s) + 1) : k \in 1..Len(s) \/ k = Len(s) + 1
  BY <1>1, AppendElements
<1>3. Len(s) \in Nat /\ dg.src # "remote"
  OBVIOUS
<1>4. ASSUME InLine(w, s, b) PROVE InLine(w, t, b)
  <2>1. \A j, k \in 1..Len(t) : j < k /\ t[k].src = "remote" => InTurn(t[j], t[k])
    <3>1. SUFFICES ASSUME NEW j \in 1..(Len(s) + 1), NEW k \in 1..(Len(s) + 1),
                          j < k, t[k].src = "remote"
                   PROVE  InTurn(t[j], t[k])
      BY <1>2
    <3>2. k \in 1..Len(s)
      BY <1>2, <1>3, <3>1
    <3>3. j \in 1..Len(s)
      BY <1>3, <3>1
    <3>4. QED
      BY <1>2, <1>4, <3>1, <3>2, <3>3 DEF InLine
  <2>2. \A j \in 1..Len(t) : \A k \in 1..Len(w) : InTurn(t[j], w[k])
    BY <1>2, <1>4 DEF InLine, InTurn
  <2>3. b # <<>> => \A k \in 1..Len(t) : BeforePdu(t[k], b[1])
    BY <1>2, <1>4 DEF InLine, BeforePdu
  <2>4. QED
    BY <1>4, <2>1, <2>2, <2>3 DEF InLine
<1>5. ASSUME NEW f, Over(f, w, s, b) PROVE Over(f, w, t, b)
  BY <1>2, <1>3, <1>5 DEF Over
<1>6. QED
  BY <1>1, <1>4, <1>5

\* The sender sends a packet of the PDU in its buffer, and the last one
\* empties the buffer.
LEMMA SentInLine ==
    ASSUME NEW w \in Seq(Datagram), NEW s \in Seq(Datagram), NEW b, NEW b2, NEW dg \in Datagram,
           b # <<>>, b[1] \in Pdu,
           dg.src = "remote", dg.pkts[1].id = b[1].id, dg.pkts[1].from = b[1].sent,
           b2 # <<>> => /\ b2[1].id = b[1].id /\ b2[1].sent > 0
                        /\ ~IsComplete(dg.pkts[1])
    PROVE  /\ InLine(w, s, b) => InLine(Append(w, dg), s, b2)
           /\ \A f : Over(f, w, s, b) => Over(f, Append(w, dg), s, b2)
<1>1. PICK v : v = Append(w, dg)
  OBVIOUS
<1>2. /\ Len(v) = Len(w) + 1 /\ v[Len(w) + 1] = dg
      /\ \A k \in 1..Len(w) : v[k] = w[k]
      /\ \A k \in 1..(Len(w) + 1) : k \in 1..Len(w) \/ k = Len(w) + 1
  BY <1>1, AppendElements
<1>3. Len(w) \in Nat /\ b[1].sent \in Nat
  BY DEF Pdu
<1>4. ASSUME NEW x, BeforePdu(x, b[1]) PROVE InTurn(x, dg)
  <2>1. b[1].sent > 0 => ~IsComplete(dg.pkts[1])
    BY <1>3 DEF IsComplete, IsStart
  <2>2. QED
    BY <1>4, <2>1 DEF BeforePdu, InTurn, Before
<1>5. ASSUME NEW x, BeforePdu(x, b[1]), b2 # <<>> PROVE BeforePdu(x, b2[1])
  BY <1>5 DEF BeforePdu
<1>6. b2 # <<>> => BeforePdu(dg, b2[1])
  BY DEF BeforePdu
<1>7. ASSUME InLine(w, s, b) PROVE InLine(v, s, b2)
  <2>1. /\ \A k \in 1..Len(w) : BeforePdu(w[k], b[1])
        /\ \A k \in 1..Len(s) : BeforePdu(s[k], b[1])
    BY <1>7 DEF InLine
  <2>2. \A j, k \in 1..Len(v) : j < k => InTurn(v[j], v[k])
    <3>1. SUFFICES ASSUME NEW j \in 1..(Len(w) + 1), NEW k \in 1..(Len(w) + 1), j < k
                   PROVE  InTurn(v[j], v[k])
      BY <1>2
    <3>2. j \in 1..Len(w)
      BY <1>3, <3>1
    <3>3. CASE k \in 1..Len(w)
      BY <1>2, <1>7, <3>1, <3>2, <3>3 DEF InLine
    <3>4. CASE k = Len(w) + 1
      BY <1>2, <1>4, <2>1, <3>2, <3>4
    <3>5. QED
      BY <1>2, <3>3, <3>4
  <2>3. \A j \in 1..Len(s) : \A k \in 1..Len(v) : InTurn(s[j], v[k])
    <3>1. SUFFICES ASSUME NEW j \in 1..Len(s), NEW k \in 1..(Len(w) + 1)
                   PROVE  InTurn(s[j], v[k])
      BY <1>2
    <3>2. CASE k \in 1..Len(w)
      BY <1>2, <1>7, <3>2 DEF InLine
    <3>3. CASE k = Len(w) + 1
      BY <1>2, <1>4, <2>1, <3>3
    <3>4. QED
      BY <1>2, <3>2, <3>3
  <2>4. b2 # <<>> => /\ \A k \in 1..Len(v) : BeforePdu(v[k], b2[1])
                    /\ \A k \in 1..Len(s) : BeforePdu(s[k], b2[1])
    BY <1>2, <1>5, <1>6, <2>1
  <2>5. QED
    BY <1>7, <2>2, <2>3, <2>4 DEF InLine
<1>8. ASSUME NEW f, Over(f, w, s, b) PROVE Over(f, v, s, b2)
  BY <1>2, <1>8 DEF Over
<1>9. QED
  BY <1>1, <1>7, <1>8

-----------------------------------------------------------------------------
\* Every step keeps the order

LEMMA OneMoreFrame ==
    ASSUME TypeInv, FramesInOrder, FrameArrives
    PROVE  FramesInOrder'
<1>1. accepted' = accepted /\ arrived' = arrived + 1 /\ arrived \in Nat
  BY ConstantsType DEF FrameArrives, TypeInv, TypeOK
<1>2. tap_s \in Seq(Frame) /\ accepted \subseteq Frame
  BY DEF TypeInv, TypeOK
<1>3. \A g \in Frame : g.id \in Nat /\ (g.id <= arrived => g.id <= arrived + 1 /\ g.id < arrived + 1)
  BY <1>1, ConstantsType DEF Frame
<1>4. \A i \in 1..Len(tap_s) : tap_s[i] \in Frame
  BY <1>2
<1>5. CASE tap_s' = tap_s
  BY <1>1, <1>2, <1>3, <1>4, <1>5 DEF FramesInOrder
<1>6. ASSUME NEW l \in FrameLens, tap_s' = Append(tap_s, [id |-> arrived + 1, len |-> l])
      PROVE  FramesInOrder'
  <2>1. PICK g \in Frame : g = [id |-> arrived + 1, len |-> l]
    <3>1. arrived + 1 \in 1..MaxFrames
      BY <1>1, ConstantsType DEF FrameArrives, TypeInv, TypeOK
    <3>2. l \in Nat \ {0}
      BY ConstantsType
    <3>3. [id |-> arrived + 1, len |-> l] \in Frame
      BY <3>1, <3>2 DEF Frame
    <3>4. QED
      BY <3>3
  <2>2. PICK t : t = Append(tap_s, g)
    OBVIOUS
  <2>3. /\ Len(t) = Len(tap_s) + 1 /\ t[Len(tap_s) + 1] = g
        /\ \A k \in 1..Len(tap_s) : t[k] = tap_s[k]
        /\ \A k \in 1..(Len(tap_s) + 1) : k \in 1..Len(tap_s) \/ k = Len(tap_s) + 1
    BY <1>2, <2>2, AppendElements
  <2>4. \A i, j \in 1..Len(t) : i < j => t[i].id < t[j].id
    <3>1. SUFFICES ASSUME NEW i \in 1..(Len(tap_s) + 1), NEW j \in 1..(Len(tap_s) + 1), i < j
                   PROVE  t[i].id < t[j].id
      BY <2>3
    <3>2. i \in 1..Len(tap_s)
      BY <1>2, <3>1
    <3>3. CASE j \in 1..Len(tap_s)
      BY <2>3, <3>1, <3>2, <3>3 DEF FramesInOrder
    <3>4. CASE j = Len(tap_s) + 1
      BY <1>3, <1>4, <2>1, <2>3, <3>2, <3>4 DEF FramesInOrder
    <3>5. QED
      BY <2>3, <3>3, <3>4
  <2>5. \A i \in 1..Len(t) : t[i].id <= arrived + 1
    BY <1>1, <1>3, <1>4, <2>1, <2>3 DEF FramesInOrder
  <2>6. \A f \in accepted : f.id <= arrived + 1 /\ f.len <= GSE_MAX_PDU_LEN
    BY <1>2, <1>3 DEF FramesInOrder
  <2>7. \A f \in accepted : \A i \in 1..Len(t) : f.id < t[i].id
    BY <1>2, <1>3, <2>1, <2>3 DEF FramesInOrder
  <2>8. tap_s' = t
    BY <1>6, <2>1, <2>2
  <2>9. QED
    BY <1>1, <2>4, <2>5, <2>6, <2>7, <2>8 DEF FramesInOrder
<1>7. QED
  BY <1>5, <1>6 DEF FrameArrives

\* The frame that is read comes after every accepted one and before those
\* that wait.
LEMMA OneFrameRead ==
    ASSUME TypeInv, FramesInOrder, tap_s # <<>>, tap_s' = Tail(tap_s), arrived' = arrived,
           NEW f \in Frame, f.id = Head(tap_s).id, f.len <= GSE_MAX_PDU_LEN,
           accepted' = accepted \union {f}
    PROVE  FramesInOrder' /\ \A g \in accepted : g.id < f.id
<1>1. tap_s \in Seq(Frame)
  BY DEF TypeInv, TypeOK
<1>2. PICK t : t = Tail(tap_s)
  OBVIOUS
<1>3. /\ 1 \in 1..Len(tap_s) /\ Head(tap_s) = tap_s[1]
      /\ \A k \in 1..Len(t) : t[k] = tap_s[k + 1] /\ k + 1 \in 1..Len(tap_s) /\ 1 < k + 1
  BY <1>1, <1>2, TailElements
<1>4. \A g \in accepted : g.id < f.id
  BY <1>3 DEF FramesInOrder
<1>5. \A i, j \in 1..Len(t) : i < j => t[i].id < t[j].id
  <2>1. \A i, j \in 1..Len(t) : i < j => i + 1 < j + 1
    OBVIOUS
  <2>2. QED
    BY <1>3, <2>1 DEF FramesInOrder
<1>6. \A i \in 1..Len(t) : t[i].id <= arrived
  BY <1>3 DEF FramesInOrder
<1>7. \A g \in accepted \union {f} : g.id <= arrived /\ g.len <= GSE_MAX_PDU_LEN
  BY <1>3 DEF FramesInOrder
<1>8. \A g \in accepted \union {f} : \A i \in 1..Len(t) : g.id < t[i].id
  BY <1>3 DEF FramesInOrder
<1>9. QED
  BY <1>2, <1>4, <1>5, <1>6, <1>7, <1>8 DEF FramesInOrder

\* Nothing is written, and what is over stays over.
LEMMA WrittenKept ==
    ASSUME TypeInv, WrittenInOrder, UNCHANGED tap_d, out' \in {out, <<>>}, accepted \subseteq accepted',
           \A f \in accepted : Over(f, wire, sock, buffer) => Over(f, wire', sock', buffer')
    PROVE  WrittenInOrder'
<1>1. out # <<>> /\ out[1].id # Foreign => out[1] \in accepted
  BY DEF TypeInv, Traffic
<1>2. \A k \in 1..Len(tap_d) : tap_d[k] \in accepted' /\ Over(tap_d[k], wire', sock', buffer')
  BY DEF WrittenInOrder
<1>3. out' # <<>> /\ out'[1].id # Foreign =>
        /\ Over(out'[1], wire', sock', buffer')
        /\ \A k \in 1..Len(tap_d) : tap_d[k].id < out'[1].id
  BY <1>1 DEF WrittenInOrder
<1>4. IsFiniteSet(Range(tap_d)) /\ Cardinality(Range(tap_d)) = Len(tap_d)
  BY DEF WrittenInOrder
<1>5. QED
  BY <1>2, <1>3, <1>4 DEF WrittenInOrder

\* Something is lost, or nothing moves.
LEMMA FewerInOrder ==
    ASSUME TypeInv, InLine(wire, sock, buffer), WrittenInOrder,
           UNCHANGED <<tap_d, accepted>>, out' \in {out, <<>>}, buffer' \in {buffer, <<>>},
           wire' = wire \/ (wire # <<>> /\ wire' = Tail(wire)), sock' \in {sock, <<>>}
    PROVE  InLine(wire, sock, buffer)' /\ WrittenInOrder'
<1>1. wire \in Seq(Datagram) /\ sock \in Seq(Datagram)
  BY DEF TypeInv, TypeOK
<1>2. PICK w, s, b : w = wire' /\ s = sock' /\ b = buffer'
  OBVIOUS
<1>3. Part(w, wire)
  <2>1. Part(wire, wire) /\ (wire # <<>> => Part(Tail(wire), wire))
    BY <1>1, Parts
  <2>2. CASE w = wire
    BY <2>1, <2>2
  <2>3. CASE wire # <<>> /\ w = Tail(wire)
    BY <2>1, <2>3
  <2>4. QED
    BY <1>2, <2>2, <2>3
<1>4. Part(s, sock)
  <2>1. Part(sock, sock) /\ Part(<<>>, sock)
    BY <1>1, Parts
  <2>2. CASE s = sock
    BY <2>1, <2>2
  <2>3. CASE s = <<>>
    BY <2>1, <2>3
  <2>4. QED
    BY <1>2, <2>2, <2>3
<1>5. /\ InLine(w, s, b)
      /\ \A f : Over(f, wire, sock, buffer) => Over(f, w, s, b)
  BY <1>2, <1>3, <1>4, FewerInLine
<1>6. QED
  BY <1>2, <1>5, WrittenKept

LEMMA CarryInOrder ==
    ASSUME TypeInv, InLine(wire, sock, buffer), WrittenInOrder, Carry
    PROVE  InLine(wire, sock, buffer)' /\ WrittenInOrder'
<1>1. /\ UNCHANGED <<tap_d, accepted, out, buffer>> /\ wire # <<>> /\ wire' = Tail(wire)
      /\ sock' = sock \/ sock' = Append(sock, Head(wire))
  BY DEF Carry, senderVars, receiverVars
<1>2. CASE sock' = sock
  BY <1>1, <1>2, FewerInOrder
<1>3. CASE sock' = Append(sock, Head(wire))
  <2>1. wire \in Seq(Datagram) /\ sock \in Seq(Datagram)
    BY DEF TypeInv, TypeOK
  <2>2. /\ InLine(Tail(wire), Append(sock, Head(wire)), buffer)
        /\ \A f : Over(f, wire, sock, buffer)
               => Over(f, Tail(wire), Append(sock, Head(wire)), buffer)
    BY <1>1, <2>1, CarriedInLine
  <2>3. /\ InLine(wire', sock', buffer')
        /\ \A f : Over(f, wire, sock, buffer) => Over(f, wire', sock', buffer')
    BY <1>1, <1>3, <2>2
  <2>4. QED
    BY <1>1, <2>3, WrittenKept
<1>4. QED
  BY <1>1, <1>2, <1>3

LEMMA StrayInOrder ==
    ASSUME TypeInv, InLine(wire, sock, buffer), WrittenInOrder, Stray
    PROVE  InLine(wire, sock, buffer)' /\ WrittenInOrder'
<1>1. UNCHANGED <<tap_d, accepted, out, buffer, wire>>
  BY DEF Stray, senderVars, receiverVars
<1>2. PICK dg \in Strays : sock' = Append(sock, dg)
  BY DEF Stray
<1>3. dg \in Datagram /\ dg.src = "other"
  BY StrayType
<1>4. wire \in Seq(Datagram) /\ sock \in Seq(Datagram)
  BY DEF TypeInv, TypeOK
<1>5. /\ InLine(wire, Append(sock, dg), buffer)
      /\ \A f : Over(f, wire, sock, buffer) => Over(f, wire, Append(sock, dg), buffer)
  BY <1>3, <1>4, StrayInLine
<1>6. /\ InLine(wire', sock', buffer')
      /\ \A f : Over(f, wire, sock, buffer) => Over(f, wire', sock', buffer')
  BY <1>1, <1>2, <1>5
<1>7. QED
  BY <1>1, <1>6, WrittenKept

LEMMA SendInOrder ==
    ASSUME TypeInv, InLine(wire, sock, buffer), WrittenInOrder, SenderSends,
           UNCHANGED <<args, receiverVars, sock, early, unreachable>>
    PROVE  InLine(wire, sock, buffer)' /\ WrittenInOrder'
<1>1. PICK pkt \in Packet :
        /\ buffer # <<>> /\ Len(buffer) = 1 /\ Head(buffer) = buffer[1] /\ buffer[1] \in Pdu
        /\ pkt = PacketOf(buffer[1])
        /\ pkt.id = buffer[1].id /\ pkt.total = buffer[1].total
        /\ pkt.from = buffer[1].sent /\ pkt.from < pkt.to
  BY SentPacket DEF SenderSends
<1>2. UNCHANGED <<tap_d, accepted, out, sock>>
  BY DEF SenderSends, receiverVars
<1>3. PacketSent(pkt) \/ UNCHANGED <<buffer, wire>>
  BY <1>1 DEF SenderSends, PacketSent
<1>4. CASE UNCHANGED <<buffer, wire>>
  BY <1>2, <1>4, FewerInOrder
<1>5. CASE PacketSent(pkt)
  <2>1. PICK dg \in Datagram : /\ dg.src = "remote" /\ dg.pkts # <<>> /\ dg.pkts[1] = pkt
                               /\ wire' = Append(wire, dg)
    BY <1>1, <1>5, PacketSentType DEF TypeInv
  <2>2. /\ spc' = "recv" => buffer' = <<>>
        /\ spc' = "send" => /\ ~IsEnd(pkt) /\ buffer'[1].id = buffer[1].id
                            /\ buffer'[1].sent = pkt.to
        /\ spc' \in {"recv", "send"}
    BY <1>1, <1>5, PacketSentType DEF TypeInv
  <2>3. pkt.to > 0 /\ (~IsEnd(pkt) => ~IsComplete(pkt))
    BY <1>1 DEF Packet, IsComplete
  <2>4. PICK b : b = buffer'
    OBVIOUS
  <2>5. b # <<>> => b[1].id = buffer[1].id /\ b[1].sent > 0 /\ ~IsComplete(dg.pkts[1])
    BY <2>1, <2>2, <2>3, <2>4
  <2>6. wire \in Seq(Datagram) /\ sock \in Seq(Datagram)
    BY DEF TypeInv, TypeOK
  <2>7. /\ InLine(Append(wire, dg), sock, b)
        /\ \A f : Over(f, wire, sock, buffer) => Over(f, Append(wire, dg), sock, b)
    BY <1>1, <2>1, <2>5, <2>6, SentInLine
  <2>8. /\ InLine(wire', sock', buffer')
        /\ \A f : Over(f, wire, sock, buffer) => Over(f, wire', sock', buffer')
    BY <1>2, <2>1, <2>4, <2>7
  <2>9. QED
    BY <1>2, <2>8, WrittenKept
<1>6. QED
  BY <1>3, <1>4, <1>5

LEMMA ReadInOrder ==
    ASSUME TypeInv, OrderInv, FrameRead, spc = "recv", Readable <= GSE_MAX_PDU_LEN,
           UNCHANGED <<arrived, wire, sock, receiverVars>>
    PROVE  /\ OrderInv'
           /\ \E f \in Frame : /\ f.len <= GSE_MAX_PDU_LEN
                               /\ \A g \in accepted : g.id < f.id
                               /\ accepted' = accepted \union {f}
<1>1. PICK f \in Frame :
        /\ f.id = Head(tap_s).id /\ f.len <= GSE_MAX_PDU_LEN
        /\ buffer' = <<[id |-> f.id, total |-> f.len, sent |-> 0]>>
        /\ accepted' = accepted \union {f}
  BY FrameReadType
<1>2. FramesInOrder' /\ \A g \in accepted : g.id < f.id
  BY <1>1, OneFrameRead DEF FrameRead, OrderInv
<1>3. PICK b : b = buffer'
  OBVIOUS
<1>4. b # <<>> /\ b[1].id = f.id
  BY <1>1, <1>3
<1>5. \A d : Carried(d, accepted, UsesGse) => BeforePdu(d, b[1])
  BY <1>2, <1>4 DEF Carried, PeerPacket, BeforePdu
<1>6. \A d \in Strays : BeforePdu(d, b[1])
  BY StrayType DEF BeforePdu
<1>7. InLine(wire, sock, b)
  BY <1>5, <1>6 DEF OrderInv, InLine, TypeInv, Traffic
<1>8. \A g \in accepted : Over(g, wire, sock, buffer) => Over(g, wire, sock, b)
  BY <1>2, <1>4 DEF Over
<1>9. UNCHANGED <<tap_d, out>>
  BY DEF receiverVars
<1>10. InLine(wire', sock', buffer')
       /\ \A g \in accepted : Over(g, wire, sock, buffer) => Over(g, wire', sock', buffer')
  BY <1>3, <1>7, <1>8
<1>11. WrittenInOrder'
  BY <1>1, <1>9, <1>10, WrittenKept DEF OrderInv
<1>12. QED
  BY <1>1, <1>2, <1>10, <1>11 DEF OrderInv

\* The datagram in front of the socket's buffer is the oldest under way, and
\* as its packet is complete, nothing else of the frame is.
LEMMA TakeInOrder ==
    ASSUME TypeInv, InLine(wire, sock, buffer), WrittenInOrder, ReceiverReads,
           UNCHANGED <<args, senderVars, refused, wire, early, unreachable>>
    PROVE  InLine(wire, sock, buffer)' /\ WrittenInOrder'
<1>1. out = <<>> /\ UNCHANGED <<tap_d, accepted, buffer, wire>>
  BY ReadCases DEF senderVars
<1>2. CASE sock' = <<>> /\ out' = out
  BY <1>1, <1>2, FewerInOrder
<1>3. ASSUME NEW dg \in Datagram, NEW f \in [id : 1..Foreign, len : Nat \ {0}],
             sock # <<>>, dg = Head(sock), dg = sock[1],
             f.id = dg.pkts[1].id, f.id = Foreign <=> dg \in Strays,
             UsesGse => IsComplete(dg.pkts[1]), FrameTaken(dg, f)
      PROVE  InLine(wire, sock, buffer)' /\ WrittenInOrder'
  <2>1. wire \in Seq(Datagram) /\ sock \in Seq(Datagram)
    BY DEF TypeInv, TypeOK
  <2>2. PICK t : t = Tail(sock)
    OBVIOUS
  <2>3. /\ 1 \in 1..Len(sock)
        /\ \A k \in 1..Len(t) : t[k] = sock[k + 1] /\ k + 1 \in 1..Len(sock) /\ 1 < k + 1
    BY <1>3, <2>1, <2>2, TailElements
  <2>4. Part(t, sock) /\ Part(wire, wire)
    BY <1>3, <2>1, <2>2, Parts
  <2>5. /\ InLine(wire, t, buffer)
        /\ \A g : Over(g, wire, sock, buffer) => Over(g, wire, t, buffer)
    BY <2>4, FewerInLine
  <2>6. sock' = t /\ out' # <<>> /\ out'[1] = f
    BY <1>3, <2>2 DEF FrameTaken
  <2>7. \A k \in 1..Len(tap_d) : tap_d[k] \in accepted /\ Over(tap_d[k], wire, t, buffer)
    BY <2>5 DEF WrittenInOrder
  <2>8. ASSUME f.id # Foreign
        PROVE  /\ Over(f, wire, t, buffer)
               /\ \A k \in 1..Len(tap_d) : tap_d[k].id < f.id
    <3>1. dg.src = "remote" /\ IsComplete(dg.pkts[1])
      <4>1. Carried(dg, accepted, UsesGse)
        BY <1>3, <2>3, <2>8 DEF TypeInv, Traffic
      <4>2. QED
        BY <1>3, <4>1 DEF Carried, PeerPacket
    <3>2. ASSUME NEW x, InTurn(dg, x) PROVE f.id < x.pkts[1].id
      BY <1>3, <3>1, <3>2 DEF InTurn, Before
    <3>3. \A k \in 1..Len(wire) : f.id < wire[k].pkts[1].id
      BY <1>3, <2>3, <3>2 DEF InLine
    <3>4. \A k \in 1..Len(t) : t[k].src = "remote" => f.id < t[k].pkts[1].id
      BY <1>3, <2>3, <3>2 DEF InLine
    <3>5. buffer # <<>> => f.id < buffer[1].id
      BY <1>3, <2>3, <3>1 DEF InLine, BeforePdu
    <3>6. \A k \in 1..Len(tap_d) : tap_d[k].id < f.id
      BY <1>3, <2>3, <3>1 DEF WrittenInOrder, Over
    <3>7. QED
      BY <3>3, <3>4, <3>5, <3>6 DEF Over
  <2>9. IsFiniteSet(Range(tap_d)) /\ Cardinality(Range(tap_d)) = Len(tap_d)
    BY DEF WrittenInOrder
  <2>10. WrittenInOrder'
    BY <1>1, <2>6, <2>7, <2>8, <2>9 DEF WrittenInOrder
  <2>11. InLine(wire', sock', buffer')
    BY <1>1, <2>5, <2>6
  <2>12. QED
    BY <2>10, <2>11
<1>4. QED
  BY <1>2, <1>3, ReadCases

\* A frame of the peer is written behind all that were written.
LEMMA WriteInOrder ==
    ASSUME TypeInv, InLine(wire, sock, buffer), WrittenInOrder, ReceiverWrites,
           UNCHANGED <<args, senderVars, refused, wire, early, unreachable>>
    PROVE  InLine(wire, sock, buffer)' /\ WrittenInOrder'
<1>1. UNCHANGED <<accepted, buffer, wire>>
  BY DEF senderVars
<1>2. PICK f :
        /\ out # <<>> /\ f = out[1] /\ out' = <<>>
        /\ sock' = sock \/ sock' = <<>>
        /\ \/ UNCHANGED tap_d
           \/ /\ f.id # Foreign /\ f \in accepted /\ sock' = sock
              /\ tap_d' = Append(tap_d, f)
  BY WriteCases
<1>3. CASE UNCHANGED tap_d
  BY <1>1, <1>2, <1>3, FewerInOrder
<1>4. CASE f.id # Foreign /\ f \in accepted /\ sock' = sock /\ tap_d' = Append(tap_d, f)
  <2>1. tap_d \in Seq(Frame) /\ f \in Frame
    BY <1>4 DEF TypeInv, TypeOK
  <2>2. /\ Over(f, wire, sock, buffer)
        /\ \A k \in 1..Len(tap_d) : tap_d[k].id < f.id
    BY <1>2, <1>4 DEF WrittenInOrder
  <2>3. PICK t : t = Append(tap_d, f)
    OBVIOUS
  <2>4. /\ Len(t) = Len(tap_d) + 1 /\ t[Len(tap_d) + 1] = f
        /\ \A k \in 1..Len(tap_d) : t[k] = tap_d[k]
        /\ \A k \in 1..(Len(tap_d) + 1) : k \in 1..Len(tap_d) \/ k = Len(tap_d) + 1
    BY <2>1, <2>3, AppendElements
  <2>5. \A k \in 1..Len(t) : t[k] \in accepted /\ Over(t[k], wire, sock, buffer)
    BY <1>4, <2>2, <2>4 DEF WrittenInOrder
  <2>6. Range(t) = Range(tap_d) \union {f}
    BY <2>1, <2>3, RangeAppend
  <2>7. f \notin Range(tap_d)
    <3>1. f.id \in Nat
      BY <2>1, ConstantsType DEF Frame
    <3>2. DOMAIN tap_d = 1..Len(tap_d)
      BY <2>1
    <3>3. QED
      BY <2>2, <3>1, <3>2 DEF Range
  <2>8. IsFiniteSet(Range(t)) /\ Cardinality(Range(t)) = Len(t)
    BY <2>4, <2>6, <2>7, FS_AddElement DEF WrittenInOrder
  <2>9. WrittenInOrder'
    BY <1>1, <1>2, <1>4, <2>3, <2>5, <2>8 DEF WrittenInOrder
  <2>10. InLine(wire', sock', buffer')
    BY <1>1, <1>4
  <2>11. QED
    BY <2>9, <2>10
<1>5. QED
  BY <1>2, <1>3, <1>4

LEMMA InitOrder == Init => OrderInv
<1> SUFFICES ASSUME Init PROVE OrderInv
  OBVIOUS
<1>1. FramesInOrder
  BY DEF Init, FramesInOrder
<1>2. InLine(wire, sock, buffer)
  BY DEF Init, InLine
<1>3. WrittenInOrder
  <2>1. tap_d = <<>> /\ out = <<>>
    BY DEF Init
  <2>2. Range(<<>>) = {} /\ Len(<<>>) = 0
    BY DEF Range
  <2>3. QED
    BY <2>1, <2>2, FS_EmptySet DEF WrittenInOrder
<1>4. QED
  BY <1>1, <1>2, <1>3 DEF OrderInv

\* No step but SenderReads and FrameArrives moves a frame towards the sender.
LEMMA FramesKept ==
    ASSUME FramesInOrder, UNCHANGED <<arrived, accepted>>, tap_s' = tap_s \/ tap_s' = <<>>
    PROVE  FramesInOrder'
BY DEF FramesInOrder

LEMMA NextOrder == TypeInv /\ OrderInv /\ [Next]_vars => OrderInv'
<1> SUFFICES ASSUME TypeInv, OrderInv, [Next]_vars PROVE OrderInv'
  OBVIOUS
<1>1. FramesInOrder /\ InLine(wire, sock, buffer) /\ WrittenInOrder
  BY DEF OrderInv
<1>2. CASE Sender
  <2>1. UNCHANGED <<args, sock, receiverVars, early, unreachable>>
    BY <1>2 DEF Sender
  <2>2. CASE SenderSends
    <3>1. FramesInOrder'
      BY <1>1, <2>2, FramesKept DEF SenderSends
    <3>2. InLine(wire, sock, buffer)' /\ WrittenInOrder'
      BY <1>1, <2>1, <2>2, SendInOrder
    <3>3. QED
      BY <3>1, <3>2 DEF OrderInv
  <2>3. CASE SenderReads /\ FrameRead /\ Readable <= GSE_MAX_PDU_LEN
    BY <2>1, <2>3, ReadInOrder DEF SenderReads
  <2>4. CASE UNCHANGED <<tap_s, arrived, accepted, wire, buffer>>
    <3>1. FramesInOrder'
      BY <1>1, <2>4, FramesKept
    <3>2. InLine(wire, sock, buffer)' /\ WrittenInOrder'
      BY <1>1, <2>1, <2>4, FewerInOrder DEF receiverVars
    <3>3. QED
      BY <3>1, <3>2 DEF OrderInv
  <2>5. SenderReads => \/ FrameRead /\ Readable <= GSE_MAX_PDU_LEN
                      \/ UNCHANGED <<tap_s, arrived, accepted, wire, buffer>>
    <3>1. Readable \in Nat /\ GSE_MAX_PDU_LEN \in Nat
      BY ArgsType, ConstantsType DEF Readable, TypeInv
    <3>2. QED
      BY <3>1 DEF SenderReads, FrameRead
  <2>6. SenderSetsUp \/ SenderReadFails =>
            UNCHANGED <<tap_s, arrived, accepted, wire, buffer>>
    BY DEF SenderSetsUp, SenderReadFails
  <2>7. QED
    BY <1>2, <2>2, <2>3, <2>4, <2>5, <2>6 DEF Sender
<1>3. CASE Receiver
  <2>1. UNCHANGED <<args, senderVars, refused, wire, early, unreachable>>
    BY <1>3 DEF Receiver
  <2>2. FramesInOrder'
    BY <1>1, <2>1, FramesKept DEF senderVars
  <2>3. InLine(wire, sock, buffer)' /\ WrittenInOrder'
    <3>1. CASE ReceiverSetsUp \/ ReceiverReadFails
      BY <1>1, <2>1, <3>1, FewerInOrder DEF ReceiverSetsUp, ReceiverReadFails, senderVars
    <3>2. QED
      BY <1>1, <1>3, <2>1, <3>1, TakeInOrder, WriteInOrder DEF Receiver
  <2>4. QED
    BY <2>2, <2>3 DEF OrderInv
<1>4. CASE FrameArrives
  <2>1. FramesInOrder'
    BY <1>1, <1>4, OneMoreFrame
  <2>2. InLine(wire, sock, buffer)' /\ WrittenInOrder'
    BY <1>1, <1>4, FewerInOrder DEF FrameArrives, receiverVars
  <2>3. QED
    BY <2>1, <2>2 DEF OrderInv
<1>5. CASE RestartSender \/ RestartReceiver \/ Lose \/ UNCHANGED vars
  <2>1. FramesInOrder'
    BY <1>1, <1>5, FramesKept DEF RestartSender, RestartReceiver, Lose, vars, senderVars
  <2>2. InLine(wire, sock, buffer)' /\ WrittenInOrder'
    BY <1>1, <1>5, FewerInOrder
       DEF RestartSender, RestartReceiver, Lose, vars, senderVars, receiverVars
  <2>3. QED
    BY <2>1, <2>2 DEF OrderInv
<1>6. CASE Carry \/ Stray
  <2>1. FramesInOrder'
    BY <1>1, <1>6, FramesKept DEF Carry, Stray, senderVars
  <2>2. InLine(wire, sock, buffer)' /\ WrittenInOrder'
    BY <1>1, <1>6, CarryInOrder, StrayInOrder
  <2>3. QED
    BY <2>1, <2>2 DEF OrderInv
<1>7. QED
  BY <1>2, <1>3, <1>4, <1>5, <1>6 DEF Next

-----------------------------------------------------------------------------
\* The tunnel service

LEMMA StepImplements ==
    ASSUME TypeInv, OrderInv, [Next]_vars
    PROVE  [Service!Next]_(Service!serviceVars)
<1>1. CASE UNCHANGED <<accepted, tap_d>>
  BY <1>1 DEF Service!serviceVars
<1>2. ASSUME NEW f \in Frame, f.len <= GSE_MAX_PDU_LEN
      PROVE  f \in [id : 1..MaxFrames, len : 1..GSE_MAX_PDU_LEN]
  <2>1. f \in [id : 1..MaxFrames, len : Nat \ {0}]
    BY DEF Frame
  <2>2. f.len \in 1..GSE_MAX_PDU_LEN
    BY <1>2, <2>1, ConstantsType
  <2>3. QED
    BY <2>1, <2>2
<1>3. CASE Sender /\ SenderReads /\ FrameRead /\ Readable <= GSE_MAX_PDU_LEN
  <2>1. UNCHANGED <<arrived, wire, sock, receiverVars>>
    BY <1>3 DEF Sender, SenderReads
  <2>2. PICK f \in Frame : /\ f.len <= GSE_MAX_PDU_LEN
                           /\ \A g \in accepted : g.id < f.id
                           /\ accepted' = accepted \union {f}
    <3>1. spc = "recv"
      BY <1>3 DEF SenderReads
    <3>2. \E f \in Frame : /\ f.len <= GSE_MAX_PDU_LEN
                           /\ \A g \in accepted : g.id < f.id
                           /\ accepted' = accepted \union {f}
      BY <1>3, <2>1, <3>1, ReadInOrder
    <3>3. QED
      BY <3>2
  <2>3. f \in [id : 1..MaxFrames, len : 1..GSE_MAX_PDU_LEN]
    BY <1>2, <2>2
  <2>4. tap_d' = tap_d
    BY <2>1 DEF receiverVars
  <2>5. Service!Offer(f)
    BY <2>2, <2>4 DEF Service!Offer
  <2>6. QED
    BY <2>3, <2>5 DEF Service!Next
<1>4. CASE ReceiverWrites /\ tap_d' # tap_d /\ accepted' = accepted
  <2>1. PICK f : /\ out # <<>> /\ f = out[1] /\ f.id # Foreign /\ f \in accepted
                 /\ tap_d' = Append(tap_d, f)
    BY <1>4, WriteCases
  <2>2. f \in Frame /\ f.len <= GSE_MAX_PDU_LEN
    BY <2>1 DEF TypeInv, TypeOK, OrderInv, FramesInOrder
  <2>3. \A k \in 1..Len(tap_d) : tap_d[k].id < f.id
    BY <2>1 DEF OrderInv, WrittenInOrder
  <2>4. tap_d \in Seq(Frame)
    BY DEF TypeInv, TypeOK
  <2>5. OrderInv'
    BY NextOrder
  <2>6. Len(tap_d') \in Nat /\ Cardinality(Range(tap_d')) = Len(tap_d')
    <3>1. tap_d' \in Seq(Frame)
      BY <2>1, <2>2, <2>4
    <3>2. QED
      BY <2>5, <3>1 DEF OrderInv, WrittenInOrder
  <2>7. Service!Repeats(tap_d') <= 0
    <3>1. \A S : Service!Cardinality(S) = Cardinality(S)
      BY DEF Service!Cardinality, Cardinality
    <3>2. \A q : Service!Range(q) = Range(q)
      BY DEF Service!Range, Range
    <3>3. QED
      BY <2>6, <3>1, <3>2 DEF Service!Repeats
  <2>8. \A k \in DOMAIN tap_d : tap_d[k].id < f.id
    BY <2>3, <2>4
  <2>9. Service!Deliver(f)
    BY <1>4, <2>1, <2>7, <2>8 DEF Service!Deliver
  <2>10. f \in [id : 1..MaxFrames, len : 1..GSE_MAX_PDU_LEN]
    BY <1>2, <2>2
  <2>11. QED
    BY <2>9, <2>10 DEF Service!Next
<1>5. \/ UNCHANGED <<accepted, tap_d>>
      \/ Sender /\ SenderReads /\ FrameRead /\ Readable <= GSE_MAX_PDU_LEN
      \/ ReceiverWrites /\ tap_d' # tap_d /\ accepted' = accepted
  <2>1. CASE Sender
    <3>1. Readable \in Nat /\ GSE_MAX_PDU_LEN \in Nat
      BY ArgsType, ConstantsType DEF Readable, TypeInv
    <3>2. QED
      BY <2>1, <3>1
         DEF Sender, SenderSetsUp, SenderReads, SenderReadFails, SenderSends, FrameRead,
             receiverVars
  <2>2. CASE Receiver
    BY <2>2 DEF Receiver, ReceiverSetsUp, ReceiverReads, ReceiverReadFails, senderVars
  <2>3. CASE ~Sender /\ ~Receiver
    BY <2>3 DEF Next, FrameArrives, RestartSender, RestartReceiver, Carry, Lose, Stray, vars,
               senderVars, receiverVars
  <2>4. QED
    BY <2>1, <2>2, <2>3
<1>6. QED
  BY <1>1, <1>3, <1>4, <1>5

\* Both tunnels implement the service of the C tunnel over an ordered network:
\* no frame of the peer is altered, repeated or reordered, whatever is lost,
\* fails or is started again (ImplementsService).
THEOREM TunnelImplementsService == Spec => ImplementsService
<1>1. Init => Service!Init
  BY DEF Init, Service!Init
<1>2. TypeInv /\ OrderInv /\ [Next]_vars => [Service!Next]_(Service!serviceVars)
  BY StepImplements
<1>3. QED
  BY InitType, NextType, InitOrder, NextOrder, <1>1, <1>2, PTL
     DEF Spec, ImplementsService, Service!Spec
=============================================================================
