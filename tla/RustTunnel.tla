----------------------------- MODULE RustTunnel -----------------------------
(***************************************************************************)
(* The two tunnels in Rust, each a satencap and a satdecap on hosts of     *)
(* their own.  Those of rust/ put every frame into GSE packets; those of   *)
(* rust_testimonial/ copy it into a datagram as it is.  None of the four   *)
(* handles a signal or an error: unwrap() and expect() end the process,    *)
(* and so does leaving the loop of rust/src/satdecap.rs.                   *)
(*                                                                         *)
(* Both ends connect() their UDP socket.  The kernel then refuses what     *)
(* comes from elsewhere, and hands a "port unreachable" that the network   *)
(* brings back to the next send().                                         *)
(***************************************************************************)
EXTENDS Gse, FiniteSets

CONSTANTS MaxFrames,        \* bound: how many frames arrive on the sender's TAP
          FrameLens,        \* bound: the lengths they may have
          Commands,         \* bound: which programs run, with which -p and -b
          GSE_MAX_PDU_LEN,  \* the size of the frame buffers
          Storages,         \* the 3 buffers provisioned to the decapsulator
          MaxIncidents      \* bound: losses, failing calls, strays, restarts

ASSUME RustTunnelAssumption ==
    /\ MaxFrames \in Nat /\ MaxIncidents \in Nat
    /\ GSE_MAX_PDU_LEN \in Nat \ {0}
    /\ FrameLens \subseteq 1..GSE_MAX_PDU_LEN
    /\ Commands \subseteq
         [binaries : {"rust", "rust_testimonial"}, payload_len : Nat, buffer_len : Nat \ {0}]
    /\ Storages \in Nat \ {0}

VARIABLES args,                   \* the programs and the sender's arguments
          spc, tap_s, arrived,    \* sender; frames that wait on its TAP interface
          buffer,                 \* <<>>, or the PDU of which packets are still to come
          refused,                \* a "port unreachable" waits for the next send()
          rpc, sock,              \* receiver; datagrams in its socket's buffer
          storages, out,          \* free storages; the PDU to write, <<>> if none
          wire,                   \* datagrams in flight
          accepted, tap_d,        \* histories: frames read, and the sender's written
          foreign,                \* history: how many frames from elsewhere were written
          early,                  \* history: strays that came before connect()
          incidents, failed,      \* histories: how many; whether a call failed
          unreachable             \* history: a datagram met no socket

senderVars == <<spc, tap_s, arrived, buffer, accepted>>
receiverVars == <<rpc, storages, out, tap_d, foreign>>
vars == <<args, senderVars, refused, receiverVars, sock, wire, early, incidents, failed,
          unreachable>>

Frame == [id : 1..MaxFrames, len : Nat \ {0}]
Foreign == MaxFrames + 1          \* the id of a frame from elsewhere
Setup == {"args", "bind", "connect"}
Ended == {"returned", "panicked"}

TypeOK ==
    /\ args \in Commands
    /\ spc \in Setup \union Ended \union {"recv", "send"}
    /\ tap_s \in Seq(Frame) /\ arrived \in 0..MaxFrames
    /\ buffer \in Seq(Pdu) /\ Len(buffer) <= 1
    /\ refused \in BOOLEAN /\ failed \in BOOLEAN /\ unreachable \in BOOLEAN
    /\ rpc \in Setup \union Ended \union {"recv", "write"}
    /\ sock \in Seq(Datagram) /\ wire \in Seq(Datagram)
    /\ storages \in 0..Storages
    /\ out \in Seq([id : 1..Foreign, len : Nat \ {0}]) /\ Len(out) <= 1
    /\ accepted \subseteq Frame /\ tap_d \in Seq(Frame) /\ foreign \in Nat
    /\ early \in 0..MaxIncidents /\ incidents \in 0..MaxIncidents

Init ==
    /\ args \in Commands
    /\ spc = "args" /\ tap_s = <<>> /\ arrived = 0 /\ buffer = <<>> /\ refused = FALSE
    /\ rpc = "args" /\ sock = <<>> /\ storages = Storages /\ out = <<>> /\ wire = <<>>
    /\ accepted = {} /\ tap_d = <<>> /\ foreign = 0 /\ early = 0 /\ incidents = 0
    /\ failed = FALSE /\ unreachable = FALSE

UsesGse == args.binaries = "rust"

\* Something goes wrong once more.
Incident == incidents < MaxIncidents /\ incidents' = incidents + 1
CallFails == Incident /\ failed' = TRUE
AllWell == UNCHANGED <<incidents, failed>>

\* parse_arguments() opens the TAP interface; then bind() and connect().
AfterSetup(label) ==
    CASE label = "args" -> "bind" [] label = "bind" -> "connect" [] OTHER -> "recv"

-----------------------------------------------------------------------------
\* satencap

SenderSetsUp ==
    /\ spc \in Setup
    /\ \/ /\ spc' = AfterSetup(spc) /\ AllWell
       \/ spc' = "panicked" /\ CallFails
    /\ UNCHANGED <<tap_s, arrived, buffer, accepted, refused, wire>>

\* tap_iface.recv(): rust/ reads up to GSE_MAX_PDU_LEN bytes and leaves -b
\* alone; rust_testimonial/ cuts the frame to -b, which must fit the buffer.
Readable == IF UsesGse THEN GSE_MAX_PDU_LEN ELSE args.buffer_len

SenderReads ==
    /\ spc = "recv"
    /\ IF Readable > GSE_MAX_PDU_LEN
         THEN spc' = "panicked" /\ UNCHANGED <<tap_s, buffer, accepted>>
         ELSE /\ tap_s # <<>>
              /\ LET f == [Head(tap_s) EXCEPT !.len = Least(@, Readable)]
                 IN  /\ buffer' = <<[id |-> f.id, total |-> f.len, sent |-> 0]>>
                     /\ accepted' = accepted \union {f}
              /\ tap_s' = Tail(tap_s)
              /\ spc' = "send"
    /\ UNCHANGED <<arrived, refused, wire>> /\ AllWell

\* recv().unwrap(), whether a frame waits or not.
SenderReadFails ==
    /\ spc = "recv" /\ Readable <= GSE_MAX_PDU_LEN
    /\ spc' = "panicked" /\ CallFails
    /\ UNCHANGED <<tap_s, arrived, buffer, accepted, refused, wire>>

\* encap() and encap_frag() fill `payload`, of GSE_MAX_PACKET_LENGTH bytes,
\* whatever -p is.  Without GSE the datagram is the frame.
PacketOf(pdu) ==
    IF UsesGse THEN NextPacket(pdu, GSE_MAX_PACKET_LENGTH)
    ELSE [id |-> pdu.id, from |-> 0, to |-> pdu.total, total |-> pdu.total]

\* Mutant: every packet is padded to desired_len, as if none were longer.
PaddingAlways(pkt) == IF UsesGse /\ args.payload_len # 0 THEN args.payload_len - PacketLen(pkt) ELSE 0

\* Mutant: payload_len grows by desired_len.
PaddingOnTop(pkt) == IF UsesGse THEN args.payload_len ELSE 0

\* Only a packet shorter than -p is padded; a longer one is sent as it is.
Padding(pkt) ==
    IF UsesGse /\ args.payload_len # 0 /\ PacketLen(pkt) < args.payload_len
      THEN args.payload_len - PacketLen(pkt) ELSE 0

\* &payload[..payload_len]
PastPayload(pkt) == UsesGse /\ PacketLen(pkt) + Padding(pkt) > GSE_MAX_PACKET_LENGTH

SenderSends ==
    /\ spc = "send"
    /\ LET pkt == PacketOf(buffer[1])
       IN  \/ /\ ~PastPayload(pkt) /\ ~refused
              /\ wire' = Append(wire, [src |-> "remote", pkts |-> <<pkt>>, pad |-> Padding(pkt)])
              /\ buffer' = Packed(buffer, pkt)
              /\ spc' = IF IsEnd(pkt) THEN "recv" ELSE "send"
              /\ UNCHANGED refused /\ AllWell
           \/ /\ PastPayload(pkt)
              /\ spc' = "panicked"
              /\ UNCHANGED <<buffer, refused, wire>> /\ AllWell
           \/ /\ ~PastPayload(pkt) /\ refused
              /\ spc' = "panicked" /\ refused' = FALSE
              /\ UNCHANGED <<buffer, wire>> /\ AllWell
           \/ /\ ~PastPayload(pkt) /\ ~refused
              /\ spc' = "panicked" /\ CallFails
              /\ UNCHANGED <<buffer, refused, wire>>
    /\ UNCHANGED <<tap_s, arrived, accepted>>

Sender ==
    /\ SenderSetsUp \/ SenderReads \/ SenderReadFails \/ SenderSends
    /\ UNCHANGED <<args, receiverVars, sock, early, unreachable>>

-----------------------------------------------------------------------------
\* satdecap

ReceiverSetsUp ==
    /\ rpc \in Setup
    /\ \/ /\ rpc' = AfterSetup(rpc) /\ AllWell
       \/ rpc' = "panicked" /\ CallFails
    /\ UNCHANGED <<storages, out, tap_d, foreign>>
    /\ sock' = IF rpc' = "panicked" THEN <<>> ELSE sock

\* Mutant: the storage of a written frame is not provisioned again.
ProvisionNothing == storages

\* provision_storage(buffer)
Provision == storages + 1

\* Mutant: a fragment goes on as a complete packet does.
GoesAlways(dg) == dg.pkts # <<>> /\ storages > 0

\* A complete packet needs a free storage and gives it to the frame; whatever
\* else the first packet of the datagram is, the loop, and so the program, ends.
Goes(dg) == dg.pkts # <<>> /\ IsComplete(dg.pkts[1]) /\ storages > 0

ReceiverReads ==
    /\ rpc = "recv" /\ sock # <<>>
    /\ LET pkt == Head(sock).pkts[1]
       IN  IF UsesGse => Goes(Head(sock))
             THEN /\ rpc' = "write"
                  /\ out' = <<[id |-> pkt.id, len |-> pkt.to - pkt.from]>>
                  /\ storages' = IF UsesGse THEN storages - 1 ELSE storages
                  /\ sock' = Tail(sock)
             ELSE rpc' = "returned" /\ sock' = <<>> /\ UNCHANGED <<storages, out>>
    /\ UNCHANGED <<tap_d, foreign>> /\ AllWell

\* socket.recv().unwrap()
ReceiverReadFails ==
    /\ rpc = "recv"
    /\ rpc' = "panicked" /\ CallFails /\ sock' = <<>>
    /\ UNCHANGED <<storages, out, tap_d, foreign>>

ReceiverWrites ==
    /\ rpc = "write"
    /\ \/ /\ rpc' = "recv"
          /\ IF out[1].id = Foreign
               THEN foreign' = foreign + 1 /\ UNCHANGED tap_d
               ELSE tap_d' = Append(tap_d, out[1]) /\ UNCHANGED foreign
          /\ storages' = IF UsesGse THEN Provision ELSE storages
          /\ UNCHANGED sock /\ AllWell
       \/ /\ rpc' = "panicked" /\ CallFails /\ sock' = <<>>
          /\ UNCHANGED <<tap_d, foreign, storages>>
    /\ out' = <<>>

Receiver ==
    /\ ReceiverSetsUp \/ ReceiverReads \/ ReceiverReadFails \/ ReceiverWrites
    /\ UNCHANGED <<args, senderVars, refused, wire, early, unreachable>>

-----------------------------------------------------------------------------
\* The hosts, the user and the network

FrameArrives ==
    /\ arrived < MaxFrames
    /\ arrived' = arrived + 1
    /\ \/ /\ spc \notin {"args"} \union Ended
          /\ \E l \in FrameLens : tap_s' = Append(tap_s, [id |-> arrived + 1, len |-> l])
       \/ spc \in {"args"} \union Ended /\ UNCHANGED tap_s
    /\ UNCHANGED <<args, spc, buffer, accepted, refused, receiverVars, sock, wire, early,
                   incidents, failed, unreachable>>

\* A program ends or is killed, and is started again.
RestartSender ==
    /\ Incident
    /\ spc' = "args" /\ tap_s' = <<>> /\ buffer' = <<>> /\ refused' = FALSE
    /\ UNCHANGED <<args, arrived, accepted, receiverVars, sock, wire, early, failed, unreachable>>

RestartReceiver ==
    /\ Incident
    /\ rpc' = "args" /\ sock' = <<>> /\ storages' = Storages /\ out' = <<>>
    /\ UNCHANGED <<args, senderVars, refused, tap_d, foreign, wire, early, failed, unreachable>>

Bound == rpc \in {"connect", "recv", "write"}

\* Mutant: the receiver does not connect() its socket.
AcceptedFromAnyone(dg) == Bound

\* A connected socket only takes datagrams of its peer.
Accepts(dg) == Bound /\ (dg.src = "remote" \/ rpc = "connect")

\* A datagram that meets no socket may be answered, and the answer may come
\* back while the sender is connected.
Carry ==
    /\ wire # <<>>
    /\ wire' = Tail(wire)
    /\ sock' = IF Accepts(Head(wire)) THEN Append(sock, Head(wire)) ELSE sock
    /\ unreachable' = (unreachable \/ ~Bound)
    /\ refused' \in {refused} \union {b \in {TRUE} : ~Bound /\ spc \in {"recv", "send"}}
    /\ UNCHANGED <<args, senderVars, receiverVars, early, incidents, failed>>

Lose ==
    /\ wire # <<>> /\ Incident
    /\ wire' = Tail(wire)
    /\ UNCHANGED <<args, senderVars, refused, receiverVars, sock, early, failed, unreachable>>

\* From another host: a frame nobody offered, or one of its fragments.
Strays == {[src |-> "other", pad |-> 0, pkts |-> <<pkt>>] :
             pkt \in {[id |-> Foreign, from |-> 0, to |-> n, total |-> 2] : n \in {1, 2}}}

Stray ==
    /\ Incident
    /\ \E dg \in Strays :
         /\ Accepts(dg)
         /\ sock' = Append(sock, dg)
    /\ early' = IF rpc = "connect" THEN early + 1 ELSE early
    /\ UNCHANGED <<args, senderVars, refused, receiverVars, wire, failed, unreachable>>

Next ==
    \/ Sender \/ Receiver \/ FrameArrives \/ RestartSender \/ RestartReceiver
    \/ Carry \/ Lose \/ Stray

\* Both programs are scheduled, and what is not lost is carried.  No call need
\* ever fail.
Fairness == WF_vars(Sender /\ AllWell) /\ WF_vars(Receiver /\ AllWell) /\ WF_vars(Carry)

Spec == Init /\ [][Next]_vars /\ Fairness

-----------------------------------------------------------------------------
\* Properties

Service == INSTANCE TunnelService WITH
    Frames <- [id : 1..MaxFrames, len : 1..GSE_MAX_PDU_LEN], Ordered <- TRUE,
    offered <- accepted, copies <- 0, delivered <- tap_d

\* Both tunnels implement the service of the C tunnel: no frame of the peer is
\* altered, repeated or reordered, whatever is lost, fails or is started again.
ImplementsService == Service!Spec

\* Nobody compares sources: a frame from elsewhere comes out only when it
\* arrived between bind() and connect(), and then at most once.
ForeignOnlyEarly == foreign <= early

\* A frame that rust/ cannot put into one packet.
Long(f) == f.len + GSE_MAX_HEADER_LENGTH > GSE_MAX_PACKET_LENGTH

\* The receiver leaves its loop by itself only over a fragment of a long frame
\* or a datagram that came before connect(): it never runs out of storage,
\* however many frames it writes, and copies anything in rust_testimonial/.
ReceiverSurvives == rpc = "returned" => UsesGse /\ (early > 0 \/ \E f \in accepted : Long(f))

\* The sender panics only because a call failed, over -p or -b beyond its
\* buffers, or because a datagram met no receiver: losses, strays and restarts
\* alone leave it running.
SenderSurvives ==
    spc = "panicked" =>
        \/ failed \/ unreachable
        \/ UsesGse /\ args.payload_len > GSE_MAX_PACKET_LENGTH
        \/ ~UsesGse /\ args.buffer_len > GSE_MAX_PDU_LEN

\* Nothing but short frames of the peer is in front of frame id, both programs
\* are in their loops, and nothing goes wrong any more.
Own(dg) == dg.src = "remote" /\ IsComplete(dg.pkts[1])
Clear(id) ==
    /\ spc \in {"recv", "send"} /\ rpc \in {"recv", "write"}
    /\ ~refused /\ incidents = MaxIncidents
    /\ Readable <= GSE_MAX_PDU_LEN
    /\ ~(UsesGse /\ args.payload_len > GSE_MAX_PACKET_LENGTH)
    /\ \A k \in DOMAIN sock : Own(sock[k])
    /\ \A k \in DOMAIN wire : Own(wire[k])
    /\ \A k \in DOMAIN buffer : buffer[k].sent = 0 /\ ~(UsesGse /\ Long([len |-> buffer[k].total]))
    /\ \E k \in DOMAIN tap_s :
         tap_s[k].id = id /\ \A j \in 1..k : ~(UsesGse /\ Long(tap_s[j]))

\* Short frames arrive, whatever went wrong before both programs were up.
ShortFramesArrive ==
    \A id \in 1..MaxFrames : Clear(id) ~> \E k \in DOMAIN tap_d : tap_d[k].id = id
=============================================================================
