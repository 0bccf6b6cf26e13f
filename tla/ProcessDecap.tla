---------------------------- MODULE ProcessDecap ----------------------------
(***************************************************************************)
(* process_decap() of satdecap: set up, arm the stop signals, then read    *)
(* UDP datagrams, hand the GSE packets of each to the deencapsulator one   *)
(* after the other, and write every PDU it completes to the TAP interface. *)
(*                                                                         *)
(* A datagram is the list of its packets and its padding; the loop walks   *)
(* through it by byte position, and libgse answers by what starts there.   *)
(***************************************************************************)
EXTENDS StopFlag, Gse, FiniteSets

CONSTANTS MaxDatagrams,  \* bound: how many datagrams arrive
          Datagrams,     \* bound: which datagrams may arrive
          PayloadLen,    \* params->payload_len, the most recvfrom() returns
          GarbageLens,   \* what the uninitialized gse_length may hold
          Faults         \* which of the calls below may fail

DecapFaults == {"socket", "bind", "tap", "gse_init", "select", "recv", "vfrag", "write"}

\* data_received holds GSE_MAX_PACKET_LENGTH + 2 bytes.
ASSUME DecapAssumption ==
    /\ MaxDatagrams \in Nat
    /\ Datagrams \subseteq Datagram
    /\ PayloadLen \in Nat /\ PayloadLen <= GSE_MAX_PACKET_LENGTH + 2
    /\ GarbageLens \subseteq Nat /\ GarbageLens # {}
    /\ Faults \subseteq DecapFaults

VARIABLES pc, status,    \* status: what process_decap() returned, NotReturned before
          fds,           \* open descriptors
          sock, arrived, \* datagrams in the socket's buffer; how many came
          datagram,      \* what data_received holds
          len_received, len_decapsulated, gse_length,
          ctx,           \* the PDU libgse is joining
          tap,           \* the PDUs written to the TAP interface
          seen,          \* history: packets of `datagram` libgse was given
          late           \* history: packets libgse was given after a stop

walkVars == <<datagram, len_received, len_decapsulated, gse_length, ctx, tap, seen, late>>
vars == <<stopVars, pc, status, fds, sock, arrived, walkVars>>

NotReturned == 2

Inner == {"inner", "decap"}
Looping == {"loop", "poll", "select", "read"} \union Inner
Labels == {"check_params", "create_ctxt", "sigterm", "sigint", "arm", "deencap_init",
           "failed", "clean", "exited", "killed"} \union Looping

PduOut == [id : Nat \ {0}, len : Nat \ {0}]
NoDatagram == [src |-> "remote", pkts |-> <<>>, pad |-> 0]

TypeOK ==
    /\ StopTypeOK
    /\ pc \in Labels
    /\ status \in {-2, -1, 0, NotReturned}
    /\ fds \in SUBSET {"tap", "udp"}
    /\ sock \in Seq(Datagram)
    /\ arrived \in 0..MaxDatagrams
    /\ datagram \in Datagram
    /\ len_received \in 0..PayloadLen
    /\ len_decapsulated \in Nat
    /\ gse_length \in Nat
    /\ ctx \in Context
    /\ tap \in Seq(PduOut)
    /\ seen \in 0..Len(datagram.pkts)
    /\ late \in Nat

Init ==
    /\ StopInit
    /\ pc = "check_params" /\ status = NotReturned
    /\ fds = {} /\ sock = <<>> /\ arrived = 0
    /\ datagram = NoDatagram /\ len_received = 0 /\ len_decapsulated = 0
    /\ gse_length \in GarbageLens
    /\ ctx = NoContext /\ tap = <<>> /\ seen = 0 /\ late = 0

\* The process is started again: the datagrams in its socket and the PDU under
\* reassembly are gone.  An action of the tunnel, not of the process.
Restart ==
    /\ StopRestart
    /\ pc' = "check_params" /\ status' = NotReturned
    /\ fds' = {} /\ sock' = <<>>
    /\ datagram' = NoDatagram /\ len_received' = 0 /\ len_decapsulated' = 0
    /\ gse_length' \in GarbageLens
    /\ ctx' = NoContext /\ seen' = 0 /\ late' = 0
    /\ UNCHANGED <<arrived, tap>>

-----------------------------------------------------------------------------
\* Set up

Goto(label) == pc' = label /\ UNCHANGED status
Return(value) == pc' = "exited" /\ status' = value
Fails(call) == call \in Faults

\* read_timeout was found positive by then: Arguments!Check models that half of
\* check_decap_params().
CheckParams ==
    /\ pc = "check_params"
    /\ IF PayloadLen >= MIN_ENCAP_FRAME_SIZE THEN Goto("create_ctxt") ELSE Return(-1)
    /\ UNCHANGED <<stopVars, fds, sock, arrived, walkVars>>

\* open_udp() fails with no socket, or leaves one open: bind() or
\* setsockopt() failed.
OpenUdpFailures ==
    (IF Fails("socket") THEN {{}} ELSE {}) \union (IF Fails("bind") THEN {{"udp"}} ELSE {})

\* The socket is bound before the TAP interface is opened.
CreateCtxt ==
    /\ pc = "create_ctxt"
    /\ \/ Goto("sigterm") /\ fds' = {"udp", "tap"}
       \/ Return(-1) /\ fds' \in OpenUdpFailures
       \/ Fails("tap") /\ Return(-1) /\ fds' = {}
    /\ UNCHANGED <<stopVars, sock, arrived, walkVars>>

InstallHandlers ==
    /\ \/ pc = "sigterm" /\ Install("SIGTERM") /\ Goto("sigint")
       \/ pc = "sigint"  /\ Install("SIGINT")  /\ Goto("arm")
    /\ UNCHANGED <<fds, sock, arrived, walkVars>>

Arm ==
    /\ pc = "arm"
    /\ SetAlive(0) /\ Goto("deencap_init")
    /\ UNCHANGED <<fds, sock, arrived, walkVars>>

\* The early return does not free the context.
DeencapInit ==
    /\ pc = "deencap_init"
    /\ \/ Goto("loop")
       \/ Fails("gse_init") /\ Return(-1)
    /\ UNCHANGED <<stopVars, fds, sock, arrived, walkVars>>

-----------------------------------------------------------------------------
\* The main loop

LoopTest ==
    /\ pc = "loop"
    /\ Goto(IF Running THEN "poll" ELSE "clean")
    /\ UNCHANGED <<stopVars, fds, sock, arrived, walkVars>>

EnterSelect ==
    /\ pc = "poll"
    /\ Goto("select")
    /\ UNCHANGED <<stopVars, fds, sock, arrived, walkVars>>

SelectReturns ==
    /\ pc = "select"
    /\ Unblock
    /\ \/ sock = <<>> /\ Goto("loop")
       \/ sock # <<>> /\ Goto("read")
       \/ Fails("select") /\ Goto("failed")
    /\ UNCHANGED <<fds, sock, arrived, walkVars>>

\* alive = -1; break
LoopFailed ==
    /\ pc = "failed"
    /\ SetAlive(-1) /\ Goto("clean")
    /\ UNCHANGED <<fds, sock, arrived, walkVars>>

\* Mutant: recvfrom() is not told the size of the buffer.
LenOfAll(dg) == DatagramLen(dg)

\* Mutant: a byte of the buffer is kept for a terminator.
LenButOne(dg) == Least(DatagramLen(dg), PayloadLen - 1)

\* recvfrom() drops what does not fit into payload_len bytes.
LenReceived(dg) == Least(DatagramLen(dg), PayloadLen)

\* Mutant: the source is not compared.
FromAnyone(dg) == TRUE

FromRemote(dg) == dg.src = "remote"

\* read_udp(): a datagram from elsewhere, or an empty one, is skipped.
ReadDatagram ==
    /\ pc = "read"
    /\ \/ /\ Fails("recv") /\ Goto("failed")
          /\ UNCHANGED <<sock, walkVars>>
       \/ /\ sock' = Tail(sock)
          /\ seen' = 0
          /\ IF FromRemote(Head(sock)) /\ DatagramLen(Head(sock)) > 0
               THEN /\ datagram' = Head(sock)
                    /\ len_received' = LenReceived(Head(sock))
                    /\ len_decapsulated' = 0
                    /\ Goto("inner")
               ELSE /\ datagram' = NoDatagram
                    /\ len_received' = 0
                    /\ UNCHANGED len_decapsulated
                    /\ Goto("loop")
          /\ UNCHANGED <<gse_length, ctx, tap, late>>
    /\ UNCHANGED <<stopVars, fds, arrived>>

-----------------------------------------------------------------------------
\* The walk through a datagram

InnerTest ==
    /\ pc = "inner"
    /\ Goto(IF len_decapsulated < len_received /\ Running THEN "decap" ELSE "loop")
    /\ UNCHANGED <<stopVars, fds, sock, arrived, walkVars>>

Left == len_received - len_decapsulated

\* gse_deencap_packet() is told the byte position len_decapsulated.
HeaderAt(k) ==
    /\ Left >= GSE_MAX_HEADER_LENGTH
    /\ len_decapsulated = StartOf(datagram.pkts, k)

\* No virtual fragment: alive is set to -1, and the code goes on.  libgse is
\* taken to leave NULL in vfrag_pkt, to refuse NULL and to touch nothing else.
VfragFails ==
    /\ Fails("vfrag")
    /\ SetAlive(-1)
    /\ len_decapsulated' = len_decapsulated + gse_length
    /\ Goto("inner")
    /\ UNCHANGED <<datagram, len_received, gse_length, ctx, tap, seen, late>>

\* Mutant: gse_length is 0 when libgse does not set it.
ResetLength == 0

StaleLength == gse_length

\* Too short for a header: libgse reports an error and sets no gse_length, so
\* that the value of the packet before is added once more.
TooShort ==
    /\ Left < GSE_MAX_HEADER_LENGTH
    /\ gse_length' = StaleLength
    /\ len_decapsulated' = len_decapsulated + gse_length'
    /\ Goto("inner")
    /\ UNCHANGED <<stopVars, datagram, len_received, ctx, tap, seen, late>>

\* A packet that recvfrom() cut: its header announces more than there is.
CutPacket(k) ==
    /\ HeaderAt(k)
    /\ PacketLen(datagram.pkts[k]) > Left
    /\ gse_length' = PacketLen(datagram.pkts[k])
    /\ len_decapsulated' = len_decapsulated + gse_length'
    /\ Goto("inner")
    /\ UNCHANGED <<stopVars, datagram, len_received, ctx, tap, seen, late>>

\* Mutant: the PDU is written again when its memory is freed.
WriteTapTwice(pdu) == tap' = tap \o <<pdu, pdu>>

\* write_tap(), whose result is ignored.
WriteTap(pdu) == tap' = Append(tap, pdu) \/ (Fails("write") /\ UNCHANGED tap)

\* Mutant: the length of the GSE packet without its header.
AdvanceData(pkt) == pkt.to - pkt.from

Advance(pkt) == PacketLen(pkt)

\* Mutant: an error ends the walk as padding does.
AfterPacketOrError(st) == IF st = "ERROR" THEN "loop" ELSE "inner"

\* Only padding ends the walk before the end of the datagram.
AfterPacket(st) == "inner"

\* A packet: whatever libgse says of it, its length was read.
WholePacket(k) ==
    /\ HeaderAt(k)
    /\ PacketLen(datagram.pkts[k]) <= Left
    /\ LET pkt == datagram.pkts[k]
           res == Deencap(ctx, pkt)
       IN  /\ ctx' = res.ctx
           /\ gse_length' = Advance(pkt)
           /\ IF res.status = "PDU_RECEIVED"
                THEN WriteTap([id |-> pkt.id, len |-> pkt.total])
                ELSE UNCHANGED tap
           /\ Goto(AfterPacket(res.status))
    /\ len_decapsulated' = len_decapsulated + gse_length'
    /\ seen' = seen + 1
    /\ late' = IF alive # 0 THEN late + 1 ELSE late
    /\ UNCHANGED <<stopVars, datagram, len_received>>

\* GSE_STATUS_PADDING_DETECTED: break
PaddingFound ==
    /\ HeaderAt(Len(datagram.pkts) + 1)
    /\ len_decapsulated' = len_decapsulated + gse_length
    /\ Goto("loop")
    /\ UNCHANGED <<stopVars, datagram, len_received, gse_length, ctx, tap, seen, late>>

DecapPacket ==
    /\ pc = "decap"
    /\ \/ VfragFails
       \/ TooShort
       \/ PaddingFound
       \/ \E k \in 1..Len(datagram.pkts) : CutPacket(k) \/ WholePacket(k)
    /\ UNCHANGED <<fds, sock, arrived>>

\* Mutant: the UDP socket stays open.
OpenAfterCleanUdp == fds \intersect {"udp"}

OpenAfterClean == {}

Clean ==
    /\ pc = "clean"
    /\ fds' = OpenAfterClean
    /\ Return(IF alive >= 0 THEN 0 ELSE -2)
    /\ UNCHANGED <<stopVars, sock, arrived, walkVars>>

Step ==
    \/ CheckParams \/ CreateCtxt \/ InstallHandlers \/ Arm \/ DeencapInit
    \/ LoopTest \/ EnterSelect \/ SelectReturns \/ LoopFailed
    \/ ReadDatagram \/ InnerTest \/ DecapPacket \/ Clean

-----------------------------------------------------------------------------
\* The environment

DatagramArrives ==
    /\ arrived < MaxDatagrams
    /\ "udp" \in fds /\ pc \notin {"exited", "killed"}
    /\ arrived' = arrived + 1
    /\ \E dg \in Datagrams : sock' = Append(sock, dg)
    /\ UNCHANGED <<stopVars, pc, status, fds, walkVars>>

Signal(s) ==
    /\ pc \notin {"exited", "killed"}
    /\ \/ RaiseHandled(s, pc = "select") /\ UNCHANGED pc
       \/ RaiseDefault(s) /\ pc' = "killed"
       \/ RaiseIgnored(s) /\ UNCHANGED pc
    /\ UNCHANGED <<status, fds, sock, arrived, walkVars>>

Next == Step \/ DatagramArrives \/ \E s \in Sigs : Signal(s)

Spec == Init /\ [][Next]_vars /\ WF_vars(Step)

-----------------------------------------------------------------------------
\* Properties

\* The walk only ever hands libgse bytes that start a packet, the padding, or
\* a rest too short for a header: it never parses the middle of a packet.
Aligned ==
    (pc = "decap" /\ Left >= GSE_MAX_HEADER_LENGTH) =>
        \E k \in 1..Len(datagram.pkts) + 1 : len_decapsulated = StartOf(datagram.pkts, k)

\* The packets of the datagram that were received whole.
WholePackets ==
    {k \in 1..Len(datagram.pkts) : StartOf(datagram.pkts, k + 1) <= len_received}

\* Unless the process is about to stop, no packet that was received whole is
\* skipped or handed over twice, whatever libgse says of the packets before it.
EveryPacketParsed ==
    (pc \in {"loop", "poll", "select"} /\ alive = 0) => seen = Cardinality(WholePackets)

\* A stop is noticed between two packets of a datagram.
AtMostOneLatePacket == late <= 1

\* Every descriptor is closed at the end of the loop, and only there.
Released ==
    pc = "exited" =>
        \/ fds = {}
        \/ status = -1 /\ fds \in {{"udp"}, {"tap", "udp"}}

\* A datagram is walked through in finite time as soon as gse_length was set
\* once, although a rest shorter than a header adds a stale length.
DatagramFinishes == (pc = "inner" /\ gse_length > 0) ~> (pc \notin Inner)

\* A stop signal that arrives once `alive = 0` was executed ends the process,
\* also while a datagram is walked through.
StopHonoured ==
    (pc \in Looping \union {"deencap_init"} /\ (alive = 1 \/ pending # {})) ~> (pc = "exited")
\* How the process looks from outside.
Phase ==
    IF pc \in {"exited", "killed"} THEN "gone"
    ELSE IF pc \in {"sigint", "arm"} THEN "handling"
    ELSE IF pc \notin Looping \union {"deencap_init", "failed", "clean"} THEN "new"
    ELSE IF alive = 0 /\ pending = {} THEN "running" ELSE "stopping"

P == INSTANCE Program WITH phase <- Phase

\* The process is the program the testbed scripts rely on: once a stop or a
\* loop error was noticed no later store to `alive` undoes it, and it returns.
ImplementsProgram == P!Spec
=============================================================================
