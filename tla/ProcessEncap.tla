---------------------------- MODULE ProcessEncap ----------------------------
(***************************************************************************)
(* process_encap() of satencap, from its first line to its return: set up, *)
(* arm the stop signals, then read Ethernet frames from the TAP interface, *)
(* hand them to the GSE encapsulator and send every GSE packet it gives    *)
(* back in a UDP datagram of its own.                                      *)
(*                                                                         *)
(* `pc` names the code that runs next.  A step is the code between two     *)
(* points where a signal makes a difference: each store to `alive`, each   *)
(* test of it, and pselect().  Environment steps are the arrival of a      *)
(* frame and of a stop signal, at any time.                                *)
(***************************************************************************)
EXTENDS StopFlag, Gse, FiniteSets

CONSTANTS MaxFrames,     \* bound: how many frames arrive on the TAP interface
          FrameLens,     \* bound: the lengths they may have
          BufferLen,     \* params->buffer_len
          PayloadLen,    \* params->payload_len, 0 for datagrams of variable size
          MAX_FRAG,      \* the capacity of the encapsulator's FIFO
          ErrLimit,      \* the 5 of `err < 5`
          Faults         \* which of the calls below may fail

EncapFaults == {"sched", "tap", "eventfd", "socket", "bind", "gse_init",
                "select", "vfrag", "read", "receive", "getpkt", "send"}

ASSUME EncapAssumption ==
    /\ MaxFrames \in Nat
    /\ FrameLens \subseteq Nat \ {0}
    /\ BufferLen \in Nat
    /\ PayloadLen \in Nat
    /\ MAX_FRAG \in Nat \ {0}
    /\ ErrLimit \in Nat \ {0}
    /\ Faults \subseteq EncapFaults

VARIABLES pc, status,    \* status: what process_encap() returned, NotReturned before
          fds,           \* open descriptors
          tap, arrived,  \* frames that wait on the TAP interface; how many came
          vfrag_pdu,     \* the PDU the pointer vfrag_pdu was set to, 0 for NULL
          fifo, err,     \* the encapsulator's FIFO; the drain loop's error count
          net,           \* history: the datagrams handed to the network
          accepted,      \* history: the PDUs the encapsulator accepted
          lost,          \* history: the packets whose sendto() failed
          late           \* history: how many frames were read after a stop

ioVars == <<vfrag_pdu, fifo, err, net, accepted, lost, late>>
vars == <<stopVars, pc, status, fds, tap, arrived, ioVars>>

NotReturned == 2

Looping == {"loop", "poll", "select", "receive", "drain"}
Labels == {"check_params", "create_recv", "create_send", "sigterm", "sigint",
           "arm", "encap_init", "failed", "clean", "exited", "killed"} \union Looping

Frame == [id : 1..MaxFrames, len : Nat \ {0}]

TypeOK ==
    /\ StopTypeOK
    /\ pc \in Labels
    /\ status \in {-2, -1, 0, NotReturned}
    /\ fds \in SUBSET {"tap", "evt", "udp"}
    /\ tap \in Seq(Frame)
    /\ arrived \in 0..MaxFrames
    /\ vfrag_pdu \in 0..MaxFrames
    /\ fifo \in Seq(Pdu)
    /\ err \in 0..ErrLimit
    /\ net \in Seq(Datagram)
    /\ accepted \subseteq Frame
    /\ lost \subseteq Packet
    /\ late \in Nat

Init ==
    /\ StopInit
    /\ pc = "check_params" /\ status = NotReturned
    /\ fds = {} /\ tap = <<>> /\ arrived = 0
    /\ vfrag_pdu = 0 /\ fifo = <<>> /\ err = 0
    /\ net = <<>> /\ accepted = {} /\ lost = {} /\ late = 0

\* The process is started again: its memory, its FIFO and the frames that
\* waited for it are gone.  An action of the tunnel, not of the process.
Restart ==
    /\ StopRestart
    /\ pc' = "check_params" /\ status' = NotReturned
    /\ fds' = {} /\ tap' = <<>>
    /\ vfrag_pdu' = 0 /\ fifo' = <<>> /\ err' = 0 /\ late' = 0
    /\ UNCHANGED <<arrived, net, accepted, lost>>

-----------------------------------------------------------------------------
\* Set up

Goto(label) == pc' = label /\ UNCHANGED status
Return(value) == pc' = "exited" /\ status' = value
Fails(call) == call \in Faults

\* payload_len is checked; sched_period is too, but nothing ever assigned it.
PayloadLenValid == PayloadLen = 0 \/ PayloadLen >= MIN_ENCAP_FRAME_SIZE

CheckParams ==
    /\ pc = "check_params"
    /\ \/ PayloadLenValid /\ Goto("create_recv")
       \/ (Fails("sched") \/ ~PayloadLenValid) /\ Return(-1)
    /\ UNCHANGED <<stopVars, fds, tap, arrived, ioVars>>

\* open_tap(): what the failing call opened is closed again.
OpenTap == {{"tap"}} \union (IF Fails("tap") THEN {{}} ELSE {})

CreateRecv ==
    /\ pc = "create_recv"
    /\ \/ Goto("create_send") /\ fds' \in OpenTap \ {{}}
       \/ {} \in OpenTap /\ Return(-1) /\ UNCHANGED fds
    /\ UNCHANGED <<stopVars, tap, arrived, ioVars>>

\* open_udp() fails with no socket, or leaves one open: bind() or
\* setsockopt() failed.
OpenUdpFailures ==
    (IF Fails("socket") THEN {{}} ELSE {}) \union (IF Fails("bind") THEN {{"udp"}} ELSE {})

\* On failure the other descriptors are closed, by this function and by
\* delete_recv_ctxt().
CreateSend ==
    /\ pc = "create_send"
    /\ \/ Goto("sigterm") /\ fds' = fds \union {"evt", "udp"}
       \/ Fails("eventfd") /\ Return(-1) /\ fds' = {}
       \/ Return(-1) /\ fds' \in OpenUdpFailures
    /\ UNCHANGED <<stopVars, tap, arrived, ioVars>>

InstallHandlers ==
    /\ \/ pc = "sigterm" /\ Install("SIGTERM") /\ Goto("sigint")
       \/ pc = "sigint"  /\ Install("SIGINT")  /\ Goto("arm")
    /\ UNCHANGED <<fds, tap, arrived, ioVars>>

\* alive = 0, after the handlers were installed
Arm ==
    /\ pc = "arm"
    /\ SetAlive(0) /\ Goto("encap_init")
    /\ UNCHANGED <<fds, tap, arrived, ioVars>>

\* The early return frees neither context.
EncapInit ==
    /\ pc = "encap_init"
    /\ \/ Goto("loop")
       \/ Fails("gse_init") /\ Return(-1)
    /\ UNCHANGED <<stopVars, fds, tap, arrived, ioVars>>

-----------------------------------------------------------------------------
\* The main loop

LoopTest ==
    /\ pc = "loop"
    /\ Goto(IF Running THEN "poll" ELSE "clean")
    /\ UNCHANGED <<stopVars, fds, tap, arrived, ioVars>>

\* pselect() blocks the signals, waits, and unblocks them.
EnterSelect ==
    /\ pc = "poll"
    /\ Goto("select")
    /\ UNCHANGED <<stopVars, fds, tap, arrived, ioVars>>

SelectReturns ==
    /\ pc = "select"
    /\ Unblock
    /\ \/ tap = <<>> /\ Goto("loop")
       \/ tap # <<>> /\ Goto("receive")
       \/ Fails("select") /\ Goto("failed")
    /\ UNCHANGED <<fds, tap, arrived, ioVars>>

\* alive = -1; break
LoopFailed ==
    /\ pc = "failed"
    /\ SetAlive(-1) /\ Goto("clean")
    /\ UNCHANGED <<fds, tap, arrived, ioVars>>

ReadLate == late' = IF alive # 0 THEN late + 1 ELSE late

\* No virtual fragment, a failed read() or an empty one: what was read, if
\* anything, is dropped without a trace.  libgse is taken to leave NULL in
\* vfrag_pdu when it fails, so that read_tap() fails as well.
FrameDropped ==
    /\ \/ Fails("vfrag") /\ tap' = Tail(tap)
       \/ Fails("read") /\ tap' \in {tap, Tail(tap)}
       \/ BufferLen = 0 /\ UNCHANGED tap
    /\ vfrag_pdu' = 0
    /\ Goto("loop")
    /\ UNCHANGED <<fifo, err, accepted, late>>

\* read() cuts the frame to buffer_len bytes.
PduRead == [id |-> Head(tap).id, len |-> Least(Head(tap).len, BufferLen)]

\* Mutant: a refused PDU does not skip the drain loop.
FrameRefusedDrains ==
    /\ BufferLen > 0
    /\ Len(fifo) >= MAX_FRAG \/ Fails("receive")
    /\ tap' = Tail(tap)
    /\ vfrag_pdu' = 0
    /\ err' = 0
    /\ ReadLate
    /\ Goto("drain")
    /\ UNCHANGED <<fifo, accepted>>

FrameRefused ==
    /\ BufferLen > 0
    /\ Len(fifo) >= MAX_FRAG \/ Fails("receive")
    /\ tap' = Tail(tap)
    /\ vfrag_pdu' = 0
    /\ ReadLate
    /\ Goto("loop")
    /\ UNCHANGED <<fifo, err, accepted>>

\* Mutant: the newest PDU is packed first.
EnqueuedFirst(pdu) == <<pdu>> \o fifo

Enqueued(pdu) == Append(fifo, pdu)

FrameAccepted ==
    /\ BufferLen > 0
    /\ Len(fifo) < MAX_FRAG
    /\ tap' = Tail(tap)
    /\ vfrag_pdu' = Head(tap).id
    /\ fifo' = Enqueued([id |-> PduRead.id, total |-> PduRead.len, sent |-> 0])
    /\ accepted' = accepted \union {PduRead}
    /\ err' = 0
    /\ ReadLate
    /\ Goto("drain")

ReceiveFrame ==
    /\ pc = "receive"
    /\ FrameDropped \/ FrameRefused \/ FrameAccepted
    /\ UNCHANGED <<stopVars, fds, arrived, net, lost>>

-----------------------------------------------------------------------------
\* The drain loop: while (ret != GSE_STATUS_FIFO_EMPTY && err < 5)

\* Mutant: the drain loop also tests `alive`.
DrainOverOnStop == fifo = <<>> \/ err >= ErrLimit \/ alive # 0

DrainOver == fifo = <<>> \/ err >= ErrLimit

InFifo(id) == \E k \in 1..Len(fifo) : fifo[k].id = id

\* In variable mode the length is read from vfrag_pdu: what libgse has not
\* packed of that PDU, or anything at all once libgse destroyed it.
DesiredLens ==
    IF PayloadLen # 0 THEN {PayloadLen}
    ELSE IF InFifo(vfrag_pdu)
      THEN {Remaining(fifo[k]) + GSE_MAX_HEADER_LENGTH :
              k \in {j \in 1..Len(fifo) : fifo[j].id = vfrag_pdu}}
      ELSE 0..GSE_MAX_PACKET_LENGTH

\* Mutant: the padding is what the whole PDU leaves, not the packet.
PaddingOfPdu(pkt) ==
    IF PayloadLen = 0 THEN 0 ELSE PayloadLen - (GSE_MAX_HEADER_LENGTH + pkt.total)

\* In constant mode the packet is followed by zeros up to payload_len.
Padding(pkt) == IF PayloadLen = 0 THEN 0 ELSE PayloadLen - PacketLen(pkt)

\* One packet, one datagram; when sendto() fails the packet is gone.
Send(pkt) ==
    \/ /\ net' = Append(net, [src |-> "remote", pkts |-> <<pkt>>, pad |-> Padding(pkt)])
       /\ UNCHANGED lost
    \/ /\ Fails("send")
       /\ lost' = lost \union {pkt}
       /\ UNCHANGED net

GetPacket ==
    /\ pc = "drain" /\ ~DrainOver
    /\ \E desired_len \in DesiredLens :
         LET pkt == NextPacket(Head(fifo), desired_len)
         IN  fifo' = Packed(fifo, pkt) /\ Send(pkt)
    /\ UNCHANGED <<stopVars, pc, status, fds, tap, arrived, vfrag_pdu, err, accepted, late>>

\* Mutant: a failed gse_encap_get_packet() drops the PDU.
GetPacketFailsDrops ==
    /\ pc = "drain" /\ ~DrainOver
    /\ Fails("getpkt")
    /\ err' = err + 1
    /\ fifo' = Tail(fifo)
    /\ UNCHANGED <<stopVars, pc, status, fds, tap, arrived, vfrag_pdu, net, accepted, lost, late>>

GetPacketFails ==
    /\ pc = "drain" /\ ~DrainOver
    /\ Fails("getpkt")
    /\ err' = err + 1
    /\ UNCHANGED <<stopVars, pc, status, fds, tap, arrived, vfrag_pdu, fifo, net, accepted, lost, late>>

DrainEnds ==
    /\ pc = "drain" /\ DrainOver
    /\ Goto("loop")
    /\ UNCHANGED <<stopVars, fds, tap, arrived, ioVars>>

\* Mutant: delete_recv_ctxt() is forgotten.
OpenAfterCleanTap == fds \intersect {"tap"}

OpenAfterClean == {}

\* Close everything and compute the return value from `alive`.
Clean ==
    /\ pc = "clean"
    /\ fds' = OpenAfterClean
    /\ Return(IF alive >= 0 THEN 0 ELSE -2)
    /\ UNCHANGED <<stopVars, tap, arrived, ioVars>>

Step ==
    \/ CheckParams \/ CreateRecv \/ CreateSend \/ InstallHandlers \/ Arm \/ EncapInit
    \/ LoopTest \/ EnterSelect \/ SelectReturns \/ LoopFailed
    \/ ReceiveFrame \/ GetPacket \/ GetPacketFails \/ DrainEnds \/ Clean

-----------------------------------------------------------------------------
\* The environment

TapArrives ==
    /\ arrived < MaxFrames
    /\ "tap" \in fds /\ pc \notin {"exited", "killed"}
    /\ arrived' = arrived + 1
    /\ \E len \in FrameLens : tap' = Append(tap, [id |-> arrived', len |-> len])
    /\ UNCHANGED <<stopVars, pc, status, fds, ioVars>>

Signal(s) ==
    /\ pc \notin {"exited", "killed"}
    /\ \/ RaiseHandled(s, pc = "select") /\ UNCHANGED pc
       \/ RaiseDefault(s) /\ pc' = "killed"
       \/ RaiseIgnored(s) /\ UNCHANGED pc
    /\ UNCHANGED <<status, fds, tap, arrived, ioVars>>

Next == Step \/ TapArrives \/ \E s \in Sigs : Signal(s)

\* The process is scheduled; frames and signals need never come.
Spec == Init /\ [][Next]_vars /\ WF_vars(Step)

-----------------------------------------------------------------------------
\* Properties

\* How often byte b of PDU id was handed to the network, lost with a failed
\* sendto(), or still waits in the FIFO.
Carries(pkt, id, b) == pkt.id = id /\ pkt.from < b /\ b <= pkt.to
PlacesOf(id, b) ==
    Cardinality({k \in DOMAIN net : Carries(net[k].pkts[1], id, b)})
    + Cardinality({pkt \in lost : Carries(pkt, id, b)})
    + Cardinality({k \in DOMAIN fifo : fifo[k].id = id /\ fifo[k].sent < b})

\* Every byte of every accepted frame is in exactly one place: it was sent
\* once, was lost with one failed sendto(), or is still in the FIFO.  The
\* drain loop neither skips nor repeats a byte, whatever fails in between.
Accounted == \A f \in accepted : \A b \in 1..f.len : PlacesOf(f.id, b) = 1

\* The datagrams leave in the order of the frames, and the fragments of a
\* frame in the order of its bytes, even after PDUs stayed behind in the FIFO.
InOrder ==
    \A j, k \in DOMAIN net : j < k =>
        LET p == net[j].pkts[1]
            q == net[k].pkts[1]
        IN  p.id < q.id \/ (p.id = q.id /\ p.to <= q.from)

\* The drain loop leaves a PDU behind only by giving up after ErrLimit errors.
LeftoverOnlyAfterErrors == (pc # "drain" /\ fifo # <<>>) => err >= ErrLimit

\* In variable mode every length that decides about a packet is read from a
\* PDU libgse still holds: line 203 reads vfrag_pdu after libgse destroyed it
\* only when the FIFO is empty and the length no longer matters.
StaleLengthHarmless ==
    (PayloadLen = 0 /\ pc = "drain" /\ err < ErrLimit /\ fifo # <<>>) => InFifo(vfrag_pdu)

\* At most one frame is taken from the TAP interface once a stop signal or a
\* loop error was noticed, although pselect() hides the signal while it waits.
AtMostOneLateRead == late <= 1

\* Whoever reaches the end of the loop closes every descriptor; an early
\* return leaves open the socket of a failed bind(), or all of them.
Released ==
    pc = "exited" =>
        \/ fds = {}
        \/ status = -1 /\ fds \in {{"udp"}, {"tap", "evt", "udp"}}

\* A FIFO that is full when the drain loop gives up stays full for good: the
\* next frames are refused at line 189, before the drain loop is reached.
Wedged == pc # "drain" /\ Len(fifo) = MAX_FRAG
WedgedForever == [](Wedged => []Wedged)

\* A stop signal that arrives once `alive = 0` was executed ends the process,
\* whatever the loop is doing and however many frames keep coming.
StopHonoured ==
    (pc \in Looping \union {"encap_init"} /\ (alive = 1 \/ pending # {})) ~> (pc = "exited")

\* What README.md:104 and process_encap.c:88 promise of every handled signal.
HandledSignalStops == (alive = 1) ~> (pc = "exited")

\* What process_encap.h:39 promises: a loop error is returned as -2.
LoopErrorReported == (alive = -1) ~> (status = -2)
\* How the process looks from outside.
Phase ==
    IF pc \in {"exited", "killed"} THEN "gone"
    ELSE IF pc \in {"sigint", "arm"} THEN "handling"
    ELSE IF pc \notin Looping \union {"encap_init", "failed", "clean"} THEN "new"
    ELSE IF alive = 0 /\ pending = {} THEN "running" ELSE "stopping"

P == INSTANCE Program WITH phase <- Phase

\* The process is the program the testbed scripts rely on: once a stop or a
\* loop error was noticed no later store to `alive` undoes it, and it returns.
ImplementsProgram == P!Spec
=============================================================================
