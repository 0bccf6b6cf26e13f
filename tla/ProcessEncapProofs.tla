------------------------- MODULE ProcessEncapProofs -------------------------
(***************************************************************************)
(* Safety of process_encap() for every number of frames, frame length,     *)
(* payload length, FIFO capacity, error limit and set of failing calls.    *)
(***************************************************************************)
EXTENDS ProcessEncap, GseProofs, FiniteSetTheorems

\* What check_encap_params() guarantees from then on: a payload length that
\* leaves room for data behind the header of every packet.
ParamsChecked ==
    pc \notin {"check_params", "exited", "killed"} => PayloadLenValid

-----------------------------------------------------------------------------
\* Type correctness

\* FD_ISSET holds only while a frame waits.
FrameWaits == pc = "receive" => tap # <<>>

TypeInv == TypeOK /\ ParamsChecked /\ FrameWaits

\* Every length the drain loop may ask for is a number, and in constant mode
\* it leaves room behind the header.
LEMMA DesiredLensType ==
    ASSUME TypeOK, NEW desired_len \in DesiredLens
    PROVE  /\ desired_len \in Nat
           /\ PayloadLen # 0 => desired_len = PayloadLen
           /\ PayloadLen # 0 /\ PayloadLenValid => desired_len > GSE_MAX_HEADER_LENGTH
<1>1. PayloadLen \in Nat /\ GSE_MAX_HEADER_LENGTH \in Nat \ {0} /\ GSE_MAX_TRAILER_LENGTH \in Nat \ {0}
      /\ GSE_MAX_PACKET_LENGTH \in Nat
  BY EncapAssumption, GseAssumption DEF EncapAssumption, GseAssumption
<1>2. \A k \in 1..Len(fifo) : Remaining(fifo[k]) + GSE_MAX_HEADER_LENGTH \in Nat
  <2>1. SUFFICES ASSUME NEW k \in 1..Len(fifo)
                 PROVE  Remaining(fifo[k]) + GSE_MAX_HEADER_LENGTH \in Nat
    OBVIOUS
  <2>2. fifo[k] \in Pdu
    BY <2>1 DEF TypeOK
  <2>3. QED
    BY <1>1, <2>2 DEF Pdu, Remaining
<1>3. CASE PayloadLen # 0
  BY <1>1, <1>3 DEF DesiredLens, PayloadLenValid, MIN_ENCAP_FRAME_SIZE
<1>4. CASE PayloadLen = 0
  BY <1>1, <1>2, <1>4 DEF DesiredLens
<1>5. QED
  BY <1>3, <1>4

\* The steps that end the process, and those that touch neither the frames
\* nor the PDUs.
LEMMA ControlType ==
    ASSUME TypeInv,
           \/ CheckParams \/ CreateRecv \/ CreateSend \/ InstallHandlers \/ Arm \/ EncapInit
           \/ LoopTest \/ EnterSelect \/ SelectReturns \/ LoopFailed \/ DrainEnds \/ Clean
    PROVE  TypeInv'
<1> USE DEF TypeInv, TypeOK, StopTypeOK, ParamsChecked, FrameWaits, Labels, Looping,
            Goto, Return, NotReturned, ioVars
<1>1. CASE CheckParams
  BY <1>1 DEF CheckParams, stopVars
<1>2. CASE CreateRecv
  BY <1>2 DEF CreateRecv, OpenTap, stopVars
<1>3. CASE CreateSend
  BY <1>3 DEF CreateSend, OpenUdpFailures, stopVars
<1>4. CASE InstallHandlers
  BY <1>4 DEF InstallHandlers, Install, Sigs
<1>5. CASE Arm
  BY <1>5 DEF Arm, SetAlive
<1>6. CASE EncapInit
  BY <1>6 DEF EncapInit, stopVars
<1>7. CASE LoopTest
  BY <1>7 DEF LoopTest, stopVars
<1>8. CASE EnterSelect
  BY <1>8 DEF EnterSelect, stopVars
<1>9. CASE SelectReturns
  BY <1>9 DEF SelectReturns, Unblock
<1>10. CASE LoopFailed
  BY <1>10 DEF LoopFailed, SetAlive
<1>11. CASE DrainEnds
  BY <1>11 DEF DrainEnds, stopVars
<1>12. CASE Clean
  BY <1>12 DEF Clean, OpenAfterClean, stopVars
<1>13. QED
  BY <1>1, <1>2, <1>3, <1>4, <1>5, <1>6, <1>7, <1>8, <1>9, <1>10, <1>11, <1>12

\* Reading a frame: a well-formed PDU is what the encapsulator is given.
LEMMA ReceiveFrameType ==
    ASSUME TypeInv, ReceiveFrame
    PROVE  TypeInv'
<1>1. Head(tap) \in Frame /\ Tail(tap) \in Seq(Frame)
  BY DEF TypeInv, TypeOK, FrameWaits, ReceiveFrame
<1>2. MaxFrames \in Nat /\ BufferLen \in Nat /\ ErrLimit \in Nat \ {0}
  BY EncapAssumption DEF EncapAssumption
<1>3. BufferLen > 0 => PduRead \in Frame
  BY <1>1, <1>2 DEF PduRead, Frame, Least
<1> USE DEF TypeInv, TypeOK, StopTypeOK, ParamsChecked, FrameWaits, Labels, Looping, Goto, stopVars
<1>4. CASE FrameDropped
  <2>1. tap' \in Seq(Frame)
    BY <1>1, <1>4 DEF FrameDropped
  <2>2. vfrag_pdu' \in 0..MaxFrames
    BY <1>2, <1>4 DEF FrameDropped
  <2>3. late' = late /\ err' = err /\ fifo' = fifo /\ accepted' = accepted /\ net' = net
        /\ lost' = lost /\ fds' = fds /\ arrived' = arrived /\ UNCHANGED stopVars
        /\ pc' = "loop" /\ status' = status /\ pc = "receive"
    BY <1>4 DEF ReceiveFrame, FrameDropped
  <2>4. QED
    BY <2>1, <2>2, <2>3
<1>5. CASE FrameRefused
  BY <1>1, <1>2, <1>5 DEF ReceiveFrame, FrameRefused, ReadLate
<1>6. CASE FrameAccepted
  <2>1. PduRead \in Frame
    BY <1>3, <1>6 DEF FrameAccepted
  <2>2. [id |-> PduRead.id, total |-> PduRead.len, sent |-> 0] \in Pdu
    BY <2>1, <1>2 DEF Frame, Pdu
  <2>3. fifo' \in Seq(Pdu)
    BY <2>2, <1>6 DEF FrameAccepted, Enqueued
  <2>4. accepted' \subseteq Frame
    BY <2>1, <1>6 DEF FrameAccepted
  <2>5. vfrag_pdu' \in 0..MaxFrames
    BY <1>1, <1>2, <1>6 DEF FrameAccepted, Frame
  <2>6. err' \in 0..ErrLimit /\ late' \in Nat /\ tap' \in Seq(Frame)
    BY <1>1, <1>2, <1>6 DEF FrameAccepted, ReadLate
  <2>7. QED
    BY <2>3, <2>4, <2>5, <2>6, <1>6 DEF ReceiveFrame, FrameAccepted
<1>7. QED
  BY <1>4, <1>5, <1>6 DEF ReceiveFrame

\* Packing and sending: the padding of a datagram is never negative.
LEMMA GetPacketType ==
    ASSUME TypeInv, GetPacket
    PROVE  TypeInv'
<1>1. PICK desired_len \in DesiredLens :
        /\ fifo' = Packed(fifo, NextPacket(Head(fifo), desired_len))
        /\ Send(NextPacket(Head(fifo), desired_len))
  BY DEF GetPacket
<1> DEFINE pkt == NextPacket(Head(fifo), desired_len)
<1>2. fifo \in Seq(Pdu) /\ fifo # <<>> /\ Head(fifo) \in Pdu
  BY DEF TypeInv, TypeOK, GetPacket, DrainOver
<1>3. desired_len \in Nat
      /\ (PayloadLen # 0 => desired_len = PayloadLen /\ desired_len > GSE_MAX_HEADER_LENGTH)
  BY DesiredLensType DEF TypeInv, ParamsChecked, GetPacket
<1>4. /\ pkt \in Packet
      /\ pkt.total = Head(fifo).total
      /\ PayloadLen # 0 => PacketLen(pkt) <= PayloadLen
  BY <1>2, <1>3, NextPacketType
<1> HIDE DEF pkt
<1>5. fifo' \in Seq(Pdu)
  BY <1>1, <1>2, <1>4, PackedType DEF pkt
<1>6. Padding(pkt) \in Nat
  <2>1. PayloadLen \in Nat /\ PacketLen(pkt) \in Nat
    BY <1>4, EncapAssumption, GseAssumption DEF EncapAssumption, GseAssumption, PacketLen, Packet
  <2>2. QED
    BY <2>1, <1>4 DEF Padding
<1>7. net' \in Seq(Datagram) /\ lost' \subseteq Packet
  <2> DEFINE dg == [src |-> "remote", pkts |-> <<pkt>>, pad |-> Padding(pkt)]
  <2>1. dg \in Datagram
    BY <1>4, <1>6 DEF Datagram
  <2>2. net \in Seq(Datagram) /\ lost \subseteq Packet
    BY DEF TypeInv, TypeOK
  <2>3. (net' = Append(net, dg) /\ lost' = lost) \/ (lost' = lost \union {pkt} /\ net' = net)
    BY <1>1 DEF pkt, Send
  <2> HIDE DEF dg
  <2>4. QED
    BY <2>1, <2>2, <2>3, <1>4
<1>8. QED
  BY <1>5, <1>7 DEF GetPacket, TypeInv, TypeOK, StopTypeOK, ParamsChecked, FrameWaits, stopVars

\* Giving up one packet of the drain loop, and the two environment steps.
LEMMA GetPacketFailsType ==
    ASSUME TypeInv, GetPacketFails
    PROVE  TypeInv'
<1>1. ErrLimit \in Nat \ {0}
  BY EncapAssumption DEF EncapAssumption
<1>2. QED
  BY <1>1 DEF GetPacketFails, DrainOver, TypeInv, TypeOK, StopTypeOK, ParamsChecked, FrameWaits, stopVars

LEMMA TapArrivesType ==
    ASSUME TypeInv, TapArrives
    PROVE  TypeInv'
<1>1. MaxFrames \in Nat /\ FrameLens \subseteq Nat \ {0}
  BY EncapAssumption DEF EncapAssumption
<1>2. arrived' \in 1..MaxFrames
  BY <1>1 DEF TapArrives, TypeInv, TypeOK
<1>3. tap' \in Seq(Frame) /\ tap' # <<>>
  <2>1. PICK len \in FrameLens : tap' = Append(tap, [id |-> arrived', len |-> len])
    BY DEF TapArrives
  <2>2. [id |-> arrived', len |-> len] \in Frame
    BY <1>1, <1>2 DEF Frame
  <2>3. tap \in Seq(Frame)
    BY DEF TypeInv, TypeOK
  <2>4. QED
    BY <2>1, <2>2, <2>3
<1>4. QED
  BY <1>1, <1>2, <1>3 DEF TapArrives, TypeInv, TypeOK, StopTypeOK, ParamsChecked, FrameWaits,
                          stopVars, ioVars

LEMMA SignalType ==
    ASSUME TypeInv, NEW s \in Sigs, Signal(s)
    PROVE  TypeInv'
<1>1. MaxSignals \in Nat
  BY MaxSignalsAssumption DEF MaxSignalsAssumption
<1>2. CASE RaiseHandled(s, pc = "select") /\ UNCHANGED pc
  BY <1>1, <1>2 DEF Signal, RaiseHandled, TypeInv, TypeOK, StopTypeOK, ParamsChecked,
                    FrameWaits, ioVars
<1>3. CASE RaiseDefault(s) /\ pc' = "killed"
  BY <1>1, <1>3 DEF Signal, RaiseDefault, TypeInv, TypeOK, StopTypeOK, ParamsChecked,
                    FrameWaits, Labels, ioVars
<1>4. CASE RaiseIgnored(s) /\ UNCHANGED pc
  BY <1>1, <1>4 DEF Signal, RaiseIgnored, TypeInv, TypeOK, StopTypeOK, ParamsChecked,
                    FrameWaits, ioVars
<1>5. QED
  BY <1>2, <1>3, <1>4 DEF Signal

LEMMA InitType == Init => TypeInv
BY MaxSignalsAssumption, EncapAssumption
DEF MaxSignalsAssumption, EncapAssumption, Init, StopInit, TypeInv, TypeOK, StopTypeOK,
    ParamsChecked, FrameWaits, Labels, Looping, NotReturned

LEMMA NextType == TypeInv /\ [Next]_vars => TypeInv'
<1> SUFFICES ASSUME TypeInv, [Next]_vars PROVE TypeInv'
  OBVIOUS
<1>1. CASE Step
  BY <1>1, ControlType, ReceiveFrameType, GetPacketType, GetPacketFailsType DEF Step
<1>2. CASE TapArrives
  BY <1>2, TapArrivesType
<1>3. CASE \E s \in Sigs : Signal(s)
  BY <1>3, SignalType
<1>4. CASE UNCHANGED vars
  BY <1>4 DEF vars, stopVars, ioVars, TypeInv, TypeOK, StopTypeOK, ParamsChecked, FrameWaits
<1>5. QED
  BY <1>1, <1>2, <1>3, <1>4 DEF Next

\* Every variable of process_encap() keeps its type, for every value of the
\* constants.  Two parts are more than types: no datagram is padded by a
\* negative amount (line 214 computes a size_t), and no PDU in the
\* encapsulator's FIFO is already sent to its end.
THEOREM TypeCorrect == Spec => []TypeOK
<1>1. TypeInv => TypeOK
  BY DEF TypeInv
<1>2. QED
  BY <1>1, InitType, NextType, PTL DEF Spec

-----------------------------------------------------------------------------
\* The drain loop and the late reads

\* While the drain loop runs, the PDU that vfrag_pdu points to is the newest
\* one: libgse packs the oldest first, so that a FIFO that is not empty still
\* holds it.
NewestInFifo == (pc = "drain" /\ fifo # <<>>) => fifo[Len(fifo)].id = vfrag_pdu

\* Once a frame was read late the loop can only be left: nothing stores 0 in
\* `alive` behind the main loop's first test.
LateLeaves ==
    /\ late <= 1
    /\ late = 1 => alive # 0 /\ pc \in {"drain", "loop", "clean", "exited", "killed"}

\* From the second signal() on, no stop signal kills the process.
HandlersInstalled ==
    /\ pc \in Looping \union {"arm", "encap_init", "failed", "clean"} => installed = Sigs
    /\ pc = "sigint" => "SIGTERM" \in installed

SafeInv == NewestInFifo /\ LeftoverOnlyAfterErrors /\ LateLeaves /\ HandlersInstalled

LEMMA InitSafe == Init => SafeInv
BY DEF Init, StopInit, SafeInv, NewestInFifo, LeftoverOnlyAfterErrors, LateLeaves,
       HandlersInstalled, Looping

LEMMA ControlSafe ==
    ASSUME TypeInv, SafeInv,
           \/ CheckParams \/ CreateRecv \/ CreateSend \/ InstallHandlers \/ Arm \/ EncapInit
           \/ LoopTest \/ EnterSelect \/ SelectReturns \/ LoopFailed \/ DrainEnds \/ Clean
    PROVE  SafeInv'
<1>1. late \in Nat /\ alive \in {-1, 0, 1} /\ err \in Nat /\ ErrLimit \in Nat
  BY EncapAssumption DEF EncapAssumption, TypeInv, TypeOK, StopTypeOK
<1>2. late' = late /\ fifo' = fifo /\ err' = err /\ vfrag_pdu' = vfrag_pdu /\ pc' # "drain"
  BY DEF CheckParams, CreateRecv, CreateSend, InstallHandlers, Arm, EncapInit, LoopTest,
         EnterSelect, SelectReturns, LoopFailed, DrainEnds, Clean, Goto, Return, ioVars
<1>3. NewestInFifo'
  BY <1>2 DEF NewestInFifo
<1>4. LeftoverOnlyAfterErrors'
  <2>1. CASE DrainEnds
    BY <1>1, <1>2, <2>1 DEF DrainEnds, DrainOver, LeftoverOnlyAfterErrors
  <2>2. CASE pc # "drain"
    BY <1>2, <2>2 DEF SafeInv, LeftoverOnlyAfterErrors
  <2>3. QED
    BY <2>1, <2>2 DEF CheckParams, CreateRecv, CreateSend, InstallHandlers, Arm, EncapInit,
                      LoopTest, EnterSelect, SelectReturns, LoopFailed, Clean
<1>5. LateLeaves'
  <2>1. SUFFICES ASSUME late = 1
                 PROVE  alive' # 0 /\ pc' \in {"drain", "loop", "clean", "exited", "killed"}
    BY <1>1, <1>2 DEF SafeInv, LateLeaves
  <2>2. alive # 0 /\ pc \in {"drain", "loop", "clean", "exited", "killed"}
    BY <2>1 DEF SafeInv, LateLeaves
  <2>3. LoopTest \/ DrainEnds \/ Clean
    BY <2>2 DEF CheckParams, CreateRecv, CreateSend, InstallHandlers, Arm, EncapInit,
                EnterSelect, SelectReturns, LoopFailed
  <2>4. QED
    BY <2>2, <2>3 DEF LoopTest, Running, DrainEnds, Clean, Goto, Return, stopVars
<1>6. HandlersInstalled'
  <2> USE DEF SafeInv, HandlersInstalled, Looping, Goto, Return
  <2>1. CASE InstallHandlers
    BY <2>1 DEF InstallHandlers, Install, Sigs, TypeInv, TypeOK, StopTypeOK
  <2>2. CASE CheckParams \/ CreateRecv \/ CreateSend \/ Arm \/ EncapInit
    BY <2>2 DEF CheckParams, CreateRecv, CreateSend, Arm, EncapInit, SetAlive, stopVars
  <2>3. CASE LoopTest \/ EnterSelect \/ SelectReturns \/ LoopFailed \/ DrainEnds \/ Clean
    BY <2>3 DEF LoopTest, EnterSelect, SelectReturns, LoopFailed, DrainEnds, Clean,
                SetAlive, Unblock, stopVars
  <2>4. QED
    BY <2>1, <2>2, <2>3
<1>7. QED
  BY <1>3, <1>4, <1>5, <1>6 DEF SafeInv

LEMMA ReceiveFrameSafe ==
    ASSUME TypeInv, SafeInv, ReceiveFrame
    PROVE  SafeInv'
<1>1. late = 0 /\ pc = "receive" /\ alive' = alive
  BY DEF TypeInv, TypeOK, SafeInv, LateLeaves, ReceiveFrame, stopVars
<1>2. late' \in {0, 1} /\ (late' = 1 => alive' # 0) /\ pc' \in {"loop", "drain"}
  BY <1>1 DEF ReceiveFrame, FrameDropped, FrameRefused, FrameAccepted, ReadLate, Goto
<1>3. LateLeaves' /\ HandlersInstalled'
  BY <1>1, <1>2 DEF LateLeaves, HandlersInstalled, SafeInv, Looping, ReceiveFrame, stopVars
<1>4. CASE FrameDropped \/ FrameRefused
  <2>1. fifo' = fifo /\ err' = err /\ pc' = "loop"
    BY <1>4 DEF FrameDropped, FrameRefused, Goto
  <2>2. QED
    BY <1>1, <1>3, <2>1 DEF SafeInv, NewestInFifo, LeftoverOnlyAfterErrors
<1>5. CASE FrameAccepted
  <2>1. fifo' = Append(fifo, [id |-> PduRead.id, total |-> PduRead.len, sent |-> 0])
        /\ vfrag_pdu' = PduRead.id /\ pc' = "drain"
    BY <1>5 DEF FrameAccepted, Enqueued, PduRead, Goto
  <2>2. fifo'[Len(fifo')].id = vfrag_pdu'
    BY <2>1 DEF TypeInv, TypeOK
  <2>3. QED
    BY <1>3, <2>1, <2>2 DEF SafeInv, NewestInFifo, LeftoverOnlyAfterErrors
<1>6. QED
  BY <1>4, <1>5 DEF ReceiveFrame

LEMMA GetPacketSafe ==
    ASSUME TypeInv, SafeInv, GetPacket
    PROVE  SafeInv'
<1>1. PICK desired_len \in DesiredLens : fifo' = Packed(fifo, NextPacket(Head(fifo), desired_len))
  BY DEF GetPacket
<1>2. fifo \in Seq(Pdu) /\ fifo # <<>> /\ Head(fifo) \in Pdu /\ pc = "drain"
  BY DEF TypeInv, TypeOK, GetPacket, DrainOver
<1>3. desired_len \in Nat
  BY DesiredLensType DEF TypeInv
<1>4. fifo' # <<>> => fifo'[Len(fifo')].id = fifo[Len(fifo)].id
  BY <1>1, <1>2, <1>3, NextPacketType, PackedType
<1>5. QED
  BY <1>2, <1>4 DEF GetPacket, SafeInv, NewestInFifo, LeftoverOnlyAfterErrors, LateLeaves,
                    HandlersInstalled, stopVars

LEMMA NextSafe == TypeInv /\ SafeInv /\ [Next]_vars => SafeInv'
<1> SUFFICES ASSUME TypeInv, SafeInv, [Next]_vars PROVE SafeInv'
  OBVIOUS
<1>1. CASE GetPacketFails
  BY <1>1 DEF GetPacketFails, SafeInv, NewestInFifo, LeftoverOnlyAfterErrors, LateLeaves,
              HandlersInstalled, stopVars
<1>2. CASE TapArrives
  BY <1>2 DEF TapArrives, SafeInv, NewestInFifo, LeftoverOnlyAfterErrors, LateLeaves,
              HandlersInstalled, stopVars, ioVars
<1>3. ASSUME NEW s \in Sigs, Signal(s) PROVE SafeInv'
  <2>1. fifo' = fifo /\ err' = err /\ vfrag_pdu' = vfrag_pdu /\ late' = late
        /\ installed' = installed
        /\ (alive' = alive \/ alive' = 1)
        /\ (pc' = pc \/ (pc' = "killed" /\ s \notin installed))
    BY <1>3 DEF Signal, RaiseHandled, RaiseDefault, RaiseIgnored, ioVars
  <2>2. CASE pc' = pc
    BY <2>1, <2>2 DEF SafeInv, NewestInFifo, LeftoverOnlyAfterErrors, LateLeaves, HandlersInstalled
  <2>3. CASE pc' = "killed" /\ s \notin installed
    <3>1. pc \notin Looping \union {"arm", "encap_init", "failed", "clean"}
      BY <1>3, <2>3 DEF SafeInv, HandlersInstalled
    <3>2. pc # "drain"
      BY <3>1 DEF Looping
    <3>3. QED
      BY <2>1, <2>3, <3>2 DEF SafeInv, NewestInFifo, LeftoverOnlyAfterErrors, LateLeaves,
                              HandlersInstalled, Looping
  <2>4. QED
    BY <2>1, <2>2, <2>3
<1>4. CASE UNCHANGED vars
  BY <1>4 DEF vars, stopVars, ioVars, SafeInv, NewestInFifo, LeftoverOnlyAfterErrors, LateLeaves,
              HandlersInstalled
<1>5. QED
  BY <1>1, <1>2, <1>3, <1>4, ControlSafe, ReceiveFrameSafe, GetPacketSafe DEF Next, Step

LEMMA SafeAlways == Spec => [](TypeInv /\ SafeInv)
BY InitType, NextType, InitSafe, NextSafe, PTL DEF Spec

\* Line 203 never decides about a packet with a length read from a PDU that
\* libgse already destroyed.
THEOREM StaleLengthIsHarmless == Spec => []StaleLengthHarmless
<1>1. TypeInv /\ SafeInv => StaleLengthHarmless
  <2>1. SUFFICES ASSUME TypeInv, SafeInv, pc = "drain", fifo # <<>>
                 PROVE  InFifo(vfrag_pdu)
    BY DEF StaleLengthHarmless
  <2>2. Len(fifo) \in 1..Len(fifo)
    BY <2>1 DEF TypeInv, TypeOK
  <2>3. QED
    BY <2>1, <2>2 DEF SafeInv, NewestInFifo, InFifo
<1>2. QED
  BY <1>1, SafeAlways, PTL

\* A PDU stays behind in the FIFO only when the drain loop counted ErrLimit
\* errors, for every capacity of the FIFO and every set of failing calls.
THEOREM LeftoverMeansErrors == Spec => []LeftoverOnlyAfterErrors
<1>1. SafeInv => LeftoverOnlyAfterErrors
  BY DEF SafeInv
<1>2. QED
  BY <1>1, SafeAlways, PTL

\* However many frames wait, at most one of them is read once the stop was
\* noticed.
THEOREM OneLateRead == Spec => []AtMostOneLateRead
<1>1. SafeInv => AtMostOneLateRead
  BY DEF SafeInv, LateLeaves, AtMostOneLateRead
<1>2. QED
  BY <1>1, SafeAlways, PTL

\* A FIFO that the drain loop left full is never drained again, whatever its
\* capacity: nothing but an accepted frame leads to the drain loop.
THEOREM WedgeIsPermanent == Spec => WedgedForever
<1>1. TypeInv /\ Wedged /\ [Next]_vars => Wedged'
  <2> SUFFICES ASSUME TypeInv, Wedged, [Next]_vars PROVE Wedged'
    OBVIOUS
  <2>1. ~FrameAccepted /\ ~GetPacket /\ ~GetPacketFails
    BY EncapAssumption DEF EncapAssumption, Wedged, FrameAccepted, GetPacket, GetPacketFails
  <2>2. CASE Step
    BY <2>1, <2>2 DEF Step, Wedged, CheckParams, CreateRecv, CreateSend, InstallHandlers, Arm,
       EncapInit, LoopTest, EnterSelect, SelectReturns, LoopFailed, DrainEnds, Clean,
       ReceiveFrame, FrameDropped, FrameRefused, Goto, Return, ioVars
  <2>3. CASE TapArrives \/ \E s \in Sigs : Signal(s)
    BY <2>3 DEF TapArrives, Signal, Wedged, ioVars
  <2>4. CASE UNCHANGED vars
    BY <2>4 DEF vars, ioVars, Wedged
  <2>5. QED
    BY <2>2, <2>3, <2>4 DEF Next
<1>2. QED
  BY <1>1, SafeAlways, PTL DEF Spec, WedgedForever

-----------------------------------------------------------------------------
\* What is open, and what is seen from outside

\* The descriptors that are open when a line is reached.
OpenAt ==
    /\ pc \in {"check_params", "create_recv"} => fds = {}
    /\ pc = "create_send" => fds = {"tap"}
    /\ pc \in Looping \union {"sigterm", "sigint", "arm", "encap_init", "failed", "clean"}
         => fds = {"tap", "evt", "udp"}

\* A signal waits only while pselect() blocks it.
PendingInSelect == pending # {} => pc = "select"

OutsideInv == OpenAt /\ Released /\ PendingInSelect

LEMMA InitOutside == Init => OutsideInv
BY DEF Init, StopInit, OutsideInv, OpenAt, Released, PendingInSelect, Looping

LEMMA ReleasedSteps == OutsideInv /\ [Next]_vars => OpenAt' /\ Released'
<1> SUFFICES ASSUME OutsideInv, [Next]_vars PROVE OpenAt' /\ Released'
  OBVIOUS
<1> USE DEF OutsideInv, OpenAt, Released, Looping, Goto, Return
<1>1. CASE CheckParams \/ CreateRecv \/ EncapInit
  BY <1>1 DEF CheckParams, CreateRecv, OpenTap, EncapInit
<1>2. CASE CreateSend
  BY <1>2 DEF CreateSend, OpenUdpFailures
<1>3. CASE InstallHandlers \/ Arm \/ LoopTest \/ EnterSelect \/ SelectReturns
  BY <1>3 DEF InstallHandlers, Arm, LoopTest, EnterSelect, SelectReturns
<1>4. CASE LoopFailed \/ DrainEnds \/ Clean
  BY <1>4 DEF LoopFailed, DrainEnds, Clean, OpenAfterClean
<1>5. CASE ReceiveFrame
  BY <1>5 DEF ReceiveFrame, FrameDropped, FrameRefused, FrameAccepted
<1>6. CASE GetPacket \/ GetPacketFails \/ TapArrives
  BY <1>6 DEF GetPacket, GetPacketFails, TapArrives
<1>7. CASE \E s \in Sigs : Signal(s)
  BY <1>7 DEF Signal
<1>8. CASE UNCHANGED vars
  BY <1>8 DEF vars
<1>9. QED
  BY <1>1, <1>2, <1>3, <1>4, <1>5, <1>6, <1>7, <1>8 DEF Next, Step

LEMMA PendingSteps == SafeInv /\ PendingInSelect /\ [Next]_vars => PendingInSelect'
<1> SUFFICES ASSUME SafeInv, PendingInSelect, [Next]_vars PROVE PendingInSelect'
  OBVIOUS
<1> USE DEF PendingInSelect, Goto, Return, stopVars
<1>1. CASE CheckParams \/ CreateRecv \/ CreateSend \/ InstallHandlers \/ Arm \/ EncapInit
  BY <1>1 DEF CheckParams, CreateRecv, CreateSend, InstallHandlers, Install, Arm, SetAlive, EncapInit
<1>2. CASE LoopTest \/ EnterSelect \/ SelectReturns \/ LoopFailed \/ DrainEnds \/ Clean
  BY <1>2 DEF LoopTest, EnterSelect, SelectReturns, Unblock, LoopFailed, SetAlive, DrainEnds, Clean
<1>3. CASE ReceiveFrame \/ GetPacket \/ GetPacketFails \/ TapArrives
  BY <1>3 DEF ReceiveFrame, GetPacket, GetPacketFails, TapArrives
<1>4. CASE \E s \in Sigs : Signal(s)
  BY <1>4 DEF Signal, RaiseHandled, RaiseDefault, RaiseIgnored, SafeInv, HandlersInstalled, Looping
<1>5. CASE UNCHANGED vars
  BY <1>5 DEF vars
<1>6. QED
  BY <1>1, <1>2, <1>3, <1>4, <1>5 DEF Next, Step

LEMMA OutsideAlways == Spec => []OutsideInv
<1>1. SafeInv /\ OutsideInv /\ [Next]_vars => OutsideInv'
  BY ReleasedSteps, PendingSteps DEF OutsideInv
<1>2. QED
  BY <1>1, InitOutside, SafeAlways, PTL DEF Spec

\* Whatever call fails, a return from the loop leaves no descriptor open, and
\* an early return only the socket of a failed bind() or all three.
THEOREM NothingLeaks == Spec => []Released
<1>1. OutsideInv => Released
  BY DEF OutsideInv
<1>2. QED
  BY <1>1, OutsideAlways, PTL

\* The steps of the program that occur.
LEMMA PhaseSteps ==
    /\ Phase = "new" /\ Phase' = "handling" => P!Next
    /\ Phase = "handling" /\ Phase' = "running" => P!Next
    /\ Phase = "running" /\ Phase' = "stopping" => P!Next
    /\ Phase \in {"new", "handling", "running", "stopping"} /\ Phase' = "gone" => P!Next
<1>1. P!MovesTo("new") = "handling" /\ P!MovesTo("handling") = "running"
  BY DEF P!MovesTo
<1>2. P!Interrupted("running") = "stopping"
  BY DEF P!Interrupted
<1>3. QED
  BY <1>1, <1>2 DEF P!Next, P!MovesOn, P!Stops, P!Ends

\* A step outside the signals and the stores to `alive` is a step of the
\* program, or none.
LEMMA ControlObeys ==
    ASSUME TypeInv, OutsideInv, Step
    PROVE  P!Next \/ Phase' = Phase
<1> USE PhaseSteps DEF Phase, Looping, Goto, Return, stopVars
<1>1. CASE CheckParams \/ CreateRecv \/ CreateSend \/ InstallHandlers
  BY <1>1 DEF CheckParams, CreateRecv, CreateSend, InstallHandlers
<1>2. CASE Arm
  BY <1>2 DEF Arm, SetAlive, OutsideInv, PendingInSelect
<1>3. CASE EncapInit \/ LoopTest \/ EnterSelect
  BY <1>3 DEF EncapInit, LoopTest, EnterSelect
<1>4. CASE SelectReturns
  BY <1>4 DEF SelectReturns, Unblock
<1>5. CASE LoopFailed
  BY <1>5 DEF LoopFailed, SetAlive
<1>6. CASE ReceiveFrame
  BY <1>6 DEF ReceiveFrame, FrameDropped, FrameRefused, FrameAccepted
<1>7. CASE GetPacket \/ GetPacketFails
  BY <1>7 DEF GetPacket, GetPacketFails
<1>8. CASE DrainEnds \/ Clean
  BY <1>8 DEF DrainEnds, Clean
<1>9. QED
  BY <1>1, <1>2, <1>3, <1>4, <1>5, <1>6, <1>7, <1>8 DEF Step

\* Seen through its phase, the process only ever makes the steps the testbed
\* scripts rely on: no store to `alive` takes back a stop that was noticed.
\* This is what ImplementsProgram says of steps.
THEOREM ObeysProgram == Spec => P!Init /\ [][P!Next]_Phase
<1>1. Init => P!Init
  BY DEF Init, P!Init, Phase, Looping
<1>2. TypeInv /\ OutsideInv /\ [Next]_vars => [P!Next]_Phase
  <2> SUFFICES ASSUME TypeInv, OutsideInv, [Next]_vars PROVE P!Next \/ Phase' = Phase
    OBVIOUS
  <2>1. CASE Step
    BY <2>1, ControlObeys
  <2>2. CASE TapArrives \/ UNCHANGED vars
    BY <2>2 DEF TapArrives, vars, stopVars, Phase
  <2>3. CASE \E s \in Sigs : Signal(s)
    BY <2>3, PhaseSteps DEF Signal, RaiseHandled, RaiseDefault, RaiseIgnored, Phase, Looping
  <2>4. QED
    BY <2>1, <2>2, <2>3 DEF Next
<1>3. QED
  BY <1>1, <1>2, SafeAlways, OutsideAlways, PTL DEF Spec

-----------------------------------------------------------------------------
\* The order of the datagrams

\* Frames are numbered as they arrive; those that wait are younger than those
\* that were accepted.
FramesInOrder ==
    /\ \A i, j \in 1..Len(tap) : i < j => tap[i].id < tap[j].id
    /\ \A i \in 1..Len(tap) : tap[i].id <= arrived
    /\ \A f \in accepted : f.id <= arrived
    /\ \A f \in accepted : \A i \in 1..Len(tap) : f.id < tap[i].id
    /\ \A f, g \in accepted : f.id = g.id => f = g

\* The FIFO holds accepted frames in their order, and only its head may be cut.
FifoInOrder ==
    /\ \A i, j \in 1..Len(fifo) : i < j => fifo[i].id < fifo[j].id
    /\ \A i \in 1..Len(fifo) : i > 1 => fifo[i].sent = 0
    /\ \A i \in 1..Len(fifo) : [id |-> fifo[i].id, len |-> fifo[i].total] \in accepted

\* A packet with the bytes from..to of a PDU comes before what the FIFO holds
\* of it, and before every later PDU.
Precedes(pkt, pdu) == pkt.id < pdu.id \/ (pkt.id = pdu.id /\ pkt.to <= pdu.sent)

SentBefore ==
    /\ \A k \in 1..Len(net) : net[k].pkts[1] \in Packet
    /\ \A k \in 1..Len(net) : \A i \in 1..Len(fifo) : Precedes(net[k].pkts[1], fifo[i])
    /\ \A k \in 1..Len(net) : \E f \in accepted : f.id = net[k].pkts[1].id
    /\ \A pkt \in lost : \E f \in accepted : f.id = pkt.id

OrderInv == FramesInOrder /\ FifoInOrder /\ SentBefore /\ InOrder

\* Where the bytes of PDU id are.
OnNet(id, b)   == {k \in DOMAIN net : Carries(net[k].pkts[1], id, b)}
Lost(id, b)    == {pkt \in lost : Carries(pkt, id, b)}
Waiting(id, b) == {k \in DOMAIN fifo : fifo[k].id = id /\ fifo[k].sent < b}

OnePlace(id, b) ==
    \/ \E k : OnNet(id, b) = {k} /\ Lost(id, b) = {} /\ Waiting(id, b) = {}
    \/ \E pkt : OnNet(id, b) = {} /\ Lost(id, b) = {pkt} /\ Waiting(id, b) = {}
    \/ \E k : OnNet(id, b) = {} /\ Lost(id, b) = {} /\ Waiting(id, b) = {k}

PlaceInv == \A f \in accepted : \A b \in 1..f.len : OnePlace(f.id, b)

orderVars == <<fifo, net, tap, accepted, lost, arrived>>

LEMMA InitOrder == Init => OrderInv /\ PlaceInv
BY DEF Init, OrderInv, FramesInOrder, FifoInOrder, SentBefore, InOrder, PlaceInv

\* The steps that take no frame and no packet.
LEMMA OtherSteps ==
    ASSUME [Next]_vars, ~ReceiveFrame, ~GetPacket, ~TapArrives
    PROVE  UNCHANGED orderVars
<1>1. CASE Step
  BY <1>1 DEF Step, CheckParams, CreateRecv, CreateSend, InstallHandlers, Arm, EncapInit,
     LoopTest, EnterSelect, SelectReturns, LoopFailed, GetPacketFails, DrainEnds, Clean,
     ioVars, orderVars
<1>2. CASE \E s \in Sigs : Signal(s)
  BY <1>2 DEF Signal, ioVars, orderVars
<1>3. CASE UNCHANGED vars
  BY <1>3 DEF vars, ioVars, orderVars
<1>4. QED
  BY <1>1, <1>2, <1>3 DEF Next

LEMMA UnchangedOrder ==
    ASSUME OrderInv, UNCHANGED orderVars
    PROVE  OrderInv'
<1>1. UNCHANGED <<fifo, net, tap, accepted, lost, arrived>>
  BY DEF orderVars
<1>2. FramesInOrder' /\ FifoInOrder'
  BY <1>1 DEF OrderInv, FramesInOrder, FifoInOrder
<1>3. SentBefore' /\ InOrder'
  BY <1>1 DEF OrderInv, SentBefore, InOrder
<1>4. QED
  BY <1>2, <1>3 DEF OrderInv

\* What is left on the TAP interface keeps its order.
LEMMA TailInOrder ==
    ASSUME TypeOK, FramesInOrder, tap # <<>>
    PROVE  /\ Len(Tail(tap)) \in Nat
           /\ \A i, j \in 1..Len(Tail(tap)) : i < j => Tail(tap)[i].id < Tail(tap)[j].id
           /\ \A i \in 1..Len(Tail(tap)) : /\ Tail(tap)[i].id <= arrived
                                           /\ Head(tap).id < Tail(tap)[i].id
                                           /\ \A f \in accepted : f.id < Tail(tap)[i].id
<1>1. Len(tap) \in Nat /\ Len(tap) >= 1 /\ Head(tap) = tap[1] /\ Len(Tail(tap)) = Len(tap) - 1
  BY DEF TypeOK
<1>2. \A i \in 1..Len(Tail(tap)) : i + 1 \in 1..Len(tap) /\ Tail(tap)[i] = tap[i + 1] /\ 1 < i + 1
  BY <1>1 DEF TypeOK
<1>3. 1 \in 1..Len(tap) /\ \A i, j \in 1..Len(Tail(tap)) : i < j => i + 1 < j + 1
  BY <1>1
<1>4. QED
  BY <1>1, <1>2, <1>3 DEF FramesInOrder

LEMMA ReceiveOrder ==
    ASSUME TypeInv, OrderInv, ReceiveFrame
    PROVE  OrderInv'
<1>1. tap # <<>> /\ TypeOK /\ net' = net /\ lost' = lost /\ arrived' = arrived
  BY DEF TypeInv, FrameWaits, ReceiveFrame
<1>2. InOrder'
  BY <1>1 DEF OrderInv, InOrder
<1>3. CASE FrameDropped \/ FrameRefused
  <2>1. fifo' = fifo /\ accepted' = accepted /\ tap' \in {tap, Tail(tap)}
    BY <1>3 DEF FrameDropped, FrameRefused
  <2>2. FramesInOrder'
    <3>1. CASE tap' = tap
      BY <1>1, <2>1, <3>1 DEF OrderInv, FramesInOrder
    <3>2. CASE tap' = Tail(tap)
      BY <1>1, <2>1, <3>2, TailInOrder DEF OrderInv, FramesInOrder
    <3>3. QED
      BY <2>1, <3>1, <3>2
  <2>3. QED
    BY <1>1, <1>2, <2>1, <2>2 DEF OrderInv, FifoInOrder, SentBefore
<1>4. CASE FrameAccepted
  <2> DEFINE new == [id |-> PduRead.id, total |-> PduRead.len, sent |-> 0]
  <2>1. fifo' = Append(fifo, new) /\ accepted' = accepted \union {PduRead} /\ tap' = Tail(tap)
    BY <1>4 DEF FrameAccepted, Enqueued
  <2>2. PduRead.id = Head(tap).id /\ Head(tap) = tap[1] /\ 1 \in 1..Len(tap)
    BY <1>1 DEF PduRead, TypeOK
  <2>3. PduRead.id = new.id /\ PduRead = [id |-> new.id, len |-> new.total] /\ new.sent = 0
    BY DEF PduRead
  <2> HIDE DEF new
  <2>4. /\ \A f \in accepted : f.id < PduRead.id
        /\ PduRead.id <= arrived
    BY <2>2 DEF OrderInv, FramesInOrder
  <2>5. FramesInOrder'
    <3>1. \A f \in accepted : f.id # PduRead.id
      <4>1. \A f \in accepted : f.id \in Nat
        BY <1>1, EncapAssumption DEF EncapAssumption, TypeOK, Frame
      <4>2. PduRead.id \in Nat
        <5>1. Head(tap) \in Frame
          BY <1>1 DEF TypeOK
        <5>2. QED
          BY <2>2, <5>1, EncapAssumption DEF EncapAssumption, Frame
      <4>3. QED
        BY <2>4, <4>1, <4>2
    <3>2. \A i \in 1..Len(tap') : PduRead.id < tap'[i].id
      BY <1>1, <2>1, <2>2, TailInOrder DEF OrderInv
    <3>3. QED
      BY <1>1, <2>1, <2>4, <3>1, <3>2, TailInOrder DEF OrderInv, FramesInOrder
  <2>6. /\ Len(fifo) \in Nat /\ Len(fifo') = Len(fifo) + 1 /\ fifo'[Len(fifo) + 1] = new
        /\ \A i \in 1..Len(fifo) : fifo'[i] = fifo[i]
        /\ \A i \in 1..Len(fifo') : i \in 1..Len(fifo) \/ i = Len(fifo) + 1
    BY <1>1, <2>1 DEF TypeOK
  <2>7. FifoInOrder'
    <3>1. \A i \in 1..Len(fifo) : fifo[i].id < new.id
      <4>1. SUFFICES ASSUME NEW i \in 1..Len(fifo) PROVE fifo[i].id < new.id
        OBVIOUS
      <4>2. [id |-> fifo[i].id, len |-> fifo[i].total] \in accepted
        BY DEF OrderInv, FifoInOrder
      <4>3. QED
        BY <2>3, <2>4, <4>2
    <3>2. \A i \in 1..Len(fifo') : [id |-> fifo'[i].id, len |-> fifo'[i].total] \in accepted'
      BY <2>1, <2>3, <2>6 DEF OrderInv, FifoInOrder
    <3>3. \A i \in 1..Len(fifo') : i > 1 => fifo'[i].sent = 0
      BY <2>3, <2>6 DEF OrderInv, FifoInOrder
    <3>4. ASSUME NEW i \in 1..Len(fifo'), NEW j \in 1..Len(fifo'), i < j
          PROVE  fifo'[i].id < fifo'[j].id
      <4>1. i \in 1..Len(fifo)
        BY <2>6, <3>4
      <4>2. CASE j \in 1..Len(fifo)
        BY <2>6, <3>4, <4>1, <4>2 DEF OrderInv, FifoInOrder
      <4>3. CASE j = Len(fifo) + 1
        BY <2>6, <3>1, <4>1, <4>3
      <4>4. QED
        BY <2>6, <4>2, <4>3
    <3>5. QED
      BY <3>2, <3>3, <3>4 DEF FifoInOrder
  <2>8. SentBefore'
    <3>1. ASSUME NEW k \in 1..Len(net) PROVE Precedes(net[k].pkts[1], new)
      BY <2>3, <2>4 DEF OrderInv, SentBefore, Precedes
    <3>2. \A k \in 1..Len(net') : \A i \in 1..Len(fifo') : Precedes(net'[k].pkts[1], fifo'[i])
      BY <1>1, <2>6, <3>1 DEF OrderInv, SentBefore
    <3>3. QED
      BY <1>1, <2>1, <3>2 DEF OrderInv, SentBefore
  <2>9. QED
    BY <1>2, <2>5, <2>7, <2>8 DEF OrderInv
<1>5. QED
  BY <1>3, <1>4 DEF ReceiveFrame

\* A frame that arrives is the youngest.
LEMMA ArrivesOrder ==
    ASSUME TypeInv, OrderInv, TapArrives
    PROVE  OrderInv'
<1>1. UNCHANGED <<fifo, net, accepted, lost>> /\ arrived' = arrived + 1
  BY DEF TapArrives, ioVars
<1>2. PICK len \in FrameLens : tap' = Append(tap, [id |-> arrived', len |-> len])
  BY DEF TapArrives
<1>3. /\ arrived \in Nat /\ tap \in Seq(Frame) /\ MaxFrames \in Nat /\ accepted \subseteq Frame
  BY EncapAssumption DEF EncapAssumption, TypeInv, TypeOK
<1>4. \A f \in Frame : f.id \in Nat
  BY <1>3 DEF Frame
<1>5. /\ Len(tap) \in Nat /\ Len(tap') = Len(tap) + 1 /\ tap'[Len(tap) + 1].id = arrived + 1
      /\ \A i \in 1..Len(tap) : tap'[i] = tap[i] /\ tap[i].id \in Nat
      /\ \A i \in 1..Len(tap') : i \in 1..Len(tap) \/ i = Len(tap) + 1
  BY <1>1, <1>2, <1>3, <1>4
<1>6. \A i \in 1..Len(tap) : tap[i].id < arrived + 1
  BY <1>3, <1>5 DEF OrderInv, FramesInOrder
<1>7. \A f \in accepted : f.id < arrived + 1 /\ f.id <= arrived + 1
  BY <1>3, <1>4 DEF OrderInv, FramesInOrder
<1>8. FramesInOrder'
  <2>1. ASSUME NEW i \in 1..Len(tap'), NEW j \in 1..Len(tap'), i < j
        PROVE  tap'[i].id < tap'[j].id
    <3>1. i \in 1..Len(tap)
      BY <1>5, <2>1
    <3>2. CASE j \in 1..Len(tap)
      BY <1>5, <2>1, <3>1, <3>2 DEF OrderInv, FramesInOrder
    <3>3. CASE j = Len(tap) + 1
      BY <1>5, <1>6, <3>1, <3>3
    <3>4. QED
      BY <1>5, <3>2, <3>3
  <2>2. \A i \in 1..Len(tap') : tap'[i].id <= arrived'
    BY <1>1, <1>3, <1>5, <1>6
  <2>3. \A f \in accepted : \A i \in 1..Len(tap') : f.id < tap'[i].id
    BY <1>5, <1>7 DEF OrderInv, FramesInOrder
  <2>4. QED
    BY <1>1, <1>7, <2>1, <2>2, <2>3 DEF OrderInv, FramesInOrder
<1>9. FifoInOrder /\ SentBefore /\ InOrder
  BY DEF OrderInv
<1>a. FifoInOrder'
  BY <1>1, <1>9 DEF FifoInOrder
<1>b. SentBefore'
  BY <1>1, <1>9 DEF SentBefore
<1>c. InOrder'
  BY <1>1, <1>9 DEF InOrder
<1>d. QED
  BY <1>8, <1>a, <1>b, <1>c DEF OrderInv

\* The packet a call of GetPacket takes.
LEMMA PacketTaken ==
    ASSUME TypeInv, GetPacket
    PROVE  \E pkt \in Packet :
             /\ pkt.id = fifo[1].id /\ pkt.from = fifo[1].sent /\ pkt.total = fifo[1].total
             /\ fifo' = Packed(fifo, pkt)
             /\ Send(pkt)
<1>1. PICK desired_len \in DesiredLens :
        /\ fifo' = Packed(fifo, NextPacket(Head(fifo), desired_len))
        /\ Send(NextPacket(Head(fifo), desired_len))
  BY DEF GetPacket
<1>2. fifo \in Seq(Pdu) /\ fifo # <<>> /\ Head(fifo) \in Pdu /\ Head(fifo) = fifo[1]
  BY DEF TypeInv, TypeOK, GetPacket, DrainOver
<1>3. desired_len \in Nat
  BY DesiredLensType DEF TypeInv
<1>4. QED
  BY <1>1, <1>2, <1>3, NextPacketType

LEMMA GetPacketOrder ==
    ASSUME TypeInv, OrderInv, GetPacket
    PROVE  OrderInv'
<1>1. PICK pkt \in Packet :
        /\ pkt.id = fifo[1].id /\ pkt.from = fifo[1].sent /\ pkt.total = fifo[1].total
        /\ fifo' = Packed(fifo, pkt)
        /\ Send(pkt)
  BY PacketTaken
<1>2. /\ fifo \in Seq(Pdu) /\ fifo # <<>> /\ net \in Seq(Datagram)
      /\ 1 \in 1..Len(fifo) /\ Len(fifo) \in Nat /\ Len(net) \in Nat
  BY DEF TypeInv, TypeOK, GetPacket, DrainOver
<1>3. tap' = tap /\ arrived' = arrived /\ accepted' = accepted
  BY DEF GetPacket
<1>4. FramesInOrder'
  BY <1>3 DEF OrderInv, FramesInOrder
<1> DEFINE d == Shift(pkt)
<1>5. /\ d \in {0, 1} /\ Len(fifo') = Len(fifo) - d
      /\ \A i \in 1..Len(fifo') :
           /\ i + d \in 1..Len(fifo)
           /\ fifo'[i].id = fifo[i + d].id
           /\ fifo'[i].total = fifo[i + d].total
           /\ fifo'[i].sent = IF i + d = 1 THEN pkt.to ELSE fifo[i + d].sent
  BY <1>1, <1>2, PackedElements
<1> HIDE DEF d
<1>6. FifoInOrder'
  <2>1. \A i, j \in 1..Len(fifo') : i < j => i + d < j + d
    BY <1>2, <1>5
  <2>2. \A i \in 1..Len(fifo') : i > 1 => i + d > 1
    BY <1>2, <1>5
  <2>3. \A i, j \in 1..Len(fifo') : i < j => fifo'[i].id < fifo'[j].id
    BY <1>5, <2>1 DEF OrderInv, FifoInOrder
  <2>4. \A i \in 1..Len(fifo') : i > 1 => fifo'[i].sent = 0
    BY <1>5, <2>2 DEF OrderInv, FifoInOrder
  <2>5. \A i \in 1..Len(fifo') : [id |-> fifo'[i].id, len |-> fifo'[i].total] \in accepted'
    BY <1>3, <1>5 DEF OrderInv, FifoInOrder
  <2>6. QED
    BY <2>3, <2>4, <2>5 DEF FifoInOrder
<1>7. pkt.from \in Nat /\ pkt.to \in Nat /\ pkt.from < pkt.to /\ pkt.id \in Nat
  BY DEF Packet
\* What precedes the head as it was, and the packet itself, precede what is left.
<1>8. ASSUME NEW p, p.id \in Nat, p.to \in Nat, \A i \in 1..Len(fifo) : Precedes(p, fifo[i])
      PROVE  \A i \in 1..Len(fifo') : Precedes(p, fifo'[i])
  <2>1. SUFFICES ASSUME NEW i \in 1..Len(fifo') PROVE Precedes(p, fifo'[i])
    OBVIOUS
  <2>2. Precedes(p, fifo[i + d])
    BY <1>5, <1>8
  <2>3. CASE i + d = 1
    BY <1>1, <1>5, <1>7, <1>8, <2>2, <2>3 DEF Precedes
  <2>4. CASE i + d # 1
    BY <1>5, <2>2, <2>4 DEF Precedes
  <2>5. QED
    BY <2>3, <2>4
<1>9. \A i \in 1..Len(fifo') : Precedes(pkt, fifo'[i])
  <2>1. SUFFICES ASSUME NEW i \in 1..Len(fifo') PROVE Precedes(pkt, fifo'[i])
    OBVIOUS
  <2>2. CASE i + d = 1
    BY <1>1, <1>5, <1>7, <2>2 DEF Precedes
  <2>3. CASE i + d # 1
    <3>1. i + d > 1
      BY <1>5, <1>2, <2>3
    <3>2. fifo[1].id < fifo[i + d].id
      BY <1>2, <1>5, <3>1 DEF OrderInv, FifoInOrder
    <3>3. QED
      BY <1>1, <1>5, <3>2 DEF Precedes
  <2>4. QED
    BY <2>2, <2>3
<1>10. [id |-> fifo[1].id, len |-> fifo[1].total] \in accepted
  BY <1>2 DEF OrderInv, FifoInOrder
<1>11. \E f \in accepted : f.id = pkt.id
  BY <1>1, <1>10
<1>12. \A k \in 1..Len(net) : net[k].pkts[1].id \in Nat /\ net[k].pkts[1].to \in Nat
  BY DEF OrderInv, SentBefore, Packet
<1>13. CASE net' = net /\ lost' = lost \union {pkt}
  BY <1>3, <1>4, <1>6, <1>8, <1>11, <1>12, <1>13 DEF OrderInv, SentBefore, InOrder
<1>14. CASE lost' = lost /\ net' = Append(net, [src |-> "remote", pkts |-> <<pkt>>, pad |-> Padding(pkt)])
  <2>1. /\ Len(net') = Len(net) + 1 /\ net'[Len(net) + 1].pkts[1] = pkt
        /\ \A k \in 1..Len(net) : net'[k] = net[k]
        /\ \A k \in 1..Len(net') : k \in 1..Len(net) \/ k = Len(net) + 1
    BY <1>2, <1>14
  <2>2. SentBefore'
    <3>1. \A k \in 1..Len(net') : \A i \in 1..Len(fifo') : Precedes(net'[k].pkts[1], fifo'[i])
      <4>1. \A k \in 1..Len(net) : \A i \in 1..Len(fifo') : Precedes(net[k].pkts[1], fifo'[i])
        BY <1>8, <1>12 DEF OrderInv, SentBefore
      <4>2. QED
        BY <1>9, <2>1, <4>1
    <3>2. \A k \in 1..Len(net') : /\ net'[k].pkts[1] \in Packet
                                  /\ \E f \in accepted' : f.id = net'[k].pkts[1].id
      BY <1>3, <1>11, <2>1 DEF OrderInv, SentBefore
    <3>3. \A p \in lost' : \E f \in accepted' : f.id = p.id
      BY <1>3, <1>14 DEF OrderInv, SentBefore
    <3>4. QED
      BY <3>1, <3>2, <3>3 DEF SentBefore
  <2>3. InOrder'
    <3>1. ASSUME NEW j \in DOMAIN net', NEW k \in DOMAIN net', j < k
          PROVE  \/ net'[j].pkts[1].id < net'[k].pkts[1].id
                 \/ /\ net'[j].pkts[1].id = net'[k].pkts[1].id
                    /\ net'[j].pkts[1].to <= net'[k].pkts[1].from
      <4>1. DOMAIN net = 1..Len(net) /\ DOMAIN net' = 1..Len(net')
        BY <1>2, <1>14
      <4>2. j \in 1..Len(net)
        BY <1>2, <2>1, <3>1, <4>1
      <4>3. CASE k \in 1..Len(net)
        BY <2>1, <3>1, <4>1, <4>2, <4>3 DEF OrderInv, InOrder
      <4>4. CASE k = Len(net) + 1
        <5>1. Precedes(net[j].pkts[1], fifo[1])
          BY <1>2, <4>2 DEF OrderInv, SentBefore
        <5>2. QED
          BY <1>1, <2>1, <4>2, <4>4, <5>1 DEF Precedes
      <4>5. QED
        BY <2>1, <4>1, <4>3, <4>4
    <3>2. QED
      BY <3>1 DEF InOrder
  <2>4. QED
    BY <1>4, <1>6, <2>2, <2>3 DEF OrderInv
<1>15. QED
  BY <1>1, <1>13, <1>14 DEF Send

LEMMA NextOrder == TypeInv /\ OrderInv /\ [Next]_vars => OrderInv'
BY ReceiveOrder, ArrivesOrder, GetPacketOrder, OtherSteps, UnchangedOrder

LEMMA OrderAlways == Spec => []OrderInv
<1>1. Init => OrderInv
  BY InitOrder
<1>2. TypeInv /\ OrderInv /\ [Next]_vars => OrderInv'
  BY NextOrder
<1>3. QED
  BY <1>1, <1>2, SafeAlways, PTL DEF Spec

\* The datagrams leave in the order of the frames, and the fragments of a
\* frame in the order of its bytes, for every FIFO capacity and every set of
\* failing calls: a PDU that stayed behind is sent before any later one.
THEOREM DatagramsInOrder == Spec => []InOrder
<1>1. OrderInv => InOrder
  BY DEF OrderInv
<1>2. QED
  BY <1>1, OrderAlways, PTL

-----------------------------------------------------------------------------
\* Every byte is in exactly one place

\* A packet is put where it was not.
LEMMA SendPlaces ==
    ASSUME TypeOK, NEW pkt, Send(pkt), NEW id, NEW b
    PROVE  /\ ~Carries(pkt, id, b) => OnNet(id, b)' = OnNet(id, b) /\ Lost(id, b)' = Lost(id, b)
           /\ Carries(pkt, id, b) /\ OnNet(id, b) = {} /\ Lost(id, b) = {} =>
                \/ OnNet(id, b)' = {Len(net) + 1} /\ Lost(id, b)' = {}
                \/ OnNet(id, b)' = {} /\ Lost(id, b)' = {pkt}
<1>1. CASE net' = net /\ lost' = lost \union {pkt}
  <2>1. OnNet(id, b)' = OnNet(id, b)
    BY <1>1 DEF OnNet
  <2>2. \A p : p \in Lost(id, b)' <=> p \in Lost(id, b) \/ (p = pkt /\ Carries(pkt, id, b))
    BY <1>1 DEF Lost
  <2>3. QED
    BY <2>1, <2>2
<1>2. CASE lost' = lost /\ net' = Append(net, [src |-> "remote", pkts |-> <<pkt>>, pad |-> Padding(pkt)])
  <2>1. /\ DOMAIN net = 1..Len(net) /\ Len(net) \in Nat /\ DOMAIN net' = 1..(Len(net) + 1)
        /\ net'[Len(net) + 1].pkts[1] = pkt
        /\ \A k \in 1..Len(net) : net'[k] = net[k]
    BY <1>2 DEF TypeOK
  <2>2. \A k : k \in 1..(Len(net) + 1) <=> k \in 1..Len(net) \/ k = Len(net) + 1
    BY <2>1
  <2>3. \A k : k \in OnNet(id, b)'
                 <=> k \in OnNet(id, b) \/ (k = Len(net) + 1 /\ Carries(pkt, id, b))
    BY <2>1, <2>2 DEF OnNet
  <2>4. Lost(id, b)' = Lost(id, b)
    BY <1>2 DEF Lost
  <2>5. QED
    BY <2>3, <2>4
<1>3. QED
  BY <1>1, <1>2 DEF Send

LEMMA ReceivePlaces ==
    ASSUME TypeInv, OrderInv, PlaceInv, ReceiveFrame
    PROVE  PlaceInv'
<1>1. tap # <<>> /\ TypeOK /\ net' = net /\ lost' = lost
  BY DEF TypeInv, FrameWaits, ReceiveFrame
<1>2. \A id, b : OnNet(id, b)' = OnNet(id, b) /\ Lost(id, b)' = Lost(id, b)
  BY <1>1 DEF OnNet, Lost
<1>3. CASE FrameDropped \/ FrameRefused
  <2>1. fifo' = fifo /\ accepted' = accepted
    BY <1>3 DEF FrameDropped, FrameRefused
  <2>2. \A id, b : Waiting(id, b)' = Waiting(id, b)
    BY <2>1 DEF Waiting
  <2>3. QED
    BY <1>2, <2>1, <2>2 DEF PlaceInv, OnePlace
<1>4. CASE FrameAccepted
  <2> DEFINE new == [id |-> PduRead.id, total |-> PduRead.len, sent |-> 0]
  <2>1. fifo' = Append(fifo, new) /\ accepted' = accepted \union {PduRead}
    BY <1>4 DEF FrameAccepted, Enqueued
  <2>2. PduRead.id = Head(tap).id /\ Head(tap) = tap[1] /\ 1 \in 1..Len(tap)
    BY <1>1 DEF PduRead, TypeOK
  <2>3. PduRead.id = new.id /\ new.sent = 0
    BY DEF PduRead
  <2> HIDE DEF new
  <2>4. \A f \in accepted : f.id # PduRead.id
    <3>1. \A f \in accepted : f.id < PduRead.id
      BY <2>2 DEF OrderInv, FramesInOrder
    <3>2. \A f \in accepted : f.id \in Nat
      BY <1>1, EncapAssumption DEF EncapAssumption, TypeOK, Frame
    <3>3. PduRead.id \in Nat
      <4>1. Head(tap) \in Frame
        BY <1>1 DEF TypeOK
      <4>2. QED
        BY <2>2, <4>1, EncapAssumption DEF EncapAssumption, Frame
    <3>4. QED
      BY <3>1, <3>2, <3>3
  <2>5. /\ DOMAIN fifo = 1..Len(fifo) /\ Len(fifo) \in Nat /\ DOMAIN fifo' = 1..(Len(fifo) + 1)
        /\ fifo'[Len(fifo) + 1] = new
        /\ \A i \in 1..Len(fifo) : fifo'[i] = fifo[i]
        /\ \A k : k \in 1..(Len(fifo) + 1) <=> k \in 1..Len(fifo) \/ k = Len(fifo) + 1
    BY <1>1, <2>1 DEF TypeOK
  <2>6. ASSUME NEW id, NEW b
        PROVE  \A k : k \in Waiting(id, b)'
                 <=> k \in Waiting(id, b) \/ (k = Len(fifo) + 1 /\ PduRead.id = id /\ 0 < b)
    BY <2>3, <2>5 DEF Waiting
  <2>7. ASSUME NEW f \in accepted, NEW b \in 1..f.len PROVE OnePlace(f.id, b)'
    <3>1. Waiting(f.id, b)' = Waiting(f.id, b)
      <4>1. \A k : k \in Waiting(f.id, b)' <=> k \in Waiting(f.id, b)
        BY <2>4, <2>6
      <4>2. QED
        BY <4>1 DEF Waiting
    <3>2. OnePlace(f.id, b)
      BY DEF PlaceInv
    <3>3. QED
      BY <1>2, <3>1, <3>2 DEF OnePlace
  <2>8. ASSUME NEW f, f = PduRead, NEW b \in 1..f.len PROVE OnePlace(f.id, b)'
    <3>1. OnNet(f.id, b) = {} /\ Lost(f.id, b) = {}
      BY <1>1, <2>4, <2>8 DEF OrderInv, SentBefore, OnNet, Lost, Carries, TypeOK
    <3>2. Waiting(f.id, b) = {}
      <4>1. \A k \in 1..Len(fifo) : \E g \in accepted : g.id = fifo[k].id
        BY DEF OrderInv, FifoInOrder
      <4>2. QED
        BY <2>4, <2>5, <2>8, <4>1 DEF Waiting
    <3>3. Waiting(f.id, b)' = {Len(fifo) + 1}
      <4>1. 0 < b
        OBVIOUS
      <4>2. \A k : k \in Waiting(f.id, b)' <=> k = Len(fifo) + 1
        BY <2>6, <2>8, <3>2, <4>1
      <4>3. QED
        BY <4>2
    <3>4. QED
      BY <1>2, <3>1, <3>3 DEF OnePlace
  <2>9. QED
    BY <2>1, <2>7, <2>8 DEF PlaceInv
<1>5. QED
  BY <1>3, <1>4 DEF ReceiveFrame

LEMMA GetPacketPlaces ==
    ASSUME TypeInv, OrderInv, PlaceInv, GetPacket
    PROVE  PlaceInv'
<1>1. PICK pkt \in Packet :
        /\ pkt.id = fifo[1].id /\ pkt.from = fifo[1].sent /\ pkt.total = fifo[1].total
        /\ fifo' = Packed(fifo, pkt)
        /\ Send(pkt)
  BY PacketTaken
<1>2. /\ fifo \in Seq(Pdu) /\ fifo # <<>> /\ TypeOK
      /\ 1 \in 1..Len(fifo) /\ Len(fifo) \in Nat
      /\ DOMAIN fifo = 1..Len(fifo)
  BY DEF TypeInv, TypeOK, GetPacket, DrainOver
<1> DEFINE d == Shift(pkt)
<1>3. /\ d \in {0, 1} /\ Len(fifo') = Len(fifo) - d
      /\ \A i \in 1..Len(fifo') :
           /\ i + d \in 1..Len(fifo)
           /\ fifo'[i].id = fifo[i + d].id
           /\ fifo'[i].sent = IF i + d = 1 THEN pkt.to ELSE fifo[i + d].sent
      /\ d = IF pkt.to = pkt.total THEN 1 ELSE 0
  BY <1>1, <1>2, PackedElements DEF Shift, IsEnd
<1>4. DOMAIN fifo' = 1..Len(fifo')
  <2>1. Packed(fifo, pkt) \in Seq(Pdu)
    <3>1. pkt.total = Head(fifo).total
      BY <1>1, <1>2
    <3>2. QED
      BY <1>2, <3>1, PackedType
  <2>2. QED
    BY <1>1, <2>1
<1> HIDE DEF d
<1>5. pkt.from \in Nat /\ pkt.to \in Nat /\ pkt.from < pkt.to /\ pkt.total \in Nat
  BY DEF Packet
\* The head is the only PDU of its frame in the FIFO.
<1>6. \A i \in 1..Len(fifo) : fifo[i].id = pkt.id => i = 1
  <2>1. SUFFICES ASSUME NEW i \in 1..Len(fifo), fifo[i].id = pkt.id, i # 1 PROVE FALSE
    OBVIOUS
  <2>2. fifo[1].id < fifo[i].id
    BY <1>2, <2>1 DEF OrderInv, FifoInOrder
  <2>3. fifo[1] \in Pdu
    BY <1>2
  <2>4. fifo[1].id \in Nat
    BY <2>3 DEF Pdu
  <2>5. QED
    BY <1>1, <2>1, <2>2, <2>4
<1>7. SUFFICES ASSUME NEW f \in accepted, NEW b \in 1..f.len PROVE OnePlace(f.id, b)'
  BY DEF PlaceInv, GetPacket
<1>8. OnePlace(f.id, b) /\ f.len \in Nat /\ b \in Nat
  BY <1>2 DEF PlaceInv, TypeOK, Frame
<1>a. d \in {0, 1} /\ Len(fifo') = Len(fifo) - d /\ Len(fifo) \in Nat /\ Len(fifo) >= 1
  <2>1. d \in {0, 1} /\ Len(fifo') = Len(fifo) - d
    BY <1>3
  <2>2. Len(fifo) \in Nat /\ Len(fifo) >= 1
    BY <1>2
  <2>3. QED
    BY <2>1, <2>2
<1>9. CASE f.id # pkt.id
  <2>1. OnNet(f.id, b)' = OnNet(f.id, b) /\ Lost(f.id, b)' = Lost(f.id, b)
    BY <1>1, <1>2, <1>9, SendPlaces DEF Carries
  <2>2. \A k \in 1..Len(fifo') : k \in Waiting(f.id, b)' <=> k + d \in Waiting(f.id, b)
    <3>1. TAKE k \in 1..Len(fifo')
    <3>2. k \in DOMAIN fifo' /\ k + d \in DOMAIN fifo
      BY <1>2, <1>3, <1>4
    <3>3. fifo'[k].id = fifo[k + d].id
      BY <1>3
    <3>4. k + d # 1 => fifo'[k].sent = fifo[k + d].sent
      BY <1>3
    <3>5. k + d = 1 => fifo[k + d].id # f.id
      BY <1>1, <1>9
    <3>6. QED
      BY <3>2, <3>3, <3>4, <3>5 DEF Waiting
  <2>3. \A k \in Waiting(f.id, b) : k - d \in 1..Len(fifo') /\ (k - d) + d = k
    <3>1. SUFFICES ASSUME NEW k \in Waiting(f.id, b)
                   PROVE  k - d \in 1..Len(fifo') /\ (k - d) + d = k
      OBVIOUS
    <3>2. k \in 1..Len(fifo) /\ k # 1
      BY <1>1, <1>2, <1>9 DEF Waiting
    <3>3. CASE d = 0
      BY <1>a, <3>2, <3>3
    <3>4. CASE d = 1
      BY <1>a, <3>2, <3>4
    <3>5. QED
      BY <1>a, <3>3, <3>4
  <2>4. \A k \in Waiting(f.id, b)' : k \in 1..Len(fifo')
    BY <1>4 DEF Waiting
  <2>5. \A k \in 1..Len(fifo') : (k + d) - d = k
    BY <1>3
  <2>6. Waiting(f.id, b) = {} => Waiting(f.id, b)' = {}
    BY <2>2, <2>4
  <2>7. ASSUME NEW k, Waiting(f.id, b) = {k} PROVE Waiting(f.id, b)' = {k - d}
    <3>1. k - d \in 1..Len(fifo') /\ (k - d) + d = k
      BY <2>3, <2>7
    <3>2. k - d \in Waiting(f.id, b)'
      BY <2>2, <2>7, <3>1
    <3>3. \A j \in Waiting(f.id, b)' : j \in 1..Len(fifo') /\ j + d = k
      BY <2>2, <2>4, <2>7
    <3>4. \A j \in Waiting(f.id, b)' : j = k - d
      BY <2>5, <3>3
    <3>5. QED
      BY <3>2, <3>4
  <2>8. QED
    BY <1>8, <2>1, <2>6, <2>7 DEF OnePlace
<1>10. CASE f.id = pkt.id
  <2>1. f.len = pkt.total
    <3>1. [id |-> fifo[1].id, len |-> fifo[1].total] \in accepted
      BY <1>2 DEF OrderInv, FifoInOrder
    <3>2. [id |-> fifo[1].id, len |-> fifo[1].total] = f
      BY <1>1, <1>10, <3>1 DEF OrderInv, FramesInOrder
    <3>3. QED
      BY <1>1, <3>2
  <2>2. \A k : k \in Waiting(f.id, b) <=> k = 1 /\ pkt.from < b
    BY <1>1, <1>2, <1>6, <1>10 DEF Waiting
  <2>3. \A k : k \in Waiting(f.id, b)' <=> k = 1 /\ d = 0 /\ pkt.to < b
    <3>1. \A k \in 1..Len(fifo') : fifo'[k].id = pkt.id <=> k + d = 1
      BY <1>1, <1>3, <1>6
    <3>2. \A k \in 1..Len(fifo') : k + d = 1 <=> k = 1 /\ d = 0
      BY <1>3
    <3>3. d = 0 => 1 \in 1..Len(fifo')
      BY <1>a
    <3>4. QED
      BY <1>3, <1>4, <1>10, <3>1, <3>2, <3>3 DEF Waiting
  <2>4. CASE b <= pkt.from
    <3>1. Waiting(f.id, b) = {} /\ Waiting(f.id, b)' = {} /\ ~Carries(pkt, f.id, b)
      BY <1>5, <1>8, <2>2, <2>3, <2>4 DEF Carries
    <3>2. OnNet(f.id, b)' = OnNet(f.id, b) /\ Lost(f.id, b)' = Lost(f.id, b)
      BY <1>1, <1>2, <3>1, SendPlaces
    <3>3. QED
      BY <1>8, <3>1, <3>2 DEF OnePlace
  <2>5. CASE pkt.from < b /\ b <= pkt.to
    <3>1. Waiting(f.id, b) = {1} /\ Waiting(f.id, b)' = {} /\ Carries(pkt, f.id, b)
      BY <1>5, <1>8, <1>10, <2>2, <2>3, <2>5 DEF Carries
    <3>2. OnNet(f.id, b) = {} /\ Lost(f.id, b) = {}
      BY <1>8, <3>1 DEF OnePlace
    <3>3. \/ OnNet(f.id, b)' = {Len(net) + 1} /\ Lost(f.id, b)' = {}
          \/ OnNet(f.id, b)' = {} /\ Lost(f.id, b)' = {pkt}
      BY <1>1, <1>2, <3>1, <3>2, SendPlaces
    <3>4. ASSUME NEW N, NEW L, NEW n, NEW W, W = {}, (N = {n} /\ L = {}) \/ (N = {} /\ L = {pkt})
          PROVE  (\E k : N = {k} /\ L = {} /\ W = {}) \/ (\E p : N = {} /\ L = {p} /\ W = {})
      BY <3>4
    <3>5. QED
      BY <3>1, <3>3, <3>4 DEF OnePlace
  <2>6. CASE pkt.to < b
    <3>1. d = 0
      BY <1>3, <1>5, <1>8, <2>1, <2>6
    <3>2. Waiting(f.id, b) = {1} /\ Waiting(f.id, b)' = {1} /\ ~Carries(pkt, f.id, b)
      BY <1>5, <1>8, <2>2, <2>3, <2>6, <3>1 DEF Carries
    <3>3. OnNet(f.id, b)' = OnNet(f.id, b) /\ Lost(f.id, b)' = Lost(f.id, b)
      BY <1>1, <1>2, <3>2, SendPlaces
    <3>4. QED
      BY <1>8, <3>2, <3>3 DEF OnePlace
  <2>7. QED
    BY <1>5, <1>8, <2>4, <2>5, <2>6
<1>11. QED
  BY <1>9, <1>10

LEMMA UnchangedPlaces ==
    ASSUME PlaceInv, UNCHANGED <<fifo, net, accepted, lost>>
    PROVE  PlaceInv'
<1>1. \A id, b : /\ OnNet(id, b)' = OnNet(id, b) /\ Lost(id, b)' = Lost(id, b)
                 /\ Waiting(id, b)' = Waiting(id, b)
  BY DEF OnNet, Lost, Waiting
<1>2. QED
  BY <1>1 DEF PlaceInv, OnePlace

LEMMA PlacesAlways == Spec => []PlaceInv
<1>1. Init => PlaceInv
  BY InitOrder
<1>2. TypeInv /\ OrderInv /\ PlaceInv /\ [Next]_vars => PlaceInv'
  <2> SUFFICES ASSUME TypeInv, OrderInv, PlaceInv, [Next]_vars PROVE PlaceInv'
    OBVIOUS
  <2>1. CASE ReceiveFrame
    BY <2>1, ReceivePlaces
  <2>2. CASE GetPacket
    BY <2>2, GetPacketPlaces
  <2>3. CASE TapArrives
    BY <2>3, UnchangedPlaces DEF TapArrives, ioVars
  <2>4. CASE ~ReceiveFrame /\ ~GetPacket /\ ~TapArrives
    BY <2>4, OtherSteps, UnchangedPlaces DEF orderVars
  <2>5. QED
    BY <2>1, <2>2, <2>3, <2>4
<1>3. QED
  BY <1>1, <1>2, SafeAlways, OrderAlways, PTL DEF Spec

\* Every byte of every accepted frame was sent once, was lost with one failed
\* sendto(), or still waits in the FIFO, for every frame length, both packing
\* modes, and whatever fails in between.
THEOREM EveryByteAccounted == Spec => []Accounted
<1>1. PlaceInv => Accounted
  <2> SUFFICES ASSUME PlaceInv, NEW f \in accepted, NEW b \in 1..f.len
               PROVE  PlacesOf(f.id, b) = 1
    BY DEF Accounted
  <2>1. OnePlace(f.id, b)
    BY DEF PlaceInv
  <2>2. PlacesOf(f.id, b) = Cardinality(OnNet(f.id, b)) + Cardinality(Lost(f.id, b))
                            + Cardinality(Waiting(f.id, b))
    BY DEF PlacesOf, OnNet, Lost, Waiting
  <2>3. Cardinality({}) = 0 /\ \A x : Cardinality({x}) = 1
    BY FS_EmptySet, FS_Singleton
  <2>4. \/ Cardinality(OnNet(f.id, b)) = 1 /\ Cardinality(Lost(f.id, b)) = 0
           /\ Cardinality(Waiting(f.id, b)) = 0
        \/ Cardinality(OnNet(f.id, b)) = 0 /\ Cardinality(Lost(f.id, b)) = 1
           /\ Cardinality(Waiting(f.id, b)) = 0
        \/ Cardinality(OnNet(f.id, b)) = 0 /\ Cardinality(Lost(f.id, b)) = 0
           /\ Cardinality(Waiting(f.id, b)) = 1
    BY <2>1, <2>3, Zenon DEF OnePlace
  <2>5. QED
    BY <2>2, <2>4
<1>2. QED
  BY <1>1, PlacesAlways, PTL

-----------------------------------------------------------------------------
\* What the tunnel sees of the process

\* A restart loses what the process held, and keeps the order of the rest.
LEMMA RestartKeeps ==
    ASSUME TypeInv, OrderInv, Restart
    PROVE  TypeInv' /\ OrderInv'
<1>1. /\ pc' = "check_params" /\ tap' = <<>> /\ fifo' = <<>>
      /\ UNCHANGED <<arrived, net, accepted, lost>>
  BY DEF Restart
<1>2. TypeInv'
  BY <1>1, EncapAssumption
     DEF EncapAssumption, Restart, StopRestart, TypeInv, TypeOK, StopTypeOK, ParamsChecked,
         FrameWaits, Labels, NotReturned
<1>3. FramesInOrder' /\ FifoInOrder' /\ SentBefore' /\ InOrder'
  BY <1>1 DEF OrderInv, FramesInOrder, FifoInOrder, SentBefore, InOrder
<1>4. QED
  BY <1>2, <1>3 DEF OrderInv

\* A step accepts one frame, younger than the others, or sends one packet of an
\* accepted frame, or does neither.
LEMMA StepShape ==
    ASSUME TypeInv, OrderInv, Step
    PROVE  \/ net' = net /\ accepted' = accepted
           \/ /\ net' = net
              /\ \E f \in Frame : /\ f.len <= BufferLen
                                  /\ accepted' = accepted \union {f}
                                  /\ \A g \in accepted : g.id < f.id
           \/ /\ accepted' = accepted
              /\ \E dg \in Datagram :
                   /\ net' = Append(net, dg)
                   /\ dg.src = "remote" /\ Len(dg.pkts) = 1 /\ dg.pkts[1] \in Packet
                   /\ [id |-> dg.pkts[1].id, len |-> dg.pkts[1].total] \in accepted
<1>1. CASE ReceiveFrame
  <2>1. tap # <<>> /\ net' = net /\ BufferLen \in Nat
    BY <1>1, EncapAssumption DEF EncapAssumption, TypeInv, FrameWaits, ReceiveFrame
  <2>2. CASE FrameDropped \/ FrameRefused
    BY <2>1, <2>2 DEF FrameDropped, FrameRefused
  <2>3. CASE FrameAccepted
    <3>1. Head(tap) \in Frame /\ Head(tap) = tap[1] /\ 1 \in 1..Len(tap)
      BY <2>1 DEF TypeInv, TypeOK
    <3>2. PduRead \in Frame /\ PduRead.len <= BufferLen /\ PduRead.id = tap[1].id
      BY <2>1, <2>3, <3>1 DEF PduRead, Frame, FrameAccepted, Least
    <3>3. \A g \in accepted : g.id < PduRead.id
      BY <3>1, <3>2 DEF OrderInv, FramesInOrder
    <3>4. accepted' = accepted \union {PduRead}
      BY <2>3 DEF FrameAccepted
    <3>5. QED
      BY <2>1, <3>2, <3>3, <3>4
  <2>4. QED
    BY <1>1, <2>2, <2>3 DEF ReceiveFrame
<1>2. CASE GetPacket
  <2>1. accepted' = accepted /\ fifo \in Seq(Pdu) /\ fifo # <<>>
    BY <1>2 DEF GetPacket, DrainOver, TypeInv, TypeOK
  <2>2. PICK pkt \in Packet :
          pkt.id = fifo[1].id /\ pkt.total = fifo[1].total /\ Send(pkt)
    BY <1>2, PacketTaken
  <2>3. [id |-> pkt.id, len |-> pkt.total] \in accepted
    <3>1. 1 \in 1..Len(fifo)
      BY <2>1
    <3>2. QED
      BY <2>2, <3>1 DEF OrderInv, FifoInOrder
  <2>4. CASE net' = net
    BY <2>1, <2>4
  <2>5. CASE net' # net
    <3> DEFINE dg == [src |-> "remote", pkts |-> <<pkt>>, pad |-> Padding(pkt)]
    <3>1. net' = Append(net, dg)
      BY <2>2, <2>5 DEF Send
    <3>2. TypeInv' /\ net \in Seq(Datagram)
      BY <1>2, GetPacketType DEF TypeInv, TypeOK
    <3>3. net' \in Seq(Datagram)
      BY <3>2 DEF TypeInv, TypeOK
    <3>4. dg \in Datagram
      <4>1. Len(net) + 1 \in 1..Len(net') /\ net'[Len(net) + 1] = dg
        BY <3>1, <3>2
      <4>2. QED
        BY <3>3, <4>1
    <3>5. dg.src = "remote" /\ Len(dg.pkts) = 1 /\ dg.pkts[1] = pkt
      OBVIOUS
    <3> HIDE DEF dg
    <3>6. QED
      BY <2>1, <2>2, <2>3, <3>1, <3>4, <3>5
  <2>6. QED
    BY <2>4, <2>5
<1>3. CASE ~ReceiveFrame /\ ~GetPacket
  <2>1. net' = net /\ accepted' = accepted
    BY <1>3 DEF Step, CheckParams, CreateRecv, CreateSend, InstallHandlers, Arm, EncapInit,
       LoopTest, EnterSelect, SelectReturns, LoopFailed, GetPacketFails, DrainEnds, Clean, ioVars
  <2>2. QED
    BY <2>1
<1>4. QED
  BY <1>1, <1>2, <1>3
=============================================================================
