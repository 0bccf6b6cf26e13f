------------------------- MODULE ProcessDecapProofs -------------------------
(***************************************************************************)
(* Safety of process_decap() for every number of datagrams, every list of  *)
(* packets and padding they carry, every payload length, and every set of  *)
(* failing calls.                                                          *)
(***************************************************************************)
EXTENDS ProcessDecap, GseProofs, FiniteSetTheorems

\* What libgse answers is a status and a context.
LEMMA DeencapType ==
    ASSUME NEW c \in Context, NEW pkt \in Packet
    PROVE  Deencap(c, pkt).ctx \in Context
<1>1. NoContext \in Context
  BY DEF NoContext, Context
<1>2. [id |-> pkt.id, total |-> pkt.total, got |-> pkt.to, whole |-> TRUE] \in Context
  BY DEF Packet, Context
<1>3. Joined(c, pkt) \in Context
  <2>1. Continues(c, pkt) \in BOOLEAN
    BY DEF Continues
  <2>2. c.got + pkt.to - pkt.from \in Nat
    BY DEF Packet, Context
  <2>3. ASSUME NEW g \in Nat, NEW b \in BOOLEAN
        PROVE  [c EXCEPT !.got = g, !.whole = b] \in Context
    BY DEF Context
  <2>4. QED
    BY <2>1, <2>2, <2>3 DEF Joined
<1>4. QED
  BY <1>1, <1>2, <1>3 DEF Deencap

LEMMA DatagramLenType ==
    ASSUME NEW dg \in Datagram
    PROVE  DatagramLen(dg) \in Nat
<1>1. dg.pkts \in Seq(Packet) /\ dg.pad \in Nat
  BY DEF Datagram
<1>2. Len(dg.pkts) + 1 \in 1..(Len(dg.pkts) + 1)
  BY <1>1
<1>3. StartOf(dg.pkts, Len(dg.pkts) + 1) \in Nat
  BY <1>1, <1>2, StartOfType
<1>4. QED
  BY <1>1, <1>3 DEF DatagramLen

LEMMA NoDatagramType == NoDatagram \in Datagram /\ Len(NoDatagram.pkts) = 0
<1>1. <<>> \in Seq(Packet)
  OBVIOUS
<1>2. QED
  BY <1>1 DEF NoDatagram, Datagram

-----------------------------------------------------------------------------
\* The walk through a datagram

pkts == datagram.pkts

\* The packets handed over so far are those in front of the position.
OnTrack ==
    /\ len_decapsulated = StartOf(pkts, seen + 1)
    /\ len_decapsulated <= len_received

\* What is left, if anything, is no packet that was received whole.
AllSeen == seen = Cardinality(WholePackets)
Finished == AllSeen /\ Left < GSE_MAX_HEADER_LENGTH

\* Where the walk may be.  The position of a failed virtual fragment is never
\* looked at again: `alive` is no longer 0.
Walk ==
    /\ pc = "decap" => OnTrack \/ Finished
    /\ pc = "inner" => OnTrack \/ Finished \/ alive # 0
    /\ pc \notin Looping \union {"failed", "clean", "exited", "killed"} =>
         datagram = NoDatagram /\ seen = 0

\* FD_ISSET holds only while a datagram waits.
DatagramWaits == pc = "read" => sock # <<>>

TypeInv == TypeOK /\ DatagramWaits

WalkInv == Walk /\ EveryPacketParsed

\* When the first n packets are whole and the next one is not, all of the
\* whole ones were seen.
LEMMA WholeOnes ==
    ASSUME TypeOK, NEW n \in 0..Len(pkts),
           StartOf(pkts, n + 1) <= len_received,
           n < Len(pkts) => len_received < StartOf(pkts, n + 2)
    PROVE  Cardinality(WholePackets) = n
<1>1. pkts \in Seq(Packet) /\ len_received \in Nat /\ GSE_MAX_HEADER_LENGTH \in Nat
  BY DecapAssumption, GseAssumption DEF DecapAssumption, GseAssumption, TypeOK, pkts, Datagram
<1>2. \A k \in 1..(Len(pkts) + 1) : StartOf(pkts, k) \in Nat
  BY <1>1, StartOfType
<1>3. ASSUME NEW k \in 1..n PROVE StartOf(pkts, k + 1) <= len_received
  <2>1. CASE k = n
    BY <2>1
  <2>2. CASE k < n
    <3>1. k + 1 \in 1..(Len(pkts) + 1) /\ n + 1 \in 1..(Len(pkts) + 1) /\ k + 1 < n + 1
      BY <1>1, <2>2
    <3>2. StartOf(pkts, k + 1) + GSE_MAX_HEADER_LENGTH < StartOf(pkts, n + 1)
      BY <1>1, <3>1, StartOfGrows
    <3>3. QED
      BY <1>1, <1>2, <3>1, <3>2
  <2>3. QED
    BY <2>1, <2>2
<1>4. ASSUME NEW k \in 1..Len(pkts), n < k PROVE len_received < StartOf(pkts, k + 1)
  <2>1. CASE k = n + 1
    <3>1. k + 1 = n + 2 /\ n < Len(pkts)
      BY <1>1, <2>1
    <3>2. QED
      BY <3>1
  <2>2. CASE k > n + 1
    <3>1. n + 2 \in 1..(Len(pkts) + 1) /\ k + 1 \in 1..(Len(pkts) + 1) /\ n + 2 < k + 1
          /\ n < Len(pkts)
      BY <1>1, <1>4, <2>2
    <3>2. StartOf(pkts, n + 2) + GSE_MAX_HEADER_LENGTH < StartOf(pkts, k + 1)
      BY <1>1, <3>1, StartOfGrows
    <3>3. StartOf(pkts, n + 2) \in Nat /\ StartOf(pkts, k + 1) \in Nat
          /\ len_received < StartOf(pkts, n + 2)
      BY <1>1, <1>2, <3>1
    <3>4. QED
      BY <1>1, <3>2, <3>3
  <2>3. QED
    BY <1>1, <1>4, <2>1, <2>2
<1>5. WholePackets = 1..n
  <2>1. \A k \in 1..Len(pkts) : StartOf(pkts, k + 1) <= len_received <=> k <= n
    <3>1. SUFFICES ASSUME NEW k \in 1..Len(pkts)
                   PROVE  StartOf(pkts, k + 1) <= len_received <=> k <= n
      OBVIOUS
    <3>2. StartOf(pkts, k + 1) \in Nat
      BY <1>1, <1>2
    <3>3. CASE k <= n
      BY <1>3, <3>3
    <3>4. CASE n < k
      BY <1>1, <1>4, <3>2, <3>4
    <3>5. QED
      BY <1>1, <3>3, <3>4
  <2>2. WholePackets = {k \in 1..Len(pkts) : StartOf(pkts, k + 1) <= len_received}
    BY DEF WholePackets, pkts
  <2>3. QED
    BY <1>1, <2>1, <2>2
<1>6. QED
  BY <1>1, <1>5, FS_Interval

\* A header in front of enough bytes is that of the next packet, or the
\* padding behind the last one.
LEMMA HeaderIsNext ==
    ASSUME TypeOK, Walk, pc = "decap", NEW k \in 1..(Len(pkts) + 1), HeaderAt(k)
    PROVE  OnTrack /\ k = seen + 1
<1>1. pkts \in Seq(Packet) /\ seen \in 0..Len(pkts) /\ GSE_MAX_HEADER_LENGTH \in Nat
      /\ len_received \in Nat /\ len_decapsulated \in Nat
  BY DecapAssumption, GseAssumption DEF DecapAssumption, GseAssumption, TypeOK, pkts, Datagram
<1>2. OnTrack
  BY <1>1 DEF Walk, Finished, HeaderAt, Left
<1>3. StartOf(pkts, k) = StartOf(pkts, seen + 1)
  BY <1>2 DEF OnTrack, HeaderAt, pkts
<1>4. \A j \in 1..(Len(pkts) + 1) : StartOf(pkts, j) \in Nat
  BY <1>1, StartOfType
<1>5. ASSUME NEW i \in 1..(Len(pkts) + 1), NEW j \in 1..(Len(pkts) + 1), i < j
      PROVE  StartOf(pkts, i) # StartOf(pkts, j)
  <2>1. StartOf(pkts, i) + GSE_MAX_HEADER_LENGTH < StartOf(pkts, j)
    BY <1>1, <1>5, StartOfGrows
  <2>2. QED
    BY <1>1, <1>4, <2>1
<1>6. seen + 1 \in 1..(Len(pkts) + 1)
  BY <1>1
<1>7. QED
  BY <1>1, <1>2, <1>3, <1>5, <1>6

-----------------------------------------------------------------------------
\* Type correctness

LEMMA InitType == Init => TypeInv /\ Walk /\ EveryPacketParsed
<1> SUFFICES ASSUME Init PROVE TypeInv /\ Walk /\ EveryPacketParsed
  OBVIOUS
<1>1. NoContext \in Context
  BY DEF NoContext, Context
<1>2. TypeInv
  BY <1>1, NoDatagramType, MaxSignalsAssumption, DecapAssumption
     DEF MaxSignalsAssumption, DecapAssumption, Init, StopInit, TypeInv, TypeOK, StopTypeOK,
         DatagramWaits, Labels, Looping, NotReturned
<1>3. QED
  BY <1>2 DEF Init, Walk, EveryPacketParsed, Looping, Inner

LEMMA ControlType ==
    ASSUME TypeInv,
           \/ CheckParams \/ CreateCtxt \/ InstallHandlers \/ Arm \/ DeencapInit
           \/ LoopTest \/ EnterSelect \/ SelectReturns \/ LoopFailed \/ InnerTest \/ Clean
    PROVE  TypeInv'
<1> USE DEF TypeInv, TypeOK, StopTypeOK, DatagramWaits, Labels, Looping, Inner,
            Goto, Return, NotReturned, walkVars
<1>1. CASE CheckParams
  BY <1>1 DEF CheckParams, stopVars
<1>2. CASE CreateCtxt
  BY <1>2 DEF CreateCtxt, OpenUdpFailures, stopVars
<1>3. CASE InstallHandlers
  BY <1>3 DEF InstallHandlers, Install, Sigs
<1>4. CASE Arm
  BY <1>4 DEF Arm, SetAlive
<1>5. CASE DeencapInit
  BY <1>5 DEF DeencapInit, stopVars
<1>6. CASE LoopTest
  BY <1>6 DEF LoopTest, stopVars
<1>7. CASE EnterSelect
  BY <1>7 DEF EnterSelect, stopVars
<1>8. CASE SelectReturns
  BY <1>8 DEF SelectReturns, Unblock
<1>9. CASE LoopFailed
  BY <1>9 DEF LoopFailed, SetAlive
<1>10. CASE InnerTest
  BY <1>10 DEF InnerTest, stopVars
<1>11. CASE Clean
  BY <1>11 DEF Clean, OpenAfterClean, stopVars
<1>12. QED
  BY <1>1, <1>2, <1>3, <1>4, <1>5, <1>6, <1>7, <1>8, <1>9, <1>10, <1>11

\* recvfrom() returns no more than payload_len bytes.
LEMMA ReadType ==
    ASSUME TypeInv, ReadDatagram
    PROVE  TypeInv'
<1>1. Head(sock) \in Datagram /\ Tail(sock) \in Seq(Datagram)
  BY DEF TypeInv, TypeOK, DatagramWaits, ReadDatagram
<1>2. DatagramLen(Head(sock)) \in Nat
  BY <1>1, DatagramLenType
<1>3. LenReceived(Head(sock)) \in 0..PayloadLen
  BY <1>2, DecapAssumption DEF DecapAssumption, LenReceived, Least
<1>4. Len(Head(sock).pkts) \in Nat
  BY <1>1 DEF Datagram
<1>5. PayloadLen \in Nat
  BY DecapAssumption DEF DecapAssumption
<1>6. /\ datagram' \in Datagram /\ sock' \in Seq(Datagram)
      /\ len_received' \in 0..PayloadLen /\ len_decapsulated' \in Nat
      /\ seen' \in 0..Len(datagram'.pkts)
  <2>1. CASE UNCHANGED <<sock, walkVars>>
    BY <2>1 DEF TypeInv, TypeOK, walkVars
  <2>2. CASE sock' = Tail(sock) /\ seen' = 0 /\ datagram' = NoDatagram
             /\ len_received' = 0 /\ len_decapsulated' = len_decapsulated
    BY <1>1, <1>5, <2>2, NoDatagramType DEF TypeInv, TypeOK
  <2>3. CASE sock' = Tail(sock) /\ seen' = 0 /\ datagram' = Head(sock)
             /\ len_received' = LenReceived(Head(sock)) /\ len_decapsulated' = 0
    BY <1>1, <1>3, <1>4, <2>3
  <2>4. QED
    BY <2>1, <2>2, <2>3 DEF ReadDatagram
<1>7. pc' \in Labels /\ pc' # "read" /\ UNCHANGED <<stopVars, fds, arrived, status>>
      /\ UNCHANGED <<gse_length, ctx, tap, late>>
  BY DEF ReadDatagram, Goto, Labels, Looping, Inner, walkVars
<1>8. QED
  BY <1>6, <1>7 DEF TypeInv, TypeOK, StopTypeOK, DatagramWaits, stopVars

\* A packet leaves a context, and a PDU of at least one byte.
LEMMA WholePacketType ==
    ASSUME TypeInv, Walk, pc = "decap", NEW k \in 1..Len(pkts), WholePacket(k)
    PROVE  /\ seen' \in 0..Len(pkts) /\ ctx' \in Context /\ tap' \in Seq(PduOut)
           /\ gse_length' \in Nat /\ len_decapsulated' \in Nat /\ late' \in Nat
           /\ pc' = "inner"
<1> DEFINE pkt == datagram.pkts[k]
<1>1. pkts \in Seq(Packet) /\ pkt \in Packet /\ k \in 1..(Len(pkts) + 1)
  BY DEF TypeInv, TypeOK, pkts, Datagram
<1>2. k = seen + 1
  BY <1>1, HeaderIsNext DEF TypeInv, WholePacket
<1>3. seen' \in 0..Len(pkts)
  BY <1>1, <1>2 DEF TypeInv, TypeOK, WholePacket
<1>4. Deencap(ctx, pkt).ctx \in Context
  BY <1>1, DeencapType DEF TypeInv, TypeOK
<1>5. ctx' \in Context
  BY <1>4 DEF WholePacket
<1>6. ASSUME NEW p \in Packet PROVE [id |-> p.id, len |-> p.total] \in PduOut
  <2>1. p.id \in Nat \ {0} /\ p.total \in Nat \ {0}
    BY DEF Packet
  <2>2. QED
    BY <2>1 DEF PduOut
<1>7. tap' = tap \/ tap' = Append(tap, [id |-> pkt.id, len |-> pkt.total])
  BY DEF WholePacket, WriteTap
<1>8. tap' \in Seq(PduOut)
  <2>1. ASSUME NEW out \in PduOut PROVE Append(tap, out) \in Seq(PduOut)
    BY DEF TypeInv, TypeOK
  <2>2. tap \in Seq(PduOut)
    BY DEF TypeInv, TypeOK
  <2>3. QED
    BY <1>1, <1>6, <1>7, <2>1, <2>2
<1>9. PacketLen(pkt) \in Nat
  BY <1>1, PacketLenType
<1>10. gse_length' \in Nat /\ len_decapsulated' \in Nat
  BY <1>9 DEF WholePacket, Advance, TypeInv, TypeOK
<1>11. late' \in Nat /\ pc' = "inner"
  BY DEF WholePacket, Goto, AfterPacket, TypeInv, TypeOK
<1>12. QED
  BY <1>3, <1>5, <1>8, <1>10, <1>11

LEMMA DecapType ==
    ASSUME TypeInv, Walk, DecapPacket
    PROVE  TypeInv'
<1>1. gse_length \in Nat /\ len_decapsulated \in Nat /\ pkts \in Seq(Packet)
  BY DEF TypeInv, TypeOK, pkts, Datagram
<1>a. \A k \in 1..Len(datagram.pkts) : datagram.pkts[k] \in Packet
  BY <1>1 DEF pkts
<1>b. \A k \in 1..Len(datagram.pkts) : PacketLen(datagram.pkts[k]) \in Nat
  BY <1>a, PacketLenType
<1> USE DEF TypeInv, TypeOK, StopTypeOK, DatagramWaits, Labels, Looping, Inner, Goto
<1>2. CASE VfragFails
  BY <1>1, <1>2 DEF DecapPacket, VfragFails, SetAlive
<1>3. CASE TooShort
  BY <1>1, <1>3 DEF DecapPacket, TooShort, StaleLength, stopVars
<1>4. CASE PaddingFound
  BY <1>1, <1>4 DEF DecapPacket, PaddingFound, stopVars
<1>5. ASSUME NEW k \in 1..Len(datagram.pkts), CutPacket(k) PROVE TypeInv'
  <2>1. PacketLen(datagram.pkts[k]) \in Nat
    BY <1>b
  <2>2. gse_length' \in Nat /\ len_decapsulated' \in Nat /\ pc' = "inner" /\ status' = status
    BY <1>1, <1>5, <2>1 DEF CutPacket
  <2>3. UNCHANGED <<stopVars, datagram, len_received, ctx, tap, seen, late, fds, sock, arrived>>
    BY <1>5 DEF DecapPacket, CutPacket
  <2>4. StopTypeOK'
    BY <2>3 DEF stopVars
  <2>5. TypeOK
    BY DEF TypeInv
  <2>6. TypeOK'
    BY <2>2, <2>3, <2>4, <2>5
  <2>7. DatagramWaits'
    BY <2>2
  <2>8. QED
    BY <2>6, <2>7
<1>6. ASSUME NEW k \in 1..Len(datagram.pkts), WholePacket(k) PROVE TypeInv'
  <2>1. /\ seen' \in 0..Len(pkts) /\ ctx' \in Context /\ tap' \in Seq(PduOut)
        /\ gse_length' \in Nat /\ len_decapsulated' \in Nat /\ late' \in Nat
        /\ pc' = "inner"
    BY <1>6, WholePacketType DEF DecapPacket, pkts
  <2>2. UNCHANGED <<stopVars, datagram, len_received, fds, sock, arrived, status>>
    BY <1>6 DEF DecapPacket, WholePacket
  <2>3. QED
    BY <2>1, <2>2 DEF stopVars, pkts
<1>7. QED
  BY <1>2, <1>3, <1>4, <1>5, <1>6 DEF DecapPacket

LEMMA EnvironmentType ==
    ASSUME TypeInv, DatagramArrives \/ \E s \in Sigs : Signal(s)
    PROVE  TypeInv'
<1>1. CASE DatagramArrives
  <2>1. PICK dg \in Datagrams : sock' = Append(sock, dg)
    BY <1>1 DEF DatagramArrives
  <2>2. dg \in Datagram /\ MaxDatagrams \in Nat
    BY DecapAssumption DEF DecapAssumption
  <2>3. sock' \in Seq(Datagram) /\ sock' # <<>>
    BY <2>1, <2>2 DEF TypeInv, TypeOK
  <2>4. QED
    BY <1>1, <2>2, <2>3
       DEF DatagramArrives, TypeInv, TypeOK, StopTypeOK, DatagramWaits, stopVars, walkVars
<1>2. ASSUME NEW s \in Sigs, Signal(s) PROVE TypeInv'
  <2>1. MaxSignals \in Nat
    BY MaxSignalsAssumption DEF MaxSignalsAssumption
  <2>2. signals' \in 0..MaxSignals /\ alive' \in {-1, 0, 1} /\ pending' \in SUBSET Sigs
        /\ installed' = installed /\ pc' \in {pc, "killed"}
    BY <1>2, <2>1 DEF Signal, RaiseHandled, RaiseDefault, RaiseIgnored, TypeInv, TypeOK, StopTypeOK
  <2>3. QED
    BY <1>2, <2>2 DEF Signal, TypeInv, TypeOK, StopTypeOK, DatagramWaits, Labels, walkVars
<1>3. QED
  BY <1>1, <1>2

LEMMA NextType == TypeInv /\ Walk /\ [Next]_vars => TypeInv'
<1> SUFFICES ASSUME TypeInv, Walk, [Next]_vars PROVE TypeInv'
  OBVIOUS
<1>1. CASE Step
  BY <1>1, ControlType, ReadType, DecapType DEF Step
<1>2. CASE DatagramArrives \/ \E s \in Sigs : Signal(s)
  BY <1>2, EnvironmentType
<1>3. CASE UNCHANGED vars
  BY <1>3 DEF vars, stopVars, walkVars, TypeInv, TypeOK, StopTypeOK, DatagramWaits
<1>4. QED
  BY <1>1, <1>2, <1>3 DEF Next

-----------------------------------------------------------------------------
\* Every step of the walk keeps its place

\* On the way, a rest that the next packet does not fit into holds none.
LEMMA LastSeen ==
    ASSUME TypeOK, OnTrack,
           seen < Len(pkts) => len_received < StartOf(pkts, seen + 1) + PacketLen(pkts[seen + 1])
    PROVE  AllSeen
<1>1. pkts \in Seq(Packet) /\ seen \in 0..Len(pkts)
  BY DEF TypeOK, pkts, Datagram
<1>2. StartOf(pkts, seen + 1) <= len_received
  BY DEF OnTrack
<1>3. StartOf(pkts, seen + 2) = StartOf(pkts, seen + 1) + PacketLen(pkts[seen + 1])
  <2>1. seen + 1 \in Nat \ {0} /\ (seen + 1) + 1 = seen + 2
    BY <1>1
  <2>2. QED
    BY <2>1, StartOfNext
<1>4. QED
  BY <1>1, <1>2, <1>3, WholeOnes DEF AllSeen

\* When the walk over the bytes is at its end, or finds a rest too short for
\* a header, all whole packets were seen.
LEMMA RestIsSeen ==
    ASSUME TypeOK, OnTrack, Left < GSE_MAX_HEADER_LENGTH
    PROVE  Finished
<1>1. pkts \in Seq(Packet) /\ seen \in 0..Len(pkts) /\ GSE_MAX_HEADER_LENGTH \in Nat
      /\ len_received \in Nat /\ len_decapsulated \in Nat
  BY DecapAssumption, GseAssumption DEF DecapAssumption, GseAssumption, TypeOK, pkts, Datagram
<1>2. ASSUME seen < Len(pkts)
      PROVE  len_received < StartOf(pkts, seen + 1) + PacketLen(pkts[seen + 1])
  <2>1. pkts[seen + 1] \in Packet
    BY <1>1, <1>2
  <2>2. PacketLen(pkts[seen + 1]) \in Nat /\ PacketLen(pkts[seen + 1]) > GSE_MAX_HEADER_LENGTH
    BY <2>1, PacketLenType
  <2>3. len_decapsulated = StartOf(pkts, seen + 1)
        /\ len_received - len_decapsulated < GSE_MAX_HEADER_LENGTH
    BY DEF OnTrack, Left
  <2>4. len_received < len_decapsulated + PacketLen(pkts[seen + 1])
    BY <1>1, <2>2, <2>3
  <2>5. QED
    BY <2>3, <2>4
<1>3. QED
  BY <1>2, LastSeen DEF Finished

LEMMA SameDatagram ==
    ASSUME UNCHANGED <<datagram, len_received>>
    PROVE  /\ pkts' = pkts
           /\ WholePackets' = WholePackets
BY DEF pkts, WholePackets

\* What a call of gse_deencap_packet() leaves the walk with.
LEMMA DecapWalk ==
    ASSUME TypeInv, Walk, DecapPacket
    PROVE  WalkInv'
<1>1. /\ pkts \in Seq(Packet) /\ seen \in 0..Len(pkts) /\ GSE_MAX_HEADER_LENGTH \in Nat
      /\ len_received \in Nat /\ len_decapsulated \in Nat /\ gse_length \in Nat
      /\ pc = "decap" /\ TypeOK
  BY DecapAssumption, GseAssumption
     DEF DecapAssumption, GseAssumption, TypeInv, TypeOK, pkts, Datagram, DecapPacket
<1>2. pkts' = pkts /\ WholePackets' = WholePackets /\ datagram' = datagram
      /\ len_received' = len_received
  <2>1. UNCHANGED <<datagram, len_received>>
    BY DEF DecapPacket, VfragFails, TooShort, PaddingFound, CutPacket, WholePacket
  <2>2. QED
    BY <2>1, SameDatagram
<1>a. ASSUME NEW a \in Nat, NEW b \in Nat, NEW h \in Nat
      PROVE  /\ a < b => a - b < h
             /\ \A c \in Nat : b <= c /\ a - b < h => a - c < h
  OBVIOUS
<1>3. CASE VfragFails
  BY <1>3 DEF VfragFails, SetAlive, Goto, WalkInv, Walk, EveryPacketParsed, Looping, Inner
<1>4. CASE TooShort
  <2>1. Finished
    BY <1>1, <1>4, RestIsSeen DEF Walk, TooShort
  <2>2. seen' = seen /\ len_decapsulated' \in Nat /\ len_decapsulated' >= len_decapsulated
        /\ pc' = "inner"
    BY <1>1, <1>4 DEF TooShort, StaleLength, Goto
  <2>3. len_received' - len_decapsulated' < GSE_MAX_HEADER_LENGTH
    <3>1. len_received - len_decapsulated < GSE_MAX_HEADER_LENGTH
      BY <2>1 DEF Finished, Left
    <3>2. QED
      BY <1>1, <1>2, <2>2, <3>1, <1>a
  <2>4. AllSeen'
    BY <1>2, <2>1, <2>2 DEF Finished, AllSeen
  <2>5. Finished'
    BY <2>3, <2>4 DEF Finished, Left
  <2>6. QED
    BY <2>2, <2>5 DEF WalkInv, Walk, EveryPacketParsed, Looping, Inner
<1>5. CASE PaddingFound
  <2>1. OnTrack /\ Len(pkts) + 1 = seen + 1
    <3>1. HeaderAt(Len(pkts) + 1) /\ Len(pkts) + 1 \in 1..(Len(pkts) + 1)
      BY <1>1, <1>5 DEF PaddingFound, pkts
    <3>2. QED
      BY <1>1, <3>1, HeaderIsNext
  <2>2. seen = Len(pkts)
    BY <1>1, <2>1
  <2>3. AllSeen
    BY <1>1, <2>1, <2>2, LastSeen
  <2>4. seen' = seen /\ pc' = "loop"
    BY <1>5 DEF PaddingFound, Goto
  <2>5. QED
    BY <1>2, <2>3, <2>4 DEF WalkInv, Walk, EveryPacketParsed, AllSeen, Looping, Inner
<1>6. ASSUME NEW k \in 1..Len(datagram.pkts), CutPacket(k) PROVE WalkInv'
  <2>1. OnTrack /\ k = seen + 1
    <3>1. HeaderAt(k) /\ k \in 1..(Len(pkts) + 1)
      BY <1>1, <1>6 DEF CutPacket, pkts
    <3>2. QED
      BY <1>1, <3>1, HeaderIsNext
  <2>2. pkts[k] \in Packet
    BY <1>1, <1>6 DEF pkts
  <2>3. PacketLen(pkts[k]) \in Nat
    BY <2>2, PacketLenType
  <2>4. PacketLen(pkts[k]) > len_received - len_decapsulated
    BY <1>6 DEF CutPacket, Left, pkts
  <2>5. len_received < StartOf(pkts, seen + 1) + PacketLen(pkts[seen + 1])
    <3>1. len_received < len_decapsulated + PacketLen(pkts[k])
      BY <1>1, <2>3, <2>4
    <3>2. QED
      BY <2>1, <3>1 DEF OnTrack
  <2>6. AllSeen
    BY <1>1, <2>1, <2>5, LastSeen
  <2>7. seen' = seen /\ len_decapsulated' = len_decapsulated + PacketLen(pkts[k]) /\ pc' = "inner"
    BY <1>6 DEF CutPacket, Goto, pkts
  <2>8. len_received - len_decapsulated' < GSE_MAX_HEADER_LENGTH
    <3>1. len_decapsulated' \in Nat /\ len_decapsulated' > len_received
      BY <1>1, <2>3, <2>4, <2>7
    <3>2. QED
      BY <1>1, <3>1, <1>a
  <2>9. Finished'
    BY <1>2, <2>6, <2>7, <2>8 DEF Finished, AllSeen, Left
  <2>10. QED
    BY <2>7, <2>9 DEF WalkInv, Walk, EveryPacketParsed, Looping, Inner
<1>7. ASSUME NEW k \in 1..Len(datagram.pkts), WholePacket(k) PROVE WalkInv'
  <2>1. OnTrack /\ k = seen + 1
    <3>1. HeaderAt(k) /\ k \in 1..(Len(pkts) + 1)
      BY <1>1, <1>7 DEF WholePacket, pkts
    <3>2. QED
      BY <1>1, <3>1, HeaderIsNext
  <2>2. PacketLen(pkts[k]) \in Nat
    <3>1. pkts[k] \in Packet
      BY <1>1, <1>7 DEF pkts
    <3>2. QED
      BY <3>1, PacketLenType
  <2>3. seen' = seen + 1 /\ len_decapsulated' = len_decapsulated + PacketLen(pkts[k])
        /\ PacketLen(pkts[k]) <= len_received - len_decapsulated /\ pc' = "inner"
    BY <1>7 DEF WholePacket, Advance, Left, pkts, Goto, AfterPacket
  <2>4. StartOf(pkts, seen' + 1) = len_decapsulated'
    <3>1. StartOf(pkts, (seen + 1) + 1) = StartOf(pkts, seen + 1) + PacketLen(pkts[seen + 1])
      <4>1. seen + 1 \in Nat \ {0}
        BY <1>1
      <4>2. QED
        BY <4>1, StartOfNext
    <3>2. QED
      BY <2>1, <2>3, <3>1 DEF OnTrack
  <2>5. len_decapsulated' <= len_received
    BY <1>1, <2>2, <2>3
  <2>6. OnTrack'
    BY <1>2, <2>4, <2>5 DEF OnTrack
  <2>7. QED
    BY <2>3, <2>6 DEF WalkInv, Walk, EveryPacketParsed, Looping, Inner
<1>8. QED
  BY <1>3, <1>4, <1>5, <1>6, <1>7 DEF DecapPacket

\* A datagram is entered at its first byte; a skipped one leaves none to walk.
LEMMA ReadWalk ==
    ASSUME TypeInv, WalkInv, ReadDatagram
    PROVE  WalkInv'
<1>1. Head(sock) \in Datagram
  BY DEF TypeInv, TypeOK, DatagramWaits, ReadDatagram
<1>2. CASE pc' = "failed" /\ UNCHANGED <<sock, walkVars>>
  BY <1>2 DEF WalkInv, Walk, EveryPacketParsed, Looping, Inner
<1>3. CASE seen' = 0 /\ datagram' = NoDatagram /\ len_received' = 0 /\ pc' = "loop"
  <2>1. WholePackets' = {}
    BY <1>3, NoDatagramType DEF WholePackets
  <2>2. QED
    BY <1>3, <2>1, FS_EmptySet DEF WalkInv, Walk, EveryPacketParsed, Looping, Inner
<1>4. CASE seen' = 0 /\ datagram' = Head(sock) /\ len_received' = LenReceived(Head(sock))
           /\ len_decapsulated' = 0 /\ pc' = "inner"
  <2>1. len_received' \in Nat
    BY <1>1, <1>4, DatagramLenType, DecapAssumption DEF DecapAssumption, LenReceived, Least
  <2>2. OnTrack'
    BY <1>4, <2>1, StartOfNext DEF OnTrack
  <2>3. QED
    BY <1>4, <2>2 DEF WalkInv, Walk, EveryPacketParsed, Looping, Inner
<1>5. QED
  BY <1>2, <1>3, <1>4 DEF ReadDatagram, Goto

\* The steps that leave the datagram alone.
LEMMA ControlWalk ==
    ASSUME TypeInv, WalkInv,
           \/ CheckParams \/ CreateCtxt \/ InstallHandlers \/ Arm \/ DeencapInit
           \/ LoopTest \/ EnterSelect \/ SelectReturns \/ LoopFailed \/ InnerTest \/ Clean
           \/ DatagramArrives \/ (\E s \in Sigs : Signal(s)) \/ UNCHANGED vars
    PROVE  WalkInv'
<1>1. UNCHANGED walkVars
  BY DEF CheckParams, CreateCtxt, InstallHandlers, Arm, DeencapInit, LoopTest, EnterSelect,
         SelectReturns, LoopFailed, InnerTest, Clean, DatagramArrives, Signal, vars
<1>2. /\ OnTrack' = OnTrack /\ Finished' = Finished /\ WholePackets' = WholePackets
      /\ datagram' = datagram /\ seen' = seen
  BY <1>1 DEF walkVars, OnTrack, Finished, AllSeen, Left, WholePackets, pkts
<1> HIDE DEF OnTrack, Finished, WholePackets
<1> USE DEF WalkInv, Walk, EveryPacketParsed, Looping, Inner, Goto, Return
<1>3. CASE CheckParams \/ CreateCtxt \/ InstallHandlers \/ Arm
  BY <1>2, <1>3 DEF CheckParams, CreateCtxt, InstallHandlers, Arm
<1>4. CASE DeencapInit
  <2>1. datagram = NoDatagram /\ seen = 0
    BY <1>4 DEF DeencapInit
  <2>2. WholePackets = {}
    BY <2>1, NoDatagramType DEF WholePackets
  <2>3. Cardinality({}) = 0
    BY FS_EmptySet
  <2>4. QED
    BY <1>2, <1>4, <2>1, <2>2, <2>3 DEF DeencapInit
<1>5. CASE LoopTest \/ EnterSelect \/ Clean \/ LoopFailed
  BY <1>2, <1>5 DEF LoopTest, EnterSelect, Clean, LoopFailed, stopVars
<1>6. CASE SelectReturns
  BY <1>2, <1>6 DEF SelectReturns, Unblock
<1>7. CASE InnerTest
  <2>1. CASE len_decapsulated < len_received /\ Running
    BY <1>2, <1>7, <2>1 DEF InnerTest, Running, stopVars
  <2>2. CASE ~ (len_decapsulated < len_received /\ Running)
    <3>1. pc' = "loop" /\ alive' = alive /\ pc = "inner"
      BY <1>7, <2>2 DEF InnerTest, stopVars
    <3>2. ASSUME alive = 0 PROVE AllSeen
      <4>1. CASE Finished
        BY <4>1 DEF Finished
      <4>2. CASE OnTrack
        <5>1. len_decapsulated \in Nat /\ len_received \in Nat
              /\ ~ (len_decapsulated < len_received)
          BY <2>2, <3>2, DecapAssumption DEF DecapAssumption, Running, TypeInv, TypeOK
        <5>2. Left < GSE_MAX_HEADER_LENGTH
          BY <5>1, GseAssumption DEF GseAssumption, Left
        <5>3. QED
          BY <4>2, <5>2, RestIsSeen DEF Finished, TypeInv
      <4>3. QED
        BY <3>1, <3>2, <4>1, <4>2
    <3>3. QED
      BY <1>2, <3>1, <3>2 DEF AllSeen
  <2>3. QED
    BY <2>1, <2>2
<1>8. CASE DatagramArrives \/ UNCHANGED vars
  BY <1>2, <1>8 DEF DatagramArrives, vars, stopVars
<1>9. ASSUME NEW s \in Sigs, Signal(s) PROVE WalkInv'
  <2>1. pc' \in {pc, "killed"} /\ (alive' = alive \/ alive' = 1)
    BY <1>9 DEF Signal, RaiseHandled, RaiseDefault, RaiseIgnored
  <2>2. QED
    BY <1>2, <2>1
<1>10. QED
  BY <1>3, <1>4, <1>5, <1>6, <1>7, <1>8, <1>9

LEMMA NextWalk == TypeInv /\ WalkInv /\ [Next]_vars => WalkInv'
<1> SUFFICES ASSUME TypeInv, WalkInv, [Next]_vars PROVE WalkInv'
  OBVIOUS
<1>1. CASE DecapPacket
  BY <1>1, DecapWalk DEF WalkInv
<1>2. CASE ReadDatagram
  BY <1>2, ReadWalk
<1>3. QED
  BY <1>1, <1>2, ControlWalk DEF Next, Step

LEMMA WalkAlways == Spec => [](TypeInv /\ WalkInv)
<1>1. Init => TypeInv /\ WalkInv
  BY InitType DEF WalkInv
<1>2. TypeInv /\ WalkInv /\ [Next]_vars => (TypeInv /\ WalkInv)'
  BY NextType, NextWalk DEF WalkInv
<1>3. QED
  BY <1>1, <1>2, PTL DEF Spec

\* Every variable of process_decap() keeps its type, for every value of the
\* constants: recvfrom() returns no more than it was asked for, and no more
\* packets are handed over than the datagram holds.
THEOREM TypeCorrect == Spec => []TypeOK
<1>1. TypeInv => TypeOK
  BY DEF TypeInv
<1>2. QED
  BY <1>1, WalkAlways, PTL

\* gse_deencap_packet() is never told to parse the middle of a packet, for
\* every list of packets, wherever recvfrom() cut it.
THEOREM NeverInsideAPacket == Spec => []Aligned
<1>1. TypeInv /\ WalkInv => Aligned
  <2> SUFFICES ASSUME TypeInv, WalkInv, pc = "decap", Left >= GSE_MAX_HEADER_LENGTH
               PROVE  \E k \in 1..Len(datagram.pkts) + 1 :
                        len_decapsulated = StartOf(datagram.pkts, k)
    BY DEF Aligned
  <2>1. len_received \in Nat /\ len_decapsulated \in Nat /\ GSE_MAX_HEADER_LENGTH \in Nat
        /\ seen \in 0..Len(pkts) /\ Len(pkts) \in Nat
    BY DecapAssumption, GseAssumption
       DEF DecapAssumption, GseAssumption, TypeInv, TypeOK, pkts, Datagram
  <2>2. OnTrack
    BY <2>1 DEF WalkInv, Walk, Finished, Left
  <2>3. seen + 1 \in 1..Len(pkts) + 1
    BY <2>1
  <2>4. QED
    BY <2>2, <2>3 DEF OnTrack, pkts
<1>2. QED
  BY <1>1, WalkAlways, PTL

\* No packet that was received whole is skipped or handed over twice, whatever
\* libgse says of the packets before it.
THEOREM NothingSkipped == Spec => []EveryPacketParsed
<1>1. WalkInv => EveryPacketParsed
  BY DEF WalkInv
<1>2. QED
  BY <1>1, WalkAlways, PTL

-----------------------------------------------------------------------------
\* The late packets, the descriptors, and what is seen from outside

\* A packet handed over after the stop was noticed is the last one: the test
\* of the inner loop comes first.
LateLeaves ==
    /\ late <= 1
    /\ late = 1 => alive # 0 /\ pc \in {"inner", "loop", "clean", "exited", "killed"}

\* From the second signal() on, no stop signal kills the process.
HandlersInstalled ==
    /\ pc \in Looping \union {"arm", "deencap_init", "failed", "clean"} => installed = Sigs
    /\ pc = "sigint" => "SIGTERM" \in installed

\* A signal waits only while pselect() blocks it.
PendingInSelect == pending # {} => pc = "select"

\* The descriptors that are open when a line is reached.
OpenAt ==
    /\ pc \in {"check_params", "create_ctxt"} => fds = {}
    /\ pc \in Looping \union {"sigterm", "sigint", "arm", "deencap_init", "failed", "clean"}
         => fds = {"tap", "udp"}

OutsideInv == LateLeaves /\ HandlersInstalled /\ PendingInSelect /\ OpenAt /\ Released

LEMMA InitOutside == Init => OutsideInv
BY DEF Init, StopInit, OutsideInv, LateLeaves, HandlersInstalled, PendingInSelect, OpenAt,
       Released, Looping, Inner

\* What is seen of a call of gse_deencap_packet() outside the walk.
LEMMA DecapOutside ==
    ASSUME DecapPacket
    PROVE  /\ pc = "decap" /\ pc' \in {"inner", "loop"}
           /\ UNCHANGED <<status, fds, installed, pending>>
           /\ alive' \in {alive, -1}
           /\ late' # late => late' = late + 1 /\ alive # 0 /\ alive' = alive /\ pc' = "inner"
<1> USE DEF Goto, stopVars
<1>1. CASE VfragFails
  BY <1>1 DEF DecapPacket, VfragFails, SetAlive
<1>2. CASE TooShort
  BY <1>2 DEF DecapPacket, TooShort
<1>3. CASE PaddingFound
  BY <1>3 DEF DecapPacket, PaddingFound
<1>4. ASSUME NEW k \in 1..Len(datagram.pkts), CutPacket(k)
      PROVE  /\ pc' = "inner" /\ late' = late
             /\ UNCHANGED <<status, installed, pending, alive>>
  BY <1>4 DEF CutPacket
<1>5. ASSUME NEW k \in 1..Len(datagram.pkts), WholePacket(k)
      PROVE  /\ pc' = "inner" /\ late' = IF alive # 0 THEN late + 1 ELSE late
             /\ UNCHANGED <<status, installed, pending, alive>>
  BY <1>5 DEF WholePacket, AfterPacket
<1>6. QED
  BY <1>1, <1>2, <1>3, <1>4, <1>5 DEF DecapPacket

LEMMA ControlOutside ==
    ASSUME TypeInv, OutsideInv,
           \/ CheckParams \/ CreateCtxt \/ InstallHandlers \/ Arm \/ DeencapInit
           \/ LoopTest \/ EnterSelect \/ SelectReturns \/ LoopFailed \/ InnerTest \/ Clean
    PROVE  OutsideInv'
<1> USE DEF OutsideInv, LateLeaves, HandlersInstalled, PendingInSelect, OpenAt, Released,
            Looping, Inner, Goto, Return, walkVars, stopVars
<1>1. late \in Nat /\ installed \in SUBSET Sigs
  BY DEF TypeInv, TypeOK, StopTypeOK
<1>2. CASE CheckParams \/ DeencapInit
  BY <1>1, <1>2 DEF CheckParams, DeencapInit
<1>3. CASE CreateCtxt
  BY <1>1, <1>3 DEF CreateCtxt, OpenUdpFailures
<1>4. CASE InstallHandlers
  BY <1>1, <1>4 DEF InstallHandlers, Install, Sigs
<1>5. CASE Arm
  BY <1>1, <1>5 DEF Arm, SetAlive
<1>6. CASE LoopTest \/ EnterSelect \/ InnerTest
  BY <1>1, <1>6 DEF LoopTest, EnterSelect, InnerTest, Running
<1>7. CASE SelectReturns
  BY <1>1, <1>7 DEF SelectReturns, Unblock
<1>8. CASE LoopFailed
  BY <1>1, <1>8 DEF LoopFailed, SetAlive
<1>9. CASE Clean
  BY <1>1, <1>9 DEF Clean, OpenAfterClean
<1>10. QED
  BY <1>2, <1>3, <1>4, <1>5, <1>6, <1>7, <1>8, <1>9

LEMMA NextOutside == TypeInv /\ OutsideInv /\ [Next]_vars => OutsideInv'
<1> SUFFICES ASSUME TypeInv, OutsideInv, [Next]_vars PROVE OutsideInv'
  OBVIOUS
<1> USE DEF OutsideInv, LateLeaves, HandlersInstalled, PendingInSelect, OpenAt, Released,
            Looping, Inner, Goto
<1>1. late \in Nat
  BY DEF TypeInv, TypeOK
<1>2. CASE ReadDatagram
  BY <1>1, <1>2 DEF ReadDatagram, walkVars, stopVars
<1>3. CASE DecapPacket
  <2>1. late = 0
    BY <1>1, <1>3, DecapOutside
  <2>2. QED
    BY <1>3, <2>1, DecapOutside
<1>4. CASE DatagramArrives \/ UNCHANGED vars
  BY <1>1, <1>4 DEF DatagramArrives, vars, walkVars, stopVars
<1>5. ASSUME NEW s \in Sigs, Signal(s) PROVE OutsideInv'
  BY <1>1, <1>5 DEF Signal, RaiseHandled, RaiseDefault, RaiseIgnored, walkVars
<1>6. QED
  BY <1>2, <1>3, <1>4, <1>5, ControlOutside DEF Next, Step

LEMMA OutsideAlways == Spec => []OutsideInv
BY InitOutside, NextOutside, WalkAlways, PTL DEF Spec

\* However many packets the datagram still holds, at most one is handed over
\* once the stop was noticed.
THEOREM OneLatePacket == Spec => []AtMostOneLatePacket
<1>1. OutsideInv => AtMostOneLatePacket
  BY DEF OutsideInv, LateLeaves, AtMostOneLatePacket
<1>2. QED
  BY <1>1, OutsideAlways, PTL

\* Whatever call fails, a return from the loop leaves no descriptor open, and
\* an early return only the socket of a failed bind() or both.
THEOREM NothingLeaks == Spec => []Released
<1>1. OutsideInv => Released
  BY DEF OutsideInv
<1>2. QED
  BY <1>1, OutsideAlways, PTL

\* The steps of the program that occur.
LEMMA PhaseSteps ==
    /\ Phase = "new" /\ Phase' = "handling" => P!Next
    /\ Phase = "handling" /\ Phase' = "running" => P!Next
    /\ Phase = "running" /\ Phase' = "stopping" => P!Next
    /\ Phase \in {"new", "handling", "running", "stopping"} /\ Phase' = "gone" => P!Next
<1>1. P!MovesTo("new") = "handling" /\ P!MovesTo("handling") = "running"
  BY DEF P!MovesTo
<1>2. P!Interrupted("running") = "stopping"
  BY DEF P!Interrupted
<1>3. QED
  BY <1>1, <1>2 DEF P!Next, P!MovesOn, P!Stops, P!Ends

\* A step of the process is a step of the program, or none.
LEMMA StepObeys ==
    ASSUME TypeInv, OutsideInv, Step
    PROVE  P!Next \/ Phase' = Phase
<1> USE PhaseSteps DEF Phase, Looping, Inner, Goto, Return, stopVars
<1>1. CASE CheckParams \/ CreateCtxt \/ InstallHandlers
  BY <1>1 DEF CheckParams, CreateCtxt, InstallHandlers
<1>2. CASE Arm
  BY <1>2 DEF Arm, SetAlive, OutsideInv, PendingInSelect
<1>3. CASE DeencapInit \/ LoopTest \/ EnterSelect \/ InnerTest
  BY <1>3 DEF DeencapInit, LoopTest, EnterSelect, InnerTest
<1>4. CASE SelectReturns
  BY <1>4 DEF SelectReturns, Unblock
<1>5. CASE LoopFailed
  BY <1>5 DEF LoopFailed, SetAlive
<1>6. CASE ReadDatagram
  BY <1>6 DEF ReadDatagram
<1>7. CASE DecapPacket
  BY <1>7, DecapOutside
<1>8. CASE Clean
  BY <1>8 DEF Clean
<1>9. QED
  BY <1>1, <1>2, <1>3, <1>4, <1>5, <1>6, <1>7, <1>8 DEF Step

\* Seen through its phase, the process only ever makes the steps the testbed
\* scripts rely on; also a virtual fragment that cannot be created in the
\* middle of a datagram only ends it.  This is what ImplementsProgram says of
\* steps.
THEOREM ObeysProgram == Spec => P!Init /\ [][P!Next]_Phase
<1>1. Init => P!Init
  BY DEF Init, P!Init, Phase, Looping, Inner
<1>2. TypeInv /\ OutsideInv /\ [Next]_vars => [P!Next]_Phase
  <2> SUFFICES ASSUME TypeInv, OutsideInv, [Next]_vars PROVE P!Next \/ Phase' = Phase
    OBVIOUS
  <2>1. CASE Step
    BY <2>1, StepObeys
  <2>2. CASE DatagramArrives \/ UNCHANGED vars
    BY <2>2 DEF DatagramArrives, vars, stopVars, Phase
  <2>3. CASE \E s \in Sigs : Signal(s)
    BY <2>3, PhaseSteps DEF Signal, RaiseHandled, RaiseDefault, RaiseIgnored, Phase, Looping, Inner
  <2>4. QED
    BY <2>1, <2>2, <2>3 DEF Next
<1>3. QED
  BY <1>1, <1>2, WalkAlways, OutsideAlways, PTL DEF Spec

-----------------------------------------------------------------------------
\* What the tunnel sees of the process

\* A restart loses what the process held.
LEMMA RestartKeeps ==
    ASSUME TypeInv, WalkInv, Restart
    PROVE  TypeInv' /\ WalkInv'
<1>1. NoContext \in Context
  BY DEF NoContext, Context
<1>2. TypeInv'
  BY <1>1, NoDatagramType, DecapAssumption
     DEF DecapAssumption, Restart, StopRestart, TypeInv, TypeOK, StopTypeOK, DatagramWaits,
         Labels, Looping, NotReturned
<1>3. QED
  BY <1>2 DEF Restart, WalkInv, Walk, EveryPacketParsed, Looping, Inner

\* The network hands over one datagram more.
LEMMA SockGrows ==
    ASSUME TypeInv, WalkInv, NEW dg \in Datagram, sock' = Append(sock, dg),
           UNCHANGED <<stopVars, pc, status, fds, arrived, walkVars>>
    PROVE  TypeInv' /\ WalkInv'
<1>1. sock' \in Seq(Datagram) /\ sock' # <<>>
  BY DEF TypeInv, TypeOK
<1>2. TypeInv'
  BY <1>1 DEF TypeInv, TypeOK, StopTypeOK, DatagramWaits, stopVars, walkVars
<1>3. Walk' /\ EveryPacketParsed'
  BY DEF WalkInv, Walk, EveryPacketParsed, WholePackets, OnTrack, Finished, AllSeen, pkts, Left,
         stopVars, walkVars
<1>4. QED
  BY <1>2, <1>3 DEF WalkInv

\* The datagram whose first packet was not handed to libgse yet.
Hand == IF pc \in Inner /\ len_decapsulated = 0 THEN <<datagram>> ELSE <<>>

\* Where datagrams carry one packet, a step takes a datagram of the peer, writes
\* the PDU that the packet in hand ends, drops that packet, or does none of it.
LEMMA StepShape ==
    ASSUME TypeInv, Step, Len(pkts) <= 1
    PROVE  \/ UNCHANGED <<datagram, sock, tap>> /\ Hand' \in {Hand, <<>>}
           \/ /\ Hand = <<>> /\ sock # <<>> /\ sock' = Tail(sock) /\ tap' = tap
              /\ \/ Hand' = <<>> /\ datagram' = NoDatagram
                 \/ /\ Hand' = <<Head(sock)>> /\ datagram' = Head(sock)
                    /\ Head(sock).src = "remote"
           \/ /\ Hand = <<datagram>> /\ Hand' = <<>> /\ UNCHANGED <<datagram, sock>>
              /\ Len(pkts) = 1 /\ pkts[1] \in Packet /\ IsEnd(pkts[1])
              /\ tap' = Append(tap, [id |-> pkts[1].id, len |-> pkts[1].total])
<1>1. CASE ReadDatagram
  <2>1. sock # <<>> /\ Hand = <<>>
    BY <1>1 DEF ReadDatagram, TypeInv, DatagramWaits, Hand, Inner
  <2>2. CASE Goto("failed") /\ UNCHANGED <<sock, walkVars>>
    BY <2>1, <2>2 DEF Goto, Hand, Inner, walkVars
  <2>3. CASE /\ sock' = Tail(sock) /\ FromRemote(Head(sock)) /\ datagram' = Head(sock)
             /\ len_decapsulated' = 0 /\ Goto("inner") /\ tap' = tap
    BY <2>1, <2>3 DEF Goto, Hand, Inner, FromRemote
  <2>4. CASE /\ sock' = Tail(sock) /\ datagram' = NoDatagram /\ Goto("loop") /\ tap' = tap
    BY <2>1, <2>4 DEF Goto, Hand, Inner
  <2>5. QED
    BY <1>1, <2>2, <2>3, <2>4 DEF ReadDatagram
<1>2. CASE DecapPacket
  <2>1. pc = "decap" /\ sock' = sock /\ gse_length \in Nat /\ len_decapsulated \in Nat
        /\ pkts \in Seq(Packet) /\ Len(pkts) \in 0..1
    <3>1. pc = "decap" /\ sock' = sock /\ gse_length \in Nat /\ len_decapsulated \in Nat
      BY <1>2 DEF DecapPacket, TypeInv, TypeOK
    <3>2. pkts \in Seq(Packet)
      BY DEF TypeInv, TypeOK, pkts, Datagram
    <3>3. QED
      BY <3>1, <3>2
  <2>2. CASE VfragFails \/ TooShort \/ PaddingFound
    <3>1. /\ UNCHANGED <<datagram, tap>>
          /\ len_decapsulated' = 0 => len_decapsulated = 0
      BY <2>1, <2>2 DEF VfragFails, TooShort, StaleLength, PaddingFound
    <3>2. QED
      BY <2>1, <3>1 DEF Hand, Inner
  <2>3. ASSUME NEW k \in 1..Len(datagram.pkts), CutPacket(k) \/ WholePacket(k)
        PROVE  /\ k = 1 /\ Len(pkts) = 1 /\ pkts[1] \in Packet /\ len_decapsulated = 0
               /\ Hand = <<datagram>> /\ Hand' = <<>> /\ datagram' = datagram
    <3>1. k = 1 /\ Len(pkts) = 1 /\ pkts[1] \in Packet
      BY <2>1 DEF pkts
    <3>2. len_decapsulated = 0
      <4>1. StartOf(pkts, 1) = 0
        BY StartOfNext
      <4>2. QED
        BY <2>3, <3>1, <4>1 DEF CutPacket, WholePacket, HeaderAt, pkts
    <3>3. PacketLen(pkts[1]) \in Nat \ {0}
      BY <3>1, GseAssumption DEF GseAssumption, PacketLen, Packet
    <3>4. len_decapsulated' # 0 /\ datagram' = datagram
      BY <2>3, <3>1, <3>2, <3>3 DEF CutPacket, WholePacket, Advance, pkts
    <3>5. QED
      BY <2>1, <3>1, <3>2, <3>4 DEF Hand, Inner
  <2>4. ASSUME NEW k \in 1..Len(datagram.pkts), CutPacket(k)
        PROVE  UNCHANGED <<datagram, sock, tap>> /\ Hand' \in {Hand, <<>>}
    BY <2>1, <2>3, <2>4 DEF CutPacket
  <2>5. ASSUME NEW k \in 1..Len(datagram.pkts), WholePacket(k)
        PROVE  \/ tap' = tap
               \/ IsEnd(pkts[1]) /\ tap' = Append(tap, [id |-> pkts[1].id, len |-> pkts[1].total])
    <3>1. k = 1 /\ datagram.pkts[1] = pkts[1]
      BY <2>3, <2>5 DEF pkts
    <3>2. CASE Deencap(ctx, pkts[1]).status = "PDU_RECEIVED"
      <4>1. IsEnd(pkts[1])
        BY <3>2 DEF Deencap, IsComplete
      <4>2. WriteTap([id |-> pkts[1].id, len |-> pkts[1].total])
        BY <2>5, <3>1, <3>2 DEF WholePacket
      <4>3. QED
        BY <4>1, <4>2 DEF WriteTap
    <3>3. CASE Deencap(ctx, pkts[1]).status # "PDU_RECEIVED"
      BY <2>5, <3>1, <3>3 DEF WholePacket
    <3>4. QED
      BY <3>2, <3>3
  <2>6. CASE \E k \in 1..Len(datagram.pkts) : WholePacket(k)
    BY <2>1, <2>3, <2>5, <2>6
  <2>7. QED
    BY <1>2, <2>2, <2>4, <2>6 DEF DecapPacket
<1>3. CASE ~ReadDatagram /\ ~DecapPacket
  <2>1. UNCHANGED <<datagram, sock, tap>> /\ len_decapsulated' = len_decapsulated
        /\ (pc' \in Inner => pc \in Inner)
    BY <1>3 DEF Step, CheckParams, CreateCtxt, InstallHandlers, Arm, DeencapInit, LoopTest,
       EnterSelect, SelectReturns, LoopFailed, InnerTest, Clean, walkVars, Goto, Return, Inner
  <2>2. QED
    BY <2>1 DEF Hand
<1>4. QED
  BY <1>1, <1>2, <1>3
=============================================================================
