--------------------------- MODULE CTunnelProofs ----------------------------
(***************************************************************************)
(* The C tunnel implements the tunnel service, for every number of frames, *)
(* every frame and datagram length, every set of incidents and failures,   *)
(* over a network that keeps order or does not.                            *)
(***************************************************************************)
EXTENDS CTunnel, QueueProofs

\* The processes, with what is proved of them.
EP == INSTANCE ProcessEncapProofs WITH
    PayloadLen <- EncapPayloadLen, Faults <- EncapFailures,
    alive <- alive_e, installed <- installed_e, pending <- pending_e, signals <- signals_e,
    pc <- pc_e, status <- status_e, fds <- fds_e, tap <- tap_e, arrived <- arrived_e,
    late <- late_e

DP == INSTANCE ProcessDecapProofs WITH
    MaxDatagrams <- 0, Datagrams <- {}, GarbageLens <- {0},
    PayloadLen <- DecapPayloadLen, Faults <- DecapFailures,
    alive <- alive_d, installed <- installed_d, pending <- pending_d, signals <- signals_d,
    pc <- pc_d, status <- status_d, fds <- fds_d, arrived <- arrived_d, tap <- tap_d,
    late <- late_d

-----------------------------------------------------------------------------
\* What is known of the processes holds in the tunnel

LEMMA EncapAssumed == EP!GseAssumption /\ EP!EncapAssumption /\ EP!MaxSignalsAssumption
BY CTunnelAssumption
DEF CTunnelAssumption, EP!GseAssumption, EP!EncapAssumption, EP!MaxSignalsAssumption,
    EP!EncapFaults, Encap!EncapFaults

LEMMA DecapAssumed == DP!GseAssumption /\ DP!DecapAssumption /\ DP!MaxSignalsAssumption
BY CTunnelAssumption
DEF CTunnelAssumption, DP!GseAssumption, DP!DecapAssumption, DP!MaxSignalsAssumption,
    DP!DecapFaults, Decap!DecapFaults

LEMMA EncapRestarts ==
    ASSUME EP!TypeInv, EP!OrderInv, EP!Restart
    PROVE  EP!TypeInv' /\ EP!OrderInv'
BY EncapAssumed, EP!RestartKeeps

\* Both instances are the same module: what one does the other does.
LEMMA EncapSame ==
    /\ (Encap!Init => EP!Init) /\ (Encap!Restart => EP!Restart)
    /\ Encap!Step => EP!Step
    /\ Encap!TapArrives => EP!TapArrives
<1> USE DEF Encap!Goto, EP!Goto, Encap!Return, EP!Return, Encap!Fails, EP!Fails,
            Encap!stopVars, EP!stopVars, Encap!ioVars, EP!ioVars, Encap!SetAlive,
            EP!SetAlive, Encap!NotReturned, EP!NotReturned
<1>1. (Encap!Init => EP!Init) /\ (Encap!Restart => EP!Restart)
  BY DEF Encap!Init, EP!Init, Encap!Restart, EP!Restart, Encap!StopInit, EP!StopInit,
         Encap!StopRestart, EP!StopRestart
<1>2. Encap!CheckParams => EP!CheckParams
  BY DEF Encap!CheckParams, EP!CheckParams, Encap!PayloadLenValid, EP!PayloadLenValid,
         Encap!MIN_ENCAP_FRAME_SIZE, EP!MIN_ENCAP_FRAME_SIZE
<1>3. (Encap!CreateRecv => EP!CreateRecv) /\ (Encap!CreateSend => EP!CreateSend)
  BY DEF Encap!CreateRecv, EP!CreateRecv, Encap!CreateSend, EP!CreateSend, Encap!OpenTap,
         EP!OpenTap, Encap!OpenUdpFailures, EP!OpenUdpFailures
<1>4. /\ (Encap!InstallHandlers => EP!InstallHandlers) /\ (Encap!Arm => EP!Arm)
      /\ (Encap!EncapInit => EP!EncapInit)
  BY DEF Encap!InstallHandlers, EP!InstallHandlers, Encap!Arm, EP!Arm, Encap!EncapInit,
         EP!EncapInit, Encap!Install, EP!Install
<1>5. (Encap!LoopTest => EP!LoopTest) /\ (Encap!EnterSelect => EP!EnterSelect)
  BY DEF Encap!LoopTest, EP!LoopTest, Encap!EnterSelect, EP!EnterSelect, Encap!Running,
         EP!Running
<1>6. (Encap!SelectReturns => EP!SelectReturns) /\ (Encap!LoopFailed => EP!LoopFailed)
  BY DEF Encap!SelectReturns, EP!SelectReturns, Encap!LoopFailed, EP!LoopFailed,
         Encap!Unblock, EP!Unblock
<1>7. (Encap!FrameDropped => EP!FrameDropped) /\ (Encap!FrameRefused => EP!FrameRefused)
  BY DEF Encap!FrameDropped, EP!FrameDropped, Encap!FrameRefused, EP!FrameRefused,
         Encap!ReadLate, EP!ReadLate
<1>8. Encap!FrameAccepted => EP!FrameAccepted
  BY DEF Encap!FrameAccepted, EP!FrameAccepted, Encap!ReadLate, EP!ReadLate, Encap!PduRead,
         EP!PduRead, Encap!Least, EP!Least, Encap!Enqueued, EP!Enqueued
<1>9. Encap!ReceiveFrame => EP!ReceiveFrame
  BY <1>7, <1>8 DEF Encap!ReceiveFrame, EP!ReceiveFrame
<1>10. Encap!GetPacket => EP!GetPacket
  <2>1. Encap!DesiredLens = EP!DesiredLens
    BY DEF Encap!DesiredLens, EP!DesiredLens, Encap!InFifo, EP!InFifo, Encap!Remaining,
           EP!Remaining
  <2>2. \A pdu, n : Encap!NextPacket(pdu, n) = EP!NextPacket(pdu, n)
    BY DEF Encap!NextPacket, EP!NextPacket, Encap!Least, EP!Least, Encap!Remaining, EP!Remaining
  <2>3. \A q, pkt : Encap!Packed(q, pkt) = EP!Packed(q, pkt)
    BY DEF Encap!Packed, EP!Packed, Encap!IsEnd, EP!IsEnd
  <2>4. \A pkt : Encap!Send(pkt) => EP!Send(pkt)
    BY DEF Encap!Send, EP!Send, Encap!Padding, EP!Padding, Encap!PacketLen, EP!PacketLen
  <2>5. QED
    BY <2>1, <2>2, <2>3, <2>4 DEF Encap!GetPacket, EP!GetPacket, Encap!DrainOver, EP!DrainOver
<1>11. (Encap!GetPacketFails => EP!GetPacketFails) /\ (Encap!DrainEnds => EP!DrainEnds)
  BY DEF Encap!GetPacketFails, EP!GetPacketFails, Encap!DrainEnds, EP!DrainEnds,
         Encap!DrainOver, EP!DrainOver
<1>12. Encap!Clean => EP!Clean
  BY DEF Encap!Clean, EP!Clean, Encap!OpenAfterClean, EP!OpenAfterClean
<1>13. Encap!TapArrives => EP!TapArrives
  BY DEF Encap!TapArrives, EP!TapArrives
<1>14. QED
  BY <1>1, <1>2, <1>3, <1>4, <1>5, <1>6, <1>7, <1>8, <1>9, <1>10, <1>11, <1>12, <1>13
  DEF Encap!Step, EP!Step

LEMMA DecapSame ==
    /\ (Decap!Init => DP!Init) /\ (Decap!Restart => DP!Restart)
    /\ Decap!Step => DP!Step
<1> USE DEF Decap!Goto, DP!Goto, Decap!Return, DP!Return, Decap!Fails, DP!Fails,
            Decap!stopVars, DP!stopVars, Decap!walkVars, DP!walkVars, Decap!SetAlive,
            DP!SetAlive, Decap!NotReturned, DP!NotReturned, Decap!NoDatagram, DP!NoDatagram,
            Decap!NoContext, DP!NoContext
<1>1. (Decap!Init => DP!Init) /\ (Decap!Restart => DP!Restart)
  BY DEF Decap!Init, DP!Init, Decap!Restart, DP!Restart, Decap!StopInit, DP!StopInit,
         Decap!StopRestart, DP!StopRestart
<1>2. Decap!CheckParams => DP!CheckParams
  BY DEF Decap!CheckParams, DP!CheckParams, Decap!MIN_ENCAP_FRAME_SIZE,
         DP!MIN_ENCAP_FRAME_SIZE
<1>3. Decap!CreateCtxt => DP!CreateCtxt
  BY DEF Decap!CreateCtxt, DP!CreateCtxt, Decap!OpenUdpFailures, DP!OpenUdpFailures
<1>4. /\ (Decap!InstallHandlers => DP!InstallHandlers) /\ (Decap!Arm => DP!Arm)
      /\ (Decap!DeencapInit => DP!DeencapInit)
  BY DEF Decap!InstallHandlers, DP!InstallHandlers, Decap!Arm, DP!Arm, Decap!DeencapInit,
         DP!DeencapInit, Decap!Install, DP!Install
<1>5. (Decap!LoopTest => DP!LoopTest) /\ (Decap!EnterSelect => DP!EnterSelect)
  BY DEF Decap!LoopTest, DP!LoopTest, Decap!EnterSelect, DP!EnterSelect, Decap!Running,
         DP!Running
<1>6. (Decap!SelectReturns => DP!SelectReturns) /\ (Decap!LoopFailed => DP!LoopFailed)
  BY DEF Decap!SelectReturns, DP!SelectReturns, Decap!LoopFailed, DP!LoopFailed,
         Decap!Unblock, DP!Unblock
<1>7. \A pkt : Decap!PacketLen(pkt) = DP!PacketLen(pkt)
  BY DEF Decap!PacketLen, DP!PacketLen
<1>8. \A q, k : Decap!StartOf(q, k) = DP!StartOf(q, k)
  BY DEF Decap!StartOf, DP!StartOf, Decap!PacketLen, DP!PacketLen
<1>9. Decap!ReadDatagram => DP!ReadDatagram
  BY <1>8 DEF Decap!ReadDatagram, DP!ReadDatagram, Decap!FromRemote, DP!FromRemote,
              Decap!DatagramLen, DP!DatagramLen, Decap!LenReceived, DP!LenReceived,
              Decap!Least, DP!Least
<1>10. Decap!InnerTest => DP!InnerTest
  BY DEF Decap!InnerTest, DP!InnerTest, Decap!Running, DP!Running
<1>11. (Decap!VfragFails => DP!VfragFails) /\ (Decap!TooShort => DP!TooShort)
  BY DEF Decap!VfragFails, DP!VfragFails, Decap!TooShort, DP!TooShort, Decap!Left, DP!Left,
         Decap!StaleLength, DP!StaleLength
<1>12. \A k : Decap!HeaderAt(k) => DP!HeaderAt(k)
  BY <1>8 DEF Decap!HeaderAt, DP!HeaderAt, Decap!Left, DP!Left
<1>13. Decap!PaddingFound => DP!PaddingFound
  BY <1>12 DEF Decap!PaddingFound, DP!PaddingFound
<1>14. \A k : Decap!CutPacket(k) => DP!CutPacket(k)
  BY <1>7, <1>12 DEF Decap!CutPacket, DP!CutPacket, Decap!Left, DP!Left
<1>15. \A c, pkt : Decap!Deencap(c, pkt) = DP!Deencap(c, pkt)
  BY DEF Decap!Deencap, DP!Deencap, Decap!IsComplete, DP!IsComplete, Decap!IsStart,
         DP!IsStart, Decap!IsEnd, DP!IsEnd, Decap!Continues, DP!Continues, Decap!Joined,
         DP!Joined
<1>16. \A k : Decap!WholePacket(k) => DP!WholePacket(k)
  BY <1>7, <1>12, <1>15
     DEF Decap!WholePacket, DP!WholePacket, Decap!Left, DP!Left, Decap!WriteTap, DP!WriteTap,
         Decap!Advance, DP!Advance, Decap!AfterPacket, DP!AfterPacket
<1>17. Decap!DecapPacket => DP!DecapPacket
  BY <1>11, <1>13, <1>14, <1>16 DEF Decap!DecapPacket, DP!DecapPacket
<1>18. Decap!Clean => DP!Clean
  BY DEF Decap!Clean, DP!Clean, Decap!OpenAfterClean, DP!OpenAfterClean
<1>19. QED
  BY <1>1, <1>2, <1>3, <1>4, <1>5, <1>6, <1>9, <1>10, <1>17, <1>18 DEF Decap!Step, DP!Step

-----------------------------------------------------------------------------
\* The tunnel as three queues: on the wire, in the socket, and in the hand of
\* process_decap(), whose first packet libgse was not given yet

Datagram == EP!Datagram
hand == DP!Hand

\* Datagrams that carry nothing of a frame.
Void(dg) == dg.src = "other" \/ dg.pkts = <<>>

FrameOf(dg) == [id |-> dg.pkts[1].id, len |-> dg.pkts[1].total]

\* One packet of a frame.
Carries(dg, frames) ==
    dg.src = "remote" /\ Len(dg.pkts) = 1 /\ dg.pkts[1] \in EP!Packet /\ FrameOf(dg) \in frames

\* The datagrams that complete a frame.
Ends == {dg \in Datagram : /\ dg.src = "remote" /\ Len(dg.pkts) = 1
                           /\ dg.pkts[1].to = dg.pkts[1].total}

Known(dg, sent) == Void(dg) \/ \E j \in 1..Len(sent) : sent[j] = dg
AllKnown(q, sent) == \A k \in 1..Len(q) : Known(q[k], sent)

\* Everything under way was sent, and everything written was completed by
\* something that was sent.
Transit ==
    /\ \A f \in accepted : f.len <= BufferLen
    /\ \A j \in 1..Len(net) : Carries(net[j], accepted)
    /\ wire \in Seq(Datagram) /\ copies \in Nat /\ datagram.src = "remote"
    /\ AllKnown(wire, net) /\ AllKnown(sock, net) /\ Known(datagram, net)
    /\ \A k \in 1..Len(tap_d) : \E j \in 1..Len(net) : net[j] \in Ends /\ FrameOf(net[j]) = tap_d[k]

\* The order of what is under way, of which nothing belongs to a frame that was
\* written or to an earlier one.
Before(p, q) == p.id < q.id \/ (p.id = q.id /\ p.to <= q.from)
Turn(x, y) == Void(x) \/ Void(y) \/ Before(x.pkts[1], y.pkts[1])
Within(q) == \A j, k \in 1..Len(q) : j < k => Turn(q[j], q[k])
Ahead(q, r) == \A j \in 1..Len(q) : \A k \in 1..Len(r) : Turn(q[j], r[k])
InLine(h, s, w) == Within(s) /\ Within(w) /\ Ahead(h, s) /\ Ahead(h, w) /\ Ahead(s, w)

Past(f, q) == \A k \in 1..Len(q) : Void(q[k]) \/ f.id < q[k].pkts[1].id
Over(t, h, s, w) == \A k \in 1..Len(t) : Past(t[k], h) /\ Past(t[k], s) /\ Past(t[k], w)

Ordered == ~Reorder => InLine(hand, sock, wire) /\ Over(tap_d, hand, sock, wire)

\* What was written or is about to be completed again was duplicated.
Ended(q) == {FrameOf(q[k]) : k \in Places(q, Ends)}
Frames(t, h, s, w) == Range(t) \union Ended(h) \union Ended(s) \union Ended(w)
Number(t, h, s, w) == Len(t) + Count(h, Ends) + Count(s, Ends) + Count(w, Ends)
Repeated(t, h, s, w, c) == Number(t, h, s, w) <= c + Cardinality(Frames(t, h, s, w))
Counted == Repeated(tap_d, hand, sock, wire, copies)

Processes == EP!TypeInv /\ EP!OrderInv /\ DP!TypeInv /\ DP!WalkInv

-----------------------------------------------------------------------------
\* What a step does to the queues

Accepts ==
    /\ \E f \in EP!Frame : /\ f.len <= BufferLen /\ accepted' = accepted \union {f}
                           /\ \A g \in accepted : g.id < f.id
    /\ UNCHANGED <<net, datagram, hand, sock, wire, tap_d, copies>>

Sends ==
    /\ \E dg \in Datagram : /\ Carries(dg, accepted)
                            /\ net' = Append(net, dg) /\ wire' = Append(wire, dg)
    /\ UNCHANGED <<accepted, datagram, hand, sock, tap_d, copies>>

\* A datagram leaves the wire, for the socket or for good.
Leaves(k) ==
    /\ wire' \in Seq(Datagram) /\ Without(wire, k, wire')
    /\ sock' = sock \/ (sock' = Append(sock, wire[k]) /\ (~Reorder => k = 1))
    /\ UNCHANGED <<net, accepted, datagram, hand, tap_d, copies>>

Copies ==
    /\ Reorder
    /\ \E k \in 1..Len(wire) : sock' \in {sock, Append(sock, wire[k])}
    /\ copies' = copies + 1
    /\ UNCHANGED <<net, accepted, datagram, hand, wire, tap_d>>

Strays ==
    /\ \E dg \in Datagram : Void(dg) /\ sock' \in {sock, Append(sock, dg)}
    /\ UNCHANGED <<net, accepted, datagram, hand, wire, tap_d, copies>>

Reads ==
    /\ hand = <<>> /\ sock # <<>> /\ sock' = Tail(sock) /\ datagram'.src = "remote"
    /\ \/ hand' = <<>> /\ Void(datagram')
       \/ hand' = <<Head(sock)>> /\ datagram' = Head(sock)
    /\ UNCHANGED <<net, accepted, wire, tap_d, copies>>

Drops ==
    /\ hand' \in {hand, <<>>}
    /\ UNCHANGED <<net, accepted, datagram, sock, wire, tap_d, copies>>

Delivers ==
    /\ hand = <<datagram>> /\ hand' = <<>>
    /\ datagram \in Ends /\ ~Void(datagram)
    /\ tap_d' = Append(tap_d, FrameOf(datagram))
    /\ UNCHANGED <<net, accepted, datagram, sock, wire, copies>>

Forgets ==
    /\ hand' = <<>> /\ sock' = <<>> /\ Void(datagram') /\ datagram'.src = "remote"
    /\ UNCHANGED <<net, accepted, wire, tap_d, copies>>

Move ==
    \/ Accepts \/ Sends \/ (\E k \in 1..Len(wire) : Leaves(k)) \/ Copies \/ Strays
    \/ Reads \/ Drops \/ Delivers \/ Forgets

LEMMA SameDatagrams ==
    /\ Datagram = DP!Datagram
    /\ Datagram = [src : {"remote", "other"}, pkts : Seq(EP!Packet), pad : Nat]
    /\ \A pkt \in EP!Packet : /\ pkt.id \in Nat \ {0} /\ pkt.from \in Nat /\ pkt.to \in Nat
                              /\ pkt.total \in Nat /\ pkt.from < pkt.to /\ pkt.to <= pkt.total
BY DEF Datagram, EP!Datagram, DP!Datagram, EP!Packet, DP!Packet

LEMMA ConcatElements ==
    ASSUME NEW T, NEW a \in Seq(T), NEW b \in Seq(T)
    PROVE  /\ a \o b \in Seq(T) /\ Len(a \o b) = Len(a) + Len(b)
           /\ \A i \in 1..Len(a) : (a \o b)[i] = a[i]
           /\ \A i \in 1..Len(b) : (a \o b)[i + Len(a)] = b[i]
<1>1. a \o b \in Seq(T) /\ Len(a) \in Nat /\ Len(b) \in Nat /\ Len(a \o b) = Len(a) + Len(b)
  OBVIOUS
<1>2. \A i \in 1..(Len(a) + Len(b)) : (a \o b)[i] = IF i <= Len(a) THEN a[i] ELSE b[i - Len(a)]
  OBVIOUS
<1>3. \A i \in 1..Len(a) : i \in 1..(Len(a) + Len(b)) /\ i <= Len(a)
  BY <1>1
<1>4. \A i \in 1..Len(b) : /\ i + Len(a) \in 1..(Len(a) + Len(b)) /\ ~(i + Len(a) <= Len(a))
                           /\ (i + Len(a)) - Len(a) = i
  BY <1>1
<1>5. QED
  BY <1>1, <1>2, <1>3, <1>4

LEMMA RemoveElements ==
    ASSUME NEW T, NEW q \in Seq(T), NEW k \in 1..Len(q)
    PROVE  RemoveAt(q, k) \in Seq(T) /\ Without(q, k, RemoveAt(q, k))
<1> DEFINE a == SubSeq(q, 1, k - 1)
           b == SubSeq(q, k + 1, Len(q))
<1>1. RemoveAt(q, k) = a \o b
  BY DEF RemoveAt
<1>2. Len(q) \in Nat /\ k \in Nat /\ 1 <= k /\ k <= Len(q)
  OBVIOUS
<1>4. a \in Seq(T) /\ Len(a) = k - 1 /\ \A i \in 1..(k - 1) : a[i] = q[i]
  BY <1>2
<1>5. b \in Seq(T) /\ Len(b) = Len(q) - k /\ \A i \in 1..(Len(q) - k) : b[i] = q[i + k]
  BY <1>2
<1> HIDE DEF a, b
<1>6. /\ a \o b \in Seq(T) /\ Len(a \o b) = Len(a) + Len(b)
      /\ \A i \in 1..Len(a) : (a \o b)[i] = a[i]
      /\ \A i \in 1..Len(b) : (a \o b)[i + Len(a)] = b[i]
  <2>1. a \in Seq(T) /\ b \in Seq(T)
    BY <1>4, <1>5
  <2>2. QED
    BY <2>1, ConcatElements
<1>7. ASSUME NEW i \in 1..(Len(q) - 1)
      PROVE  (a \o b)[i] = q[IF i < k THEN i ELSE i + 1]
  <2>1. CASE i < k
    <3>1. i \in 1..(k - 1)
      BY <1>2, <2>1
    <3>2. QED
      BY <1>4, <1>6, <2>1, <3>1
  <2>2. CASE ~(i < k)
    <3>1. PICK j \in 1..(Len(q) - k) : i = j + (k - 1) /\ i + 1 = j + k
      <4>1. /\ i - (k - 1) \in 1..(Len(q) - k)
            /\ i = (i - (k - 1)) + (k - 1) /\ i + 1 = (i - (k - 1)) + k
        BY <1>2, <2>2
      <4>2. QED
        BY <4>1
    <3>2. (a \o b)[i] = b[j]
      BY <1>4, <1>5, <1>6, <3>1
    <3>3. QED
      BY <1>5, <2>2, <3>1, <3>2
  <2>3. QED
    BY <2>1, <2>2
<1>8. Len(a \o b) = Len(q) - 1
  BY <1>2, <1>4, <1>5, <1>6
<1>9. QED
  BY <1>1, <1>6, <1>7, <1>8 DEF Without

\* What a step adds to the network goes on the wire.
LEMMA WireKept ==
    ASSUME NEW T, NEW q \in Seq(T), NEW r \in Seq(T)
    PROVE  r \o SubSeq(q, Len(q) + 1, Len(q)) = r
<1>1. Len(q) \in Nat
  OBVIOUS
<1>2. SubSeq(q, Len(q) + 1, Len(q)) = <<>>
  BY <1>1
<1>3. r \o <<>> = r
  OBVIOUS
<1>4. QED
  BY <1>2, <1>3

LEMMA OneElement ==
    ASSUME NEW T, NEW s \in Seq(T), Len(s) = 1
    PROVE  s = <<s[1]>>
<1>1. DOMAIN s = {1} /\ s = [i \in DOMAIN s |-> s[i]]
  OBVIOUS
<1>2. \A y : DOMAIN <<y>> = {1} /\ <<y>>[1] = y /\ <<y>> = [i \in DOMAIN <<y>> |-> <<y>>[i]]
  OBVIOUS
<1>3. QED
  BY <1>1, <1>2

LEMMA WireGrows ==
    ASSUME NEW T, NEW q \in Seq(T), NEW r \in Seq(T), NEW x \in T
    PROVE  r \o SubSeq(Append(q, x), Len(q) + 1, Len(Append(q, x))) = Append(r, x)
<1>1. Len(q) \in Nat
  OBVIOUS
<1>4. /\ Append(q, x) \in Seq(T) /\ Len(Append(q, x)) = Len(q) + 1
      /\ Append(q, x)[Len(q) + 1] = x
  BY AppendElements
<1>5. PICK p \in Seq(T) : p = Append(q, x)
  BY <1>4
<1>6. PICK m \in Nat : m = Len(q) + 1
  BY <1>1
<1>7. SubSeq(p, m, m) = <<p[m]>>
  <2>1. Len(p) = m /\ m \in 1..Len(p)
    BY <1>1, <1>4, <1>5, <1>6
  <2>2. /\ SubSeq(p, m, m) \in Seq(T) /\ Len(SubSeq(p, m, m)) = 1
        /\ SubSeq(p, m, m)[1] = p[m]
    BY <2>1
  <2>3. QED
    BY <2>2, OneElement
<1>8. r \o <<x>> = Append(r, x)
  OBVIOUS
<1>9. QED
  BY <1>4, <1>5, <1>6, <1>7, <1>8

-----------------------------------------------------------------------------
\* Every step is such a move

LEMMA EncapKept ==
    ASSUME EP!TypeInv, EP!OrderInv, UNCHANGED encapVars
    PROVE  EP!TypeInv' /\ EP!OrderInv'
<1>1. UNCHANGED EP!vars
  BY DEF encapVars, EP!vars, EP!stopVars, EP!ioVars
<1>2. QED
  BY <1>1, EncapAssumed, EP!NextType, EP!NextOrder

LEMMA DecapKept ==
    ASSUME DP!TypeInv, DP!WalkInv, UNCHANGED <<decapVars, sock>>
    PROVE  DP!TypeInv' /\ DP!WalkInv'
<1>1. UNCHANGED DP!vars
  BY DEF decapVars, DP!vars, DP!stopVars, DP!walkVars
<1>2. QED
  BY <1>1, DecapAssumed, DP!NextType, DP!NextWalk DEF DP!WalkInv

LEMMA HandKept == ASSUME UNCHANGED decapVars PROVE hand' = hand /\ UNCHANGED <<datagram, tap_d>>
BY DEF decapVars, hand, DP!Hand, DP!Inner

LEMMA SockFilled ==
    ASSUME DP!TypeInv, DP!WalkInv, NEW dg \in Datagram, sock' = Append(sock, dg),
           UNCHANGED decapVars
    PROVE  DP!TypeInv' /\ DP!WalkInv'
<1>1. dg \in DP!Datagram
  BY SameDatagrams
<1>2. /\ UNCHANGED <<DP!stopVars, pc_d, status_d, fds_d, arrived_d, DP!walkVars>>
  BY DEF decapVars, DP!stopVars, DP!walkVars
<1>3. QED
  BY <1>1, <1>2, DecapAssumed, DP!SockGrows

LEMMA EncapMoves ==
    ASSUME Processes, Transit, EncapStep
    PROVE  Processes' /\ Move
<1>1. /\ EP!Step /\ UNCHANGED <<decapVars, sock, copies>>
      /\ wire' = wire \o SubSeq(net', Len(net) + 1, Len(net'))
  BY EncapSame DEF EncapStep, incidentVars
<1>2. EP!TypeInv' /\ EP!OrderInv'
  BY <1>1, EncapAssumed, EP!NextType, EP!NextOrder DEF Processes, EP!Next
<1>3. DP!TypeInv' /\ DP!WalkInv' /\ hand' = hand /\ UNCHANGED <<datagram, tap_d>>
  BY <1>1, DecapKept, HandKept DEF Processes
<1>4. net \in Seq(Datagram) /\ wire \in Seq(Datagram)
  BY DEF Processes, Transit, EP!TypeInv, EP!TypeOK, Datagram
<1>5. \/ net' = net /\ accepted' = accepted
      \/ /\ net' = net
         /\ \E f \in EP!Frame : /\ f.len <= BufferLen
                                /\ accepted' = accepted \union {f}
                                /\ \A g \in accepted : g.id < f.id
      \/ /\ accepted' = accepted
         /\ \E dg \in EP!Datagram :
              /\ net' = Append(net, dg)
              /\ dg.src = "remote" /\ Len(dg.pkts) = 1 /\ dg.pkts[1] \in EP!Packet
              /\ [id |-> dg.pkts[1].id, len |-> dg.pkts[1].total] \in accepted
  BY <1>1, EncapAssumed, EP!StepShape DEF Processes
<1>6. CASE net' = net /\ accepted' = accepted
  <2>1. wire' = wire
    BY <1>1, <1>4, <1>6, WireKept
  <2>2. Drops
    BY <1>1, <1>3, <1>6, <2>1 DEF Drops
  <2>3. QED
    BY <1>2, <1>3, <2>2 DEF Processes, Move
<1>7. CASE /\ net' = net
           /\ \E f \in EP!Frame : /\ f.len <= BufferLen
                                  /\ accepted' = accepted \union {f}
                                  /\ \A g \in accepted : g.id < f.id
  <2>1. wire' = wire
    BY <1>1, <1>4, <1>7, WireKept
  <2>2. Accepts
    BY <1>1, <1>3, <1>7, <2>1 DEF Accepts
  <2>3. QED
    BY <1>2, <1>3, <2>2 DEF Processes, Move
<1>8. ASSUME NEW dg \in EP!Datagram, accepted' = accepted, net' = Append(net, dg),
             dg.src = "remote", Len(dg.pkts) = 1, dg.pkts[1] \in EP!Packet,
             [id |-> dg.pkts[1].id, len |-> dg.pkts[1].total] \in accepted
      PROVE  Processes' /\ Move
  <2>1. dg \in Datagram
    BY DEF Datagram
  <2>2. wire' = Append(wire, dg)
    BY <1>1, <1>4, <1>8, <2>1, WireGrows
  <2>3. Carries(dg, accepted)
    BY <1>8 DEF Carries, FrameOf
  <2>4. Sends
    BY <1>1, <1>3, <1>8, <2>1, <2>2, <2>3 DEF Sends
  <2>5. QED
    BY <1>2, <1>3, <2>4 DEF Processes, Move
<1>9. QED
  BY <1>5, <1>6, <1>7, <1>8

LEMMA DecapMoves ==
    ASSUME Processes, Transit, DecapStep
    PROVE  Processes' /\ Move
<1>1. DP!Step /\ UNCHANGED <<encapVars, wire, copies>>
  BY DecapSame DEF DecapStep, incidentVars
<1>2. DP!TypeInv' /\ DP!WalkInv'
  BY <1>1, DecapAssumed, DP!NextType, DP!NextWalk DEF Processes, DP!Next, DP!WalkInv
<1>3. EP!TypeInv' /\ EP!OrderInv' /\ UNCHANGED <<net, accepted>>
  BY <1>1, EncapKept DEF Processes, encapVars
<1>4. Processes' /\ UNCHANGED <<net, accepted, wire, copies>>
  BY <1>1, <1>2, <1>3 DEF Processes
<1>5. datagram \in Datagram /\ datagram.src = "remote" /\ datagram.pkts \in Seq(EP!Packet)
  BY SameDatagrams DEF Processes, Transit, DP!TypeInv, DP!TypeOK
<1>6. Len(DP!pkts) <= 1
  <2>1. CASE Void(datagram)
    BY <1>5, <2>1 DEF Void, DP!pkts
  <2>2. CASE \E j \in 1..Len(net) : net[j] = datagram
    <3>1. Carries(datagram, accepted)
      BY <2>2 DEF Transit
    <3>2. QED
      BY <3>1 DEF Carries, DP!pkts
  <2>3. QED
    BY <2>1, <2>2 DEF Transit, Known
<1>7. \/ UNCHANGED <<datagram, sock, tap_d>> /\ hand' \in {hand, <<>>}
      \/ /\ hand = <<>> /\ sock # <<>> /\ sock' = Tail(sock) /\ tap_d' = tap_d
         /\ \/ hand' = <<>> /\ datagram' = DP!NoDatagram
            \/ /\ hand' = <<Head(sock)>> /\ datagram' = Head(sock)
               /\ Head(sock).src = "remote"
      \/ /\ hand = <<datagram>> /\ hand' = <<>> /\ UNCHANGED <<datagram, sock>>
         /\ Len(DP!pkts) = 1 /\ DP!pkts[1] \in DP!Packet /\ DP!IsEnd(DP!pkts[1])
         /\ tap_d' = Append(tap_d, [id |-> DP!pkts[1].id, len |-> DP!pkts[1].total])
  BY <1>1, <1>6, DecapAssumed, DP!StepShape DEF Processes, hand
<1>8. CASE UNCHANGED <<datagram, sock, tap_d>> /\ hand' \in {hand, <<>>}
  BY <1>4, <1>8 DEF Drops, Move
<1>9. CASE /\ hand = <<>> /\ sock # <<>> /\ sock' = Tail(sock) /\ tap_d' = tap_d
           /\ \/ hand' = <<>> /\ datagram' = DP!NoDatagram
              \/ /\ hand' = <<Head(sock)>> /\ datagram' = Head(sock)
                 /\ Head(sock).src = "remote"
  BY <1>4, <1>9 DEF Reads, Move, Void, DP!NoDatagram
<1>10. CASE /\ hand = <<datagram>> /\ hand' = <<>> /\ UNCHANGED <<datagram, sock>>
            /\ Len(DP!pkts) = 1 /\ DP!pkts[1] \in DP!Packet /\ DP!IsEnd(DP!pkts[1])
            /\ tap_d' = Append(tap_d, [id |-> DP!pkts[1].id, len |-> DP!pkts[1].total])
  <2>1. Len(datagram.pkts) = 1 /\ datagram.pkts[1].to = datagram.pkts[1].total
    BY <1>10 DEF DP!pkts, DP!IsEnd
  <2>2. datagram \in Ends
    BY <1>5, <2>1 DEF Ends
  <2>3. ~Void(datagram)
    BY <1>5, <2>1 DEF Void
  <2>4. tap_d' = Append(tap_d, FrameOf(datagram))
    BY <1>10 DEF FrameOf, DP!pkts
  <2>5. QED
    BY <1>4, <1>10, <2>2, <2>3, <2>4 DEF Delivers, Move
<1>11. QED
  BY <1>7, <1>8, <1>9, <1>10

LEMMA RestartMoves ==
    ASSUME Processes, Transit, RestartEncap \/ RestartDecap \/ FrameArrives
    PROVE  Processes' /\ Move
<1>1. CASE RestartEncap \/ FrameArrives
  <2>1. UNCHANGED <<decapVars, sock, wire, copies>>
    BY <1>1 DEF RestartEncap, FrameArrives, Incident, incidentVars
  <2>2. EP!TypeInv' /\ EP!OrderInv' /\ UNCHANGED <<net, accepted>>
    <3>1. CASE EP!Restart
      BY <3>1, EncapRestarts DEF Processes, EP!Restart
    <3>2. CASE EP!TapArrives
      BY <3>2, EncapAssumed, EP!NextType, EP!NextOrder
         DEF Processes, EP!Next, EP!TapArrives, EP!ioVars
    <3>3. QED
      BY <1>1, <3>1, <3>2, EncapSame DEF RestartEncap, FrameArrives
  <2>3. DP!TypeInv' /\ DP!WalkInv' /\ hand' = hand /\ UNCHANGED <<datagram, tap_d>>
    BY <2>1, DecapKept, HandKept DEF Processes
  <2>4. Drops
    BY <2>1, <2>2, <2>3 DEF Drops
  <2>5. QED
    BY <2>2, <2>3, <2>4 DEF Processes, Move
<1>2. CASE RestartDecap
  <2>1. DP!Restart /\ UNCHANGED <<encapVars, wire, copies>>
    BY <1>2, DecapSame DEF RestartDecap, Incident
  <2>2. EP!TypeInv' /\ EP!OrderInv' /\ UNCHANGED <<net, accepted>>
    BY <2>1, EncapKept DEF Processes, encapVars
  <2>3. DP!TypeInv' /\ DP!WalkInv'
    BY <2>1, DecapAssumed, DP!RestartKeeps DEF Processes
  <2>4. /\ hand' = <<>> /\ sock' = <<>> /\ tap_d' = tap_d
        /\ datagram'.src = "remote" /\ Void(datagram')
    BY <2>1 DEF DP!Restart, hand, DP!Hand, DP!Inner, DP!NoDatagram, Void
  <2>5. Forgets
    BY <2>1, <2>2, <2>4 DEF Forgets
  <2>6. QED
    BY <2>2, <2>3, <2>5 DEF Processes, Move
<1>3. QED
  BY <1>1, <1>2

LEMMA NetworkMoves ==
    ASSUME Processes, Transit, Carry \/ Lose \/ Copy \/ Stray
    PROVE  Processes' /\ Move
<1>1. UNCHANGED <<encapVars, decapVars>>
  BY DEF Carry, Lose, Copy, Stray
<1>2. EP!TypeInv' /\ EP!OrderInv' /\ UNCHANGED <<net, accepted>>
  BY <1>1, EncapKept DEF Processes, encapVars
<1>3. hand' = hand /\ UNCHANGED <<datagram, tap_d>>
  BY <1>1, HandKept
<1>4. ASSUME sock' = sock \/ \E dg \in Datagram : sock' = Append(sock, dg)
      PROVE  Processes'
  BY <1>1, <1>2, <1>4, DecapKept, SockFilled DEF Processes
<1>5. wire \in Seq(Datagram)
  BY DEF Transit
<1>6. \A k \in Reachable : k \in 1..Len(wire) /\ wire[k] \in Datagram /\ (~Reorder => k = 1)
  BY <1>5 DEF Reachable
<1>7. ASSUME NEW k \in Reachable, wire' = RemoveAt(wire, k), copies' = copies,
             sock' = sock \/ sock' = Append(sock, wire[k])
      PROVE  Processes' /\ Move
  <2>1. wire' \in Seq(Datagram) /\ Without(wire, k, wire')
    BY <1>5, <1>6, <1>7, RemoveElements
  <2>2. Leaves(k) /\ k \in 1..Len(wire)
    BY <1>2, <1>3, <1>6, <1>7, <2>1 DEF Leaves
  <2>3. Processes'
    BY <1>4, <1>6, <1>7
  <2>4. QED
    BY <2>2, <2>3 DEF Move
<1>8. CASE Carry \/ Lose
  <2>1. PICK k \in Reachable : /\ wire' = RemoveAt(wire, k) /\ copies' = copies
                               /\ sock' = sock \/ sock' = Append(sock, wire[k])
    BY <1>8 DEF Carry, Lose, Received, Incident, incidentVars
  <2>2. QED
    BY <1>7, <2>1
<1>9. CASE Copy
  <2>1. Reorder /\ copies' = copies + 1 /\ wire' = wire
    BY <1>9, CTunnelAssumption DEF CTunnelAssumption, Copy, Incident
  <2>2. PICK k \in Reachable : sock' = sock \/ sock' = Append(sock, wire[k])
    BY <1>9 DEF Copy, Received
  <2>3. Processes'
    BY <1>4, <1>6, <2>2
  <2>4. Copies
    BY <1>2, <1>3, <1>6, <2>1, <2>2 DEF Copies
  <2>5. QED
    BY <2>3, <2>4 DEF Move
<1>10. CASE Stray
  <2> DEFINE pkt == [id |-> MaxFrames + 1, from |-> 0, to |-> 1, total |-> 1]
             dg == [src |-> "other", pad |-> 0, pkts |-> <<pkt>>]
  <2>1. copies' = copies /\ wire' = wire /\ (sock' = sock \/ sock' = Append(sock, dg))
    BY <1>10 DEF Stray, Received, Incident
  <2>2. pkt \in EP!Packet
    BY CTunnelAssumption DEF CTunnelAssumption, EP!Packet
  <2>3. dg \in Datagram /\ Void(dg)
    <3> HIDE DEF pkt
    <3>1. <<pkt>> \in Seq(EP!Packet)
      BY <2>2
    <3>2. QED
      BY <3>1, SameDatagrams DEF Void
  <2> HIDE DEF dg
  <2>4. Processes'
    BY <1>4, <2>1, <2>3
  <2>5. Strays
    BY <1>2, <1>3, <2>1, <2>3 DEF Strays
  <2>6. QED
    BY <2>4, <2>5 DEF Move
<1>11. QED
  BY <1>8, <1>9, <1>10

LEMMA Moves ==
    ASSUME Processes, Transit, [Next]_vars
    PROVE  Processes' /\ Move
<1>1. CASE UNCHANGED vars
  <2>1. UNCHANGED <<encapVars, decapVars, sock, wire, copies>>
    BY <1>1 DEF vars, incidentVars
  <2>2. Processes' /\ hand' = hand /\ UNCHANGED <<datagram, tap_d>>
    BY <2>1, EncapKept, DecapKept, HandKept DEF Processes
  <2>3. Drops
    BY <2>1, <2>2 DEF Drops, encapVars
  <2>4. QED
    BY <2>2, <2>3 DEF Move
<1>2. QED
  BY <1>1, EncapMoves, DecapMoves, RestartMoves, NetworkMoves DEF Next

-----------------------------------------------------------------------------
\* Nothing is invented on the way

\* What a datagram completes.
LEMMA EndFrame ==
    ASSUME NEW dg \in Ends
    PROVE  /\ FrameOf(dg) \in DP!PduOut /\ dg \in Datagram
           /\ dg.pkts[1] \in EP!Packet /\ ~Void(dg)
           /\ FrameOf(dg).id = dg.pkts[1].id /\ FrameOf(dg).len = dg.pkts[1].total
           /\ dg.pkts[1].to = dg.pkts[1].total
<1>1. /\ dg \in Datagram /\ dg.src = "remote" /\ Len(dg.pkts) = 1
      /\ dg.pkts[1].to = dg.pkts[1].total
  BY DEF Ends
<1>2. dg.pkts \in Seq(EP!Packet)
  BY <1>1, SameDatagrams
<1>3. dg.pkts[1] \in EP!Packet
  BY <1>1, <1>2
<1>4. dg.pkts[1].id \in Nat \ {0} /\ dg.pkts[1].total \in Nat \ {0}
  BY <1>3, SameDatagrams
<1>5. QED
  BY <1>1, <1>3, <1>4 DEF FrameOf, DP!PduOut, Void

LEMMA KnownLonger ==
    ASSUME NEW sent \in Seq(Datagram), NEW dg \in Datagram
    PROVE  /\ \A x : Known(x, sent) => Known(x, Append(sent, dg))
           /\ Known(dg, Append(sent, dg))
<1>1. /\ Len(Append(sent, dg)) = Len(sent) + 1 /\ Append(sent, dg)[Len(sent) + 1] = dg
      /\ \A k \in 1..Len(sent) : Append(sent, dg)[k] = sent[k]
      /\ Len(sent) \in Nat
  BY AppendElements
<1>2. \A k \in 1..Len(sent) : k \in 1..(Len(sent) + 1)
  BY <1>1
<1>3. Len(sent) + 1 \in 1..(Len(sent) + 1)
  BY <1>1
<1>4. QED
  BY <1>1, <1>2, <1>3 DEF Known

LEMMA AllKnownAppend ==
    ASSUME NEW q \in Seq(Datagram), NEW dg \in Datagram, NEW sent,
           AllKnown(q, sent), Known(dg, sent)
    PROVE  AllKnown(Append(q, dg), sent)
BY AppendElements DEF AllKnown

LEMMA AllKnownWithout ==
    ASSUME NEW q \in Seq(Datagram), NEW n \in 1..Len(q), NEW r \in Seq(Datagram),
           Without(q, n, r), NEW sent, AllKnown(q, sent)
    PROVE  AllKnown(r, sent)
<1>1. \A k \in 1..Len(r) : r[k] = q[IF k < n THEN k ELSE k + 1]
                           /\ (IF k < n THEN k ELSE k + 1) \in 1..Len(q)
  BY DEF Without
<1>2. QED
  BY <1>1 DEF AllKnown

LEMMA TransitKept ==
    ASSUME Processes, Transit, Move
    PROVE  Transit'
<1>1. /\ net \in Seq(Datagram) /\ wire \in Seq(Datagram) /\ sock \in Seq(Datagram)
      /\ tap_d \in Seq(DP!PduOut) /\ copies \in Nat
  BY SameDatagrams
     DEF Processes, Transit, EP!TypeInv, EP!TypeOK, DP!TypeInv, DP!TypeOK, Datagram
<1>2. CASE Accepts
  BY <1>2 DEF Accepts, Transit, Carries
<1>3. CASE Sends
  <2>1. PICK dg \in Datagram : /\ Carries(dg, accepted)
                               /\ net' = Append(net, dg) /\ wire' = Append(wire, dg)
    BY <1>3 DEF Sends
  <2>2. UNCHANGED <<accepted, datagram, sock, tap_d, copies>>
    BY <1>3 DEF Sends
  <2>3. \A x : Known(x, net) => Known(x, net')
    BY <1>1, <2>1, KnownLonger
  <2>4. Known(dg, net')
    BY <1>1, <2>1, KnownLonger
  <2>5. /\ Len(net') = Len(net) + 1 /\ net'[Len(net) + 1] = dg
        /\ \A k \in 1..Len(net) : net'[k] = net[k]
        /\ \A k \in 1..(Len(net) + 1) : k \in 1..Len(net) \/ k = Len(net) + 1
        /\ Len(net) \in Nat
    BY <1>1, <2>1, AppendElements
  <2>6. \A j \in 1..Len(net') : Carries(net'[j], accepted')
    BY <2>1, <2>2, <2>5 DEF Transit
  <2>7. AllKnown(wire, net')
    BY <2>3 DEF Transit, AllKnown
  <2>8. AllKnown(wire', net')
    BY <1>1, <2>1, <2>4, <2>7, AllKnownAppend
  <2>9. AllKnown(sock', net') /\ Known(datagram', net')
    BY <2>2, <2>3 DEF Transit, AllKnown
  <2>10. \A k \in 1..Len(tap_d') :
           \E j \in 1..Len(net') : net'[j] \in Ends /\ FrameOf(net'[j]) = tap_d'[k]
    <3>1. SUFFICES ASSUME NEW k \in 1..Len(tap_d)
                   PROVE  \E j \in 1..Len(net') : net'[j] \in Ends /\ FrameOf(net'[j]) = tap_d[k]
      BY <2>2
    <3>2. PICK j \in 1..Len(net) : net[j] \in Ends /\ FrameOf(net[j]) = tap_d[k]
      BY DEF Transit
    <3>3. j \in 1..Len(net') /\ net'[j] = net[j]
      BY <2>5
    <3>4. QED
      BY <3>2, <3>3
  <2>11. wire' \in Seq(Datagram)
    BY <1>1, <2>1, AppendElements
  <2>12. QED
    BY <1>1, <2>2, <2>6, <2>8, <2>9, <2>10, <2>11 DEF Transit
<1>4. ASSUME NEW k \in 1..Len(wire), Leaves(k) PROVE Transit'
  <2>1. UNCHANGED <<net, accepted, datagram, tap_d, copies>>
        /\ wire' \in Seq(Datagram) /\ Without(wire, k, wire')
        /\ (sock' = sock \/ sock' = Append(sock, wire[k]))
    BY <1>4 DEF Leaves
  <2>2. AllKnown(wire', net)
    BY <1>1, <2>1, AllKnownWithout DEF Transit
  <2>3. AllKnown(sock', net)
    <3>1. wire[k] \in Datagram /\ Known(wire[k], net)
      BY <1>1 DEF Transit, AllKnown
    <3>2. QED
      BY <1>1, <2>1, <3>1, AllKnownAppend DEF Transit
  <2>4. QED
    BY <1>1, <2>1, <2>2, <2>3 DEF Transit
<1>5. CASE Copies \/ Strays
  <2>1. /\ UNCHANGED <<net, accepted, datagram, wire, tap_d>> /\ copies' \in Nat
        /\ sock' = sock \/ \E dg \in Datagram : Known(dg, net) /\ sock' = Append(sock, dg)
    <3>1. \A j \in 1..Len(wire) : wire[j] \in Datagram /\ Known(wire[j], net)
      BY <1>1 DEF Transit, AllKnown
    <3>2. QED
      BY <1>1, <1>5, <3>1 DEF Copies, Strays, Known
  <2>2. AllKnown(sock', net)
    BY <1>1, <2>1, AllKnownAppend DEF Transit
  <2>3. QED
    BY <2>1, <2>2 DEF Transit
<1>6. CASE Reads
  <2>1. /\ UNCHANGED <<net, accepted, wire, tap_d, copies>>
        /\ sock # <<>> /\ sock' = Tail(sock) /\ datagram'.src = "remote"
        /\ Void(datagram') \/ datagram' = Head(sock)
    BY <1>6 DEF Reads
  <2>2. /\ sock' \in Seq(Datagram) /\ 1 \in 1..Len(sock) /\ Head(sock) = sock[1]
        /\ Without(sock, 1, sock')
    BY <1>1, <2>1, TailWithout
  <2>3. AllKnown(sock', net)
    BY <1>1, <2>2, AllKnownWithout DEF Transit
  <2>4. Known(datagram', net)
    <3>1. Known(sock[1], net)
      BY <2>2 DEF Transit, AllKnown
    <3>2. CASE Void(datagram')
      BY <3>2 DEF Known
    <3>3. CASE datagram' = Head(sock)
      BY <2>2, <3>1, <3>3
    <3>4. QED
      BY <2>1, <3>2, <3>3
  <2>5. QED
    BY <2>1, <2>3, <2>4 DEF Transit
<1>7. CASE Drops
  BY <1>7 DEF Drops, Transit
<1>8. CASE Delivers
  <2>1. /\ UNCHANGED <<net, accepted, datagram, sock, wire, copies>>
        /\ datagram \in Ends /\ ~Void(datagram) /\ tap_d' = Append(tap_d, FrameOf(datagram))
    BY <1>8 DEF Delivers
  <2>2. PICK j \in 1..Len(net) : net[j] = datagram
    BY <2>1 DEF Transit, Known
  <2>3. /\ Len(tap_d') = Len(tap_d) + 1 /\ tap_d'[Len(tap_d) + 1] = FrameOf(datagram)
        /\ \A k \in 1..Len(tap_d) : tap_d'[k] = tap_d[k]
        /\ \A k \in 1..(Len(tap_d) + 1) : k \in 1..Len(tap_d) \/ k = Len(tap_d) + 1
    <3>1. FrameOf(datagram) \in DP!PduOut
      BY <2>1, SameDatagrams, EndFrame
    <3>2. QED
      BY <1>1, <2>1, <3>1, AppendElements
  <2>4. \A k \in 1..Len(tap_d') :
           \E i \in 1..Len(net) : net[i] \in Ends /\ FrameOf(net[i]) = tap_d'[k]
    BY <2>1, <2>2, <2>3 DEF Transit
  <2>5. QED
    BY <2>1, <2>4 DEF Transit
<1>9. CASE Forgets
  BY <1>9 DEF Forgets, Transit, AllKnown, Known
<1>10. QED
  BY <1>2, <1>3, <1>4, <1>5, <1>6, <1>7, <1>8, <1>9 DEF Move

-----------------------------------------------------------------------------
\* The order is kept

LEMMA TurnsAppend ==
    ASSUME NEW q \in Seq(Datagram), NEW x \in Datagram
    PROVE  /\ Within(q) /\ (\A j \in 1..Len(q) : Turn(q[j], x)) => Within(Append(q, x))
           /\ \A r : Ahead(r, q) /\ (\A j \in 1..Len(r) : Turn(r[j], x))
                       => Ahead(r, Append(q, x))
           /\ \A r : Ahead(q, r) /\ (\A j \in 1..Len(r) : Turn(x, r[j]))
                       => Ahead(Append(q, x), r)
           /\ \A f : Past(f, q) /\ (Void(x) \/ f.id < x.pkts[1].id) => Past(f, Append(q, x))
<1>1. /\ Len(Append(q, x)) = Len(q) + 1 /\ Append(q, x)[Len(q) + 1] = x
      /\ \A k \in 1..Len(q) : Append(q, x)[k] = q[k]
      /\ \A k \in 1..(Len(q) + 1) : k \in 1..Len(q) \/ k = Len(q) + 1
  BY AppendElements
<1>2. \A j, k \in 1..(Len(q) + 1) : j < k => j \in 1..Len(q)
  OBVIOUS
<1>3. ASSUME Within(q), \A j \in 1..Len(q) : Turn(q[j], x)
      PROVE  Within(Append(q, x))
  BY <1>1, <1>2, <1>3 DEF Within
<1>4. ASSUME NEW r, Ahead(r, q), \A j \in 1..Len(r) : Turn(r[j], x)
      PROVE  Ahead(r, Append(q, x))
  BY <1>1, <1>4 DEF Ahead
<1>5. ASSUME NEW r, Ahead(q, r), \A j \in 1..Len(r) : Turn(x, r[j])
      PROVE  Ahead(Append(q, x), r)
  BY <1>1, <1>5 DEF Ahead
<1>6. ASSUME NEW f, Past(f, q), Void(x) \/ f.id < x.pkts[1].id
      PROVE  Past(f, Append(q, x))
  BY <1>1, <1>6 DEF Past
<1>7. QED
  BY <1>3, <1>4, <1>5, <1>6

LEMMA TurnsWithout ==
    ASSUME NEW q \in Seq(Datagram), NEW n \in 1..Len(q), NEW r \in Seq(Datagram),
           Without(q, n, r)
    PROVE  /\ Within(q) => Within(r)
           /\ \A s : (Ahead(s, q) => Ahead(s, r)) /\ (Ahead(q, s) => Ahead(r, s))
           /\ \A f : Past(f, q) => Past(f, r)
<1> DEFINE old(k) == IF k < n THEN k ELSE k + 1
<1>1. \A k \in 1..Len(r) : r[k] = q[old(k)] /\ old(k) \in 1..Len(q)
  BY DEF Without
<1>2. \A j, k \in 1..Len(r) : j < k => old(j) < old(k)
  OBVIOUS
<1> HIDE DEF old
<1>3. QED
  BY <1>1, <1>2 DEF Within, Ahead, Past

LEMMA TurnsShort ==
    /\ Within(<<>>)
    /\ \A q : Ahead(<<>>, q) /\ Ahead(q, <<>>)
    /\ \A x, q : (\A j \in 1..Len(q) : Turn(x, q[j])) => Ahead(<<x>>, q)
    /\ \A f : Past(f, <<>>)
    /\ \A f, x : (Void(x) \/ f.id < x.pkts[1].id) => Past(f, <<x>>)
<1>1. 1..Len(<<>>) = {}
  OBVIOUS
<1>2. \A x : 1..Len(<<x>>) = {1} /\ <<x>>[1] = x
  OBVIOUS
<1>3. QED
  BY <1>1, <1>2 DEF Within, Ahead, Past

\* What comes after the end of a frame belongs to a later one.
LEMMA EndBefore ==
    ASSUME Processes, NEW x \in Ends, NEW y, Carries(x, accepted), Carries(y, accepted),
           Before(x.pkts[1], y.pkts[1])
    PROVE  FrameOf(x).id < y.pkts[1].id
<1>1. /\ x.pkts[1].to = x.pkts[1].total /\ x.pkts[1] \in EP!Packet
      /\ FrameOf(x).id = x.pkts[1].id /\ FrameOf(x).len = x.pkts[1].total
  BY EndFrame
<1>2. /\ y.pkts[1] \in EP!Packet /\ FrameOf(y).id = y.pkts[1].id
      /\ FrameOf(y).len = y.pkts[1].total
  BY DEF Carries, FrameOf
<1>3. y.pkts[1].id = x.pkts[1].id => y.pkts[1].total = x.pkts[1].total
  BY <1>1, <1>2 DEF Processes, EP!OrderInv, EP!FramesInOrder, Carries
<1>4. QED
  BY <1>1, <1>2, <1>3, SameDatagrams DEF Before

LEMMA KnownCarries ==
    ASSUME Transit, NEW dg, Known(dg, net), ~Void(dg)
    PROVE  Carries(dg, accepted)
BY DEF Transit, Known

\* A packet that is sent comes after all that are under way, and its frame
\* after all that were written.
LEMMA SentLast ==
    ASSUME Processes, Processes', Transit, NEW dg \in Datagram, Carries(dg, accepted),
           net' = Append(net, dg)
    PROVE  /\ \A x : Known(x, net) => Turn(x, dg)
           /\ \A k \in 1..Len(tap_d) : tap_d[k].id < dg.pkts[1].id
<1>1. net \in Seq(Datagram)
  BY DEF Processes, EP!TypeInv, EP!TypeOK, Datagram
<1>2. /\ Len(net') = Len(net) + 1 /\ net'[Len(net) + 1] = dg
      /\ \A k \in 1..Len(net) : net'[k] = net[k]
      /\ net' \in Seq(Datagram) /\ Len(net) \in Nat
  BY <1>1, AppendElements
<1>3. \A j \in 1..Len(net) : Before(net[j].pkts[1], dg.pkts[1])
  <2>1. SUFFICES ASSUME NEW j \in 1..Len(net) PROVE Before(net[j].pkts[1], dg.pkts[1])
    OBVIOUS
  <2>2. EP!InOrder'
    BY DEF Processes, EP!OrderInv
  <2>3. j \in DOMAIN net' /\ Len(net) + 1 \in DOMAIN net' /\ j < Len(net) + 1
    BY <1>2
  <2>4. Before(net'[j].pkts[1], net'[Len(net) + 1].pkts[1])
    BY <2>2, <2>3 DEF EP!InOrder, Before
  <2>5. QED
    BY <1>2, <2>4
<1>4. \A x : Known(x, net) => Turn(x, dg)
  BY <1>3 DEF Known, Turn
<1>5. ASSUME NEW k \in 1..Len(tap_d) PROVE tap_d[k].id < dg.pkts[1].id
  <2>1. PICK j \in 1..Len(net) : net[j] \in Ends /\ FrameOf(net[j]) = tap_d[k]
    BY DEF Transit
  <2>2. Carries(net[j], accepted)
    BY DEF Transit
  <2>3. QED
    BY <1>3, <2>1, <2>2, EndBefore
<1>6. QED
  BY <1>4, <1>5

LEMMA Queues ==
    ASSUME Processes, Transit
    PROVE  /\ net \in Seq(Datagram) /\ wire \in Seq(Datagram) /\ sock \in Seq(Datagram)
           /\ hand \in Seq(Datagram) /\ hand \in {<<datagram>>, <<>>} /\ datagram \in Datagram
           /\ tap_d \in Seq(DP!PduOut) /\ copies \in Nat
<1>1. /\ net \in Seq(Datagram) /\ wire \in Seq(Datagram) /\ sock \in Seq(Datagram)
      /\ tap_d \in Seq(DP!PduOut) /\ copies \in Nat /\ datagram \in Datagram
  BY SameDatagrams
     DEF Processes, Transit, EP!TypeInv, EP!TypeOK, DP!TypeInv, DP!TypeOK, Datagram
<1>2. hand \in {<<datagram>>, <<>>}
  BY DEF hand, DP!Hand
<1>3. \A dg \in Datagram : <<dg>> \in Seq(Datagram)
  OBVIOUS
<1>4. hand \in Seq(Datagram)
  <2>1. <<datagram>> \in Seq(Datagram) /\ <<>> \in Seq(Datagram)
    BY <1>1, <1>3
  <2>2. QED
    BY <1>2, <2>1
<1>5. QED
  BY <1>1, <1>2, <1>4

\* The order when something leaves the head of a queue, or a queue is emptied.
LEMMA OrderRead ==
    ASSUME Processes, Transit, Ordered, ~Reorder, Reads
    PROVE  Ordered'
<1>1. /\ sock \in Seq(Datagram) /\ sock # <<>> /\ sock' = Tail(sock)
      /\ wire' = wire /\ tap_d' = tap_d /\ hand' \in {<<>>, <<Head(sock)>>}
  BY Queues DEF Reads
<1>2. /\ sock' \in Seq(Datagram) /\ 1 \in 1..Len(sock) /\ Head(sock) = sock[1]
      /\ Without(sock, 1, sock')
  BY <1>1, TailWithout
<1>3. /\ InLine(hand, sock, wire) /\ Over(tap_d, hand, sock, wire)
  BY DEF Ordered
<1>4. /\ Within(sock') /\ Ahead(sock', wire)
      /\ \A f : Past(f, sock) => Past(f, sock')
  BY <1>1, <1>2, <1>3, TurnsWithout DEF InLine
<1>5. Ahead(<<sock[1]>>, sock')
  <2>1. \A k \in 1..Len(sock') : sock'[k] = sock[k + 1] /\ k + 1 \in 1..Len(sock) /\ 1 < k + 1
    BY <1>1, TailElements
  <2>2. \A k \in 1..Len(sock') : Turn(sock[1], sock'[k])
    BY <1>2, <1>3, <2>1 DEF InLine, Within
  <2>3. QED
    BY <2>2, TurnsShort
<1>6. Ahead(<<sock[1]>>, wire)
  BY <1>2, <1>3, TurnsShort DEF InLine, Ahead
<1>7. \A f : Past(f, sock) => Past(f, <<sock[1]>>)
  BY <1>2, TurnsShort DEF Past
<1>8. Ahead(hand', sock') /\ Ahead(hand', wire)
  BY <1>1, <1>2, <1>5, <1>6, TurnsShort
<1>9. \A f : Past(f, sock) => Past(f, hand')
  BY <1>1, <1>2, <1>7, TurnsShort
<1>10. InLine(hand', sock', wire)
  BY <1>3, <1>4, <1>8 DEF InLine
<1>11. Over(tap_d, hand', sock', wire)
  BY <1>3, <1>4, <1>9 DEF Over
<1>12. QED
  BY <1>1, <1>10, <1>11 DEF Ordered

LEMMA OrderLeaves ==
    ASSUME Processes, Transit, Ordered, ~Reorder, NEW k \in 1..Len(wire), Leaves(k)
    PROVE  Ordered'
<1>1. /\ sock \in Seq(Datagram) /\ wire \in Seq(Datagram) /\ wire' \in Seq(Datagram)
      /\ Without(wire, k, wire') /\ hand' = hand /\ tap_d' = tap_d
      /\ sock' = sock \/ (sock' = Append(sock, wire[k]) /\ k = 1)
      /\ wire[k] \in Datagram
  BY Queues DEF Leaves
<1>2. InLine(hand, sock, wire) /\ Over(tap_d, hand, sock, wire)
  BY DEF Ordered
<1>3. /\ Within(wire') /\ Ahead(hand, wire') /\ Ahead(sock, wire')
      /\ \A f : Past(f, wire) => Past(f, wire')
  BY <1>1, <1>2, TurnsWithout DEF InLine
<1>4. CASE sock' = sock
  BY <1>1, <1>2, <1>3, <1>4 DEF Ordered, InLine, Over
<1>5. CASE sock' = Append(sock, wire[k]) /\ k = 1
  <2>1. ASSUME NEW j \in 1..Len(wire')
        PROVE  wire'[j] = wire[j + 1] /\ j + 1 \in 1..Len(wire) /\ 1 < j + 1
    <3>1. Len(wire') = Len(wire) - 1 /\ Len(wire) \in Nat /\ Len(wire') \in Nat
      BY <1>1 DEF Without
    <3>2. j + 1 \in 1..Len(wire) /\ 1 < j + 1 /\ ~(j < k)
      BY <1>5, <3>1
    <3>3. QED
      BY <1>1, <3>2 DEF Without
  <2>2. \A j \in 1..Len(wire') : Turn(wire[k], wire'[j])
    BY <1>2, <1>5, <2>1 DEF InLine, Within
  <2>3. \A j \in 1..Len(sock) : Turn(sock[j], wire[k])
    BY <1>2 DEF InLine, Ahead
  <2>4. \A j \in 1..Len(hand) : Turn(hand[j], wire[k])
    BY <1>2 DEF InLine, Ahead
  <2>5. Within(sock')
    BY <1>1, <1>2, <1>5, <2>3, TurnsAppend DEF InLine
  <2>6. Ahead(hand, sock')
    BY <1>1, <1>2, <1>5, <2>4, TurnsAppend DEF InLine
  <2>7. Ahead(sock', wire')
    BY <1>1, <1>3, <1>5, <2>2, TurnsAppend
  <2>8. \A f : Past(f, sock) /\ Past(f, wire) => Past(f, sock')
    <3>1. \A f : Past(f, wire) => Void(wire[k]) \/ f.id < wire[k].pkts[1].id
      BY DEF Past
    <3>2. QED
      BY <1>1, <1>5, <3>1, TurnsAppend
  <2>9. InLine(hand, sock', wire')
    BY <1>2, <1>3, <2>5, <2>6, <2>7 DEF InLine
  <2>10. Over(tap_d, hand, sock', wire')
    BY <1>2, <1>3, <2>8 DEF Over
  <2>11. QED
    BY <1>1, <2>9, <2>10 DEF Ordered
<1>6. QED
  BY <1>1, <1>4, <1>5

LEMMA OrderSends ==
    ASSUME Processes, Processes', Transit, Ordered, ~Reorder, Sends
    PROVE  Ordered'
<1>1. PICK dg \in Datagram : /\ Carries(dg, accepted)
                             /\ net' = Append(net, dg) /\ wire' = Append(wire, dg)
  BY DEF Sends
<1>2. hand' = hand /\ sock' = sock /\ tap_d' = tap_d
  BY DEF Sends
<1>3. InLine(hand, sock, wire) /\ Over(tap_d, hand, sock, wire)
  BY DEF Ordered
<1>4. /\ \A x : Known(x, net) => Turn(x, dg)
      /\ \A k \in 1..Len(tap_d) : tap_d[k].id < dg.pkts[1].id
  BY <1>1, SentLast
<1>5. \A j \in 1..Len(wire) : Turn(wire[j], dg)
  BY <1>4 DEF Transit, AllKnown
<1>6. \A j \in 1..Len(sock) : Turn(sock[j], dg)
  BY <1>4 DEF Transit, AllKnown
<1>7. \A j \in 1..Len(hand) : Turn(hand[j], dg)
  <2>1. \A j \in 1..Len(hand) : hand[j] = datagram
    BY Queues
  <2>2. QED
    BY <1>4, <2>1 DEF Transit
<1>8. Within(wire') /\ Ahead(hand, wire') /\ Ahead(sock, wire')
  BY <1>1, <1>3, <1>5, <1>6, <1>7, Queues, TurnsAppend DEF InLine
<1>9. \A k \in 1..Len(tap_d) : Past(tap_d[k], wire')
  BY <1>1, <1>3, <1>4, Queues, TurnsAppend DEF Over
<1>10. QED
  BY <1>2, <1>3, <1>8, <1>9 DEF Ordered, InLine, Over

LEMMA OrderDelivers ==
    ASSUME Processes, Transit, Ordered, ~Reorder, Delivers
    PROVE  Ordered' /\ \A k \in 1..Len(tap_d) : tap_d[k].id < FrameOf(datagram).id
<1>1. /\ hand = <<datagram>> /\ hand' = <<>> /\ sock' = sock /\ wire' = wire
      /\ datagram \in Ends /\ ~Void(datagram) /\ tap_d' = Append(tap_d, FrameOf(datagram))
  BY DEF Delivers
<1>2. InLine(hand, sock, wire) /\ Over(tap_d, hand, sock, wire)
  BY DEF Ordered
<1>3. Len(hand) = 1 /\ hand[1] = datagram /\ 1 \in 1..Len(hand)
  BY <1>1
<1>4. Carries(datagram, accepted)
  BY <1>1, KnownCarries DEF Transit
<1>5. ASSUME NEW x, Known(x, net), Turn(datagram, x)
      PROVE  Void(x) \/ FrameOf(datagram).id < x.pkts[1].id
  BY <1>1, <1>4, <1>5, KnownCarries, EndBefore DEF Turn
<1>6. Past(FrameOf(datagram), sock)
  BY <1>2, <1>3, <1>5 DEF InLine, Ahead, Past, Transit, AllKnown
<1>7. Past(FrameOf(datagram), wire)
  BY <1>2, <1>3, <1>5 DEF InLine, Ahead, Past, Transit, AllKnown
<1>8. \A k \in 1..Len(tap_d) : tap_d[k].id < FrameOf(datagram).id
  <2>1. FrameOf(datagram).id = datagram.pkts[1].id
    BY <1>1, EndFrame
  <2>2. QED
    BY <1>1, <1>2, <1>3, <2>1 DEF Over, Past
<1>9. /\ Len(tap_d') = Len(tap_d) + 1 /\ tap_d'[Len(tap_d) + 1] = FrameOf(datagram)
      /\ \A k \in 1..Len(tap_d) : tap_d'[k] = tap_d[k]
      /\ \A k \in 1..(Len(tap_d) + 1) : k \in 1..Len(tap_d) \/ k = Len(tap_d) + 1
  BY <1>1, Queues, EndFrame, AppendElements
<1>10. \A k \in 1..Len(tap_d') : Past(tap_d'[k], sock) /\ Past(tap_d'[k], wire)
  BY <1>2, <1>6, <1>7, <1>9 DEF Over
<1>11. InLine(hand', sock, wire)
  BY <1>1, <1>2, TurnsShort DEF InLine
<1>12. Over(tap_d', hand', sock, wire)
  BY <1>1, <1>10, TurnsShort DEF Over
<1>13. QED
  BY <1>1, <1>8, <1>11, <1>12 DEF Ordered

LEMMA OrderKept ==
    ASSUME Processes, Processes', Transit, Ordered, Move
    PROVE  Ordered'
<1>1. SUFFICES ASSUME ~Reorder PROVE Ordered'
  BY DEF Ordered
<1>2. InLine(hand, sock, wire) /\ Over(tap_d, hand, sock, wire)
  BY <1>1 DEF Ordered
<1>3. CASE Accepts
  BY <1>3 DEF Accepts, Ordered
<1>4. CASE Copies
  BY <1>1, <1>4 DEF Copies
<1>5. CASE Strays
  <2>1. PICK dg \in Datagram : Void(dg) /\ sock' \in {sock, Append(sock, dg)}
    BY <1>5 DEF Strays
  <2>2. \A x : Turn(x, dg) /\ Turn(dg, x)
    BY <2>1 DEF Turn
  <2>3. Within(sock') /\ Ahead(hand, sock') /\ Ahead(sock', wire)
    BY <1>2, <2>1, <2>2, Queues, TurnsAppend DEF InLine
  <2>4. \A f : Past(f, sock) => Past(f, sock')
    BY <2>1, Queues, TurnsAppend
  <2>5. hand' = hand /\ wire' = wire /\ tap_d' = tap_d
    BY <1>5 DEF Strays
  <2>6. QED
    BY <1>2, <2>3, <2>4, <2>5 DEF Ordered, InLine, Over
<1>6. CASE Drops
  <2>1. Ahead(hand', sock) /\ Ahead(hand', wire) /\ \A f : Past(f, hand) => Past(f, hand')
    BY <1>2, <1>6, TurnsShort DEF Drops, InLine
  <2>2. sock' = sock /\ wire' = wire /\ tap_d' = tap_d
    BY <1>6 DEF Drops
  <2>3. QED
    BY <1>2, <2>1, <2>2 DEF Ordered, InLine, Over
<1>7. CASE Forgets
  <2>1. hand' = <<>> /\ sock' = <<>> /\ wire' = wire /\ tap_d' = tap_d
    BY <1>7 DEF Forgets
  <2>2. QED
    BY <1>2, <2>1, TurnsShort DEF Ordered, InLine, Over
<1>8. QED
  BY <1>1, <1>3, <1>4, <1>5, <1>6, <1>7, OrderRead, OrderLeaves, OrderSends, OrderDelivers
     DEF Move

-----------------------------------------------------------------------------
\* Nothing is repeated but what was duplicated

Gain(x) == IF x \in Ends THEN 1 ELSE 0
Makes(x) == IF x \in Ends THEN {FrameOf(x)} ELSE {}

LEMMA MakesSize ==
    \A x : /\ IsFiniteSet(Makes(x)) /\ Cardinality(Makes(x)) = Gain(x) /\ Gain(x) \in {0, 1}
           /\ x \in Ends => Gain(x) = 1 /\ Makes(x) = {FrameOf(x)}
           /\ x \notin Ends => Gain(x) = 0 /\ Makes(x) = {}
BY FS_EmptySet, FS_Singleton DEF Makes, Gain

LEMMA EndedSize ==
    ASSUME NEW q \in Seq(Datagram)
    PROVE  /\ IsFiniteSet(Ended(q)) /\ Cardinality(Ended(q)) \in Nat
           /\ Count(q, Ends) \in Nat /\ Cardinality(Ended(q)) <= Count(q, Ends)
<1> DEFINE f == [k \in Places(q, Ends) |-> FrameOf(q[k])]
<1>1. IsFiniteSet(Places(q, Ends)) /\ Count(q, Ends) \in Nat
  BY CountType
<1>2. f \in Surjection(Places(q, Ends), Ended(q))
  BY DEF Surjection, Ended
<1> HIDE DEF f
<1>3. IsFiniteSet(Ended(q)) /\ Cardinality(Ended(q)) <= Cardinality(Places(q, Ends))
  BY <1>1, <1>2, FS_Surjection
<1>4. QED
  BY <1>1, <1>3, FS_CardinalityType DEF Count

LEMMA EndedAppend ==
    ASSUME NEW q \in Seq(Datagram), NEW x \in Datagram
    PROVE  /\ Ended(Append(q, x)) = Ended(q) \union Makes(x)
           /\ Count(Append(q, x), Ends) = Count(q, Ends) + Gain(x)
<1>1. /\ Len(Append(q, x)) = Len(q) + 1 /\ Append(q, x)[Len(q) + 1] = x
      /\ \A k \in 1..Len(q) : Append(q, x)[k] = q[k]
      /\ \A k : k \in 1..(Len(q) + 1) <=> k \in 1..Len(q) \/ k = Len(q) + 1
      /\ Len(q) + 1 \notin 1..Len(q)
  BY AppendElements
<1>2. \A f : f \in Ended(Append(q, x)) <=> f \in Ended(q) \/ f \in Makes(x)
  BY <1>1 DEF Ended, Places, Makes
<1>3. Count(Append(q, x), Ends) = Count(q, Ends) + Gain(x)
  BY CountAppend DEF Gain
<1>4. QED
  BY <1>2, <1>3

LEMMA EndedWithout ==
    ASSUME NEW q \in Seq(Datagram), NEW n \in 1..Len(q), NEW r \in Seq(Datagram),
           Without(q, n, r)
    PROVE  /\ Ended(q) = Ended(r) \union Makes(q[n])
           /\ Count(q, Ends) = Count(r, Ends) + Gain(q[n])
<1> DEFINE old(k) == IF k < n THEN k ELSE k + 1
<1>1. \A k \in 1..Len(r) : r[k] = q[old(k)] /\ old(k) \in 1..Len(q)
  BY DEF Without
<1>2. \A i \in 1..Len(q) : i # n => \E k \in 1..Len(r) : old(k) = i
  <2>1. SUFFICES ASSUME NEW i \in 1..Len(q), i # n PROVE \E k \in 1..Len(r) : old(k) = i
    OBVIOUS
  <2>2. Len(q) \in Nat /\ Len(r) = Len(q) - 1
    BY DEF Without
  <2>3. CASE i < n
    <3>1. i \in 1..Len(r) /\ old(i) = i
      BY <2>2, <2>3
    <3>2. QED
      BY <3>1
  <2>4. CASE i > n
    <3>1. i - 1 \in 1..Len(r) /\ old(i - 1) = i
      BY <2>2, <2>4
    <3>2. QED
      BY <3>1
  <2>5. QED
    BY <2>1, <2>3, <2>4
<1> HIDE DEF old
<1>3. ASSUME NEW f \in Ended(q) PROVE f \in Ended(r) \/ f \in Makes(q[n])
  <2>1. PICK i \in 1..Len(q) : q[i] \in Ends /\ f = FrameOf(q[i])
    BY DEF Ended, Places
  <2>2. CASE i = n
    BY <2>1, <2>2 DEF Makes
  <2>3. CASE i # n
    BY <1>1, <1>2, <2>1, <2>3 DEF Ended, Places
  <2>4. QED
    BY <2>2, <2>3
<1>4. ASSUME NEW f \in Ended(r) PROVE f \in Ended(q)
  BY <1>1 DEF Ended, Places
<1>5. Makes(q[n]) \subseteq Ended(q)
  BY DEF Makes, Ended, Places
<1>6. Count(q, Ends) = Count(r, Ends) + Gain(q[n])
  BY CountWithout DEF Gain
<1>7. QED
  BY <1>3, <1>4, <1>5, <1>6

LEMMA EndedShort ==
    /\ Ended(<<>>) = {} /\ Count(<<>>, Ends) = 0
    /\ \A x \in Datagram : Ended(<<x>>) = Makes(x) /\ Count(<<x>>, Ends) = Gain(x)
<1>1. Ended(<<>>) = {} /\ Count(<<>>, Ends) = 0
  BY CountEmpty DEF Ended, Places
<1>2. ASSUME NEW x \in Datagram
      PROVE  Ended(<<x>>) = Makes(x) /\ Count(<<x>>, Ends) = Gain(x)
  <2>1. <<>> \in Seq(Datagram) /\ Append(<<>>, x) = <<x>>
    OBVIOUS
  <2>2. /\ Ended(Append(<<>>, x)) = Ended(<<>>) \union Makes(x)
        /\ Count(Append(<<>>, x), Ends) = Count(<<>>, Ends) + Gain(x)
    BY <2>1, EndedAppend
  <2>3. Gain(x) \in Nat
    BY MakesSize
  <2>4. 0 + Gain(x) = Gain(x) /\ {} \union Makes(x) = Makes(x)
    BY <2>3
  <2>5. QED
    BY <1>1, <2>1, <2>2, <2>4
<1>3. QED
  BY <1>1, <1>2

LEMMA RangeFinite ==
    ASSUME NEW T, NEW t \in Seq(T)
    PROVE  IsFiniteSet(Range(t)) /\ Cardinality(Range(t)) \in Nat
<1> DEFINE f == [k \in 1..Len(t) |-> t[k]]
<1>1. IsFiniteSet(1..Len(t))
  BY FS_Interval
<1>2. f \in Surjection(1..Len(t), Range(t))
  BY DEF Surjection, Range
<1> HIDE DEF f
<1>3. QED
  BY <1>1, <1>2, FS_Surjection, FS_CardinalityType

\* As many frames fewer as things that could complete one, at most.
LEMMA FewerRepeats ==
    ASSUME NEW F, NEW G, NEW D, IsFiniteSet(G), IsFiniteSet(D), F \subseteq G \union D,
           NEW n \in Nat, NEW m \in Nat, NEW c \in Nat,
           m + Cardinality(D) <= n, n <= c + Cardinality(F)
    PROVE  m <= c + Cardinality(G)
<1>1. /\ IsFiniteSet(G \union D)
      /\ Cardinality(G \union D) = Cardinality(G) + Cardinality(D) - Cardinality(G \intersect D)
  BY FS_Union
<1>2. Cardinality(F) <= Cardinality(G \union D) /\ IsFiniteSet(F)
  BY <1>1, FS_Subset
<1>3. IsFiniteSet(G \intersect D)
  BY FS_Subset
<1>4. /\ Cardinality(F) \in Nat /\ Cardinality(G) \in Nat /\ Cardinality(D) \in Nat
      /\ Cardinality(G \intersect D) \in Nat
  BY <1>2, <1>3, FS_CardinalityType
<1>5. QED
  BY <1>1, <1>2, <1>4

LEMMA NumbersType ==
    ASSUME NEW t \in Seq(DP!PduOut), NEW h \in Seq(Datagram), NEW s \in Seq(Datagram),
           NEW w \in Seq(Datagram)
    PROVE  /\ IsFiniteSet(Frames(t, h, s, w)) /\ Number(t, h, s, w) \in Nat
           /\ Cardinality(Frames(t, h, s, w)) \in Nat
<1>1. IsFiniteSet(Range(t)) /\ Len(t) \in Nat
  BY RangeFinite
<1>2. IsFiniteSet(Range(t) \union Ended(h))
  BY <1>1, EndedSize, FS_Union
<1>3. IsFiniteSet(Range(t) \union Ended(h) \union Ended(s))
  BY <1>2, EndedSize, FS_Union
<1>4. IsFiniteSet(Frames(t, h, s, w))
  BY <1>3, EndedSize, FS_Union DEF Frames
<1>5. Number(t, h, s, w) \in Nat
  BY <1>1, EndedSize DEF Number
<1>6. QED
  BY <1>4, <1>5, FS_CardinalityType

LEMMA Lessened ==
    ASSUME NEW t \in Seq(DP!PduOut), NEW h \in Seq(Datagram), NEW s \in Seq(Datagram),
           NEW w \in Seq(Datagram), NEW i \in Seq(Datagram), NEW r \in Seq(Datagram),
           NEW v \in Seq(Datagram), NEW c \in Nat, Repeated(t, h, s, w, c),
           NEW D, IsFiniteSet(D), Frames(t, h, s, w) \subseteq Frames(t, i, r, v) \union D,
           Number(t, i, r, v) + Cardinality(D) <= Number(t, h, s, w)
    PROVE  Repeated(t, i, r, v, c)
<1>1. /\ IsFiniteSet(Frames(t, i, r, v)) /\ Number(t, i, r, v) \in Nat
      /\ Number(t, h, s, w) \in Nat
  BY NumbersType
<1>2. Number(t, h, s, w) <= c + Cardinality(Frames(t, h, s, w))
  BY DEF Repeated
<1>3. Number(t, i, r, v) <= c + Cardinality(Frames(t, i, r, v))
  BY <1>1, <1>2, FewerRepeats
<1>4. QED
  BY <1>3 DEF Repeated

\* A queue that is emptied.
LEMMA Emptied ==
    ASSUME NEW t \in Seq(DP!PduOut), NEW h \in Seq(Datagram), NEW s \in Seq(Datagram),
           NEW w \in Seq(Datagram), NEW c \in Nat, Repeated(t, h, s, w, c)
    PROVE  /\ Repeated(t, <<>>, s, w, c) /\ Repeated(t, <<>>, <<>>, w, c)
           /\ Repeated(t, <<>>, <<>>, <<>>, c)
<1>1. <<>> \in Seq(Datagram) /\ Ended(<<>>) = {} /\ Count(<<>>, Ends) = 0 /\ Len(t) \in Nat
  BY EndedShort
<1>2. Repeated(t, <<>>, s, w, c)
  <2>1. Frames(t, h, s, w) \subseteq Frames(t, <<>>, s, w) \union Ended(h)
    BY DEF Frames
  <2>2. Number(t, <<>>, s, w) + Cardinality(Ended(h)) <= Number(t, h, s, w)
    BY <1>1, EndedSize DEF Number
  <2>3. QED
    BY <1>1, <2>1, <2>2, EndedSize, Lessened
<1>3. Repeated(t, <<>>, <<>>, w, c)
  <2>1. Frames(t, <<>>, s, w) \subseteq Frames(t, <<>>, <<>>, w) \union Ended(s)
    BY DEF Frames
  <2>2. Number(t, <<>>, <<>>, w) + Cardinality(Ended(s)) <= Number(t, <<>>, s, w)
    BY <1>1, EndedSize DEF Number
  <2>3. QED
    BY <1>1, <1>2, <2>1, <2>2, EndedSize, Lessened
<1>4. Repeated(t, <<>>, <<>>, <<>>, c)
  <2>1. Frames(t, <<>>, <<>>, w) \subseteq Frames(t, <<>>, <<>>, <<>>) \union Ended(w)
    BY DEF Frames
  <2>2. Number(t, <<>>, <<>>, <<>>) + Cardinality(Ended(w)) <= Number(t, <<>>, <<>>, w)
    BY <1>1, EndedSize DEF Number
  <2>3. QED
    BY <1>1, <1>3, <2>1, <2>2, EndedSize, Lessened
<1>5. QED
  BY <1>2, <1>3, <1>4

LEMMA CountSends ==
    ASSUME Processes, Processes', Transit, Counted, Sends
    PROVE  Counted'
<1>1. PICK dg \in Datagram : /\ Carries(dg, accepted)
                             /\ net' = Append(net, dg) /\ wire' = Append(wire, dg)
  BY DEF Sends
<1>2. hand' = hand /\ sock' = sock /\ tap_d' = tap_d /\ copies' = copies
  BY DEF Sends
<1>3. /\ Ended(wire') = Ended(wire) \union Makes(dg)
      /\ Count(wire', Ends) = Count(wire, Ends) + Gain(dg)
  BY <1>1, Queues, EndedAppend
<1> DEFINE F == Frames(tap_d, hand, sock, wire)
           n == Number(tap_d, hand, sock, wire)
<1>4. Frames(tap_d', hand', sock', wire') = F \union Makes(dg)
  BY <1>2, <1>3 DEF Frames
<1>5. Number(tap_d', hand', sock', wire') = n + Gain(dg)
  <2>1. /\ Len(tap_d) \in Nat /\ Count(hand, Ends) \in Nat /\ Count(sock, Ends) \in Nat
        /\ Count(wire, Ends) \in Nat /\ Gain(dg) \in Nat
    <3>1. /\ Len(tap_d) \in Nat /\ hand \in Seq(Datagram) /\ sock \in Seq(Datagram)
          /\ wire \in Seq(Datagram)
      BY Queues
    <3>2. Gain(dg) \in Nat
      BY MakesSize
    <3>3. QED
      BY <3>1, <3>2, EndedSize
  <2>2. QED
    BY <1>2, <1>3, <2>1 DEF Number
<1>6. dg \in Ends => FrameOf(dg) \notin F
  <2>1. SUFFICES ASSUME dg \in Ends, FrameOf(dg) \in F PROVE FALSE
    OBVIOUS
  <2>2. FrameOf(dg).id = dg.pkts[1].id /\ FrameOf(dg).id \in Nat
    BY <2>1, EndFrame, SameDatagrams
  <2>3. /\ \A x : Known(x, net) => Turn(x, dg)
        /\ \A k \in 1..Len(tap_d) : tap_d[k].id < dg.pkts[1].id
    BY <1>1, SentLast
  <2>4. FrameOf(dg) \notin Range(tap_d)
    <3>1. DOMAIN tap_d = 1..Len(tap_d)
      BY Queues
    <3>2. QED
      BY <2>2, <2>3, <3>1 DEF Range
  <2>5. ASSUME NEW x \in Ends, Known(x, net) PROVE FrameOf(x) # FrameOf(dg)
    <3>1. ~Void(x) /\ ~Void(dg)
      BY <2>1, EndFrame
    <3>2. Carries(x, accepted)
      BY <2>5, <3>1, KnownCarries
    <3>3. Before(x.pkts[1], dg.pkts[1])
      BY <2>3, <2>5, <3>1 DEF Turn
    <3>4. FrameOf(x).id < dg.pkts[1].id
      BY <1>1, <3>2, <3>3, EndBefore
    <3>5. QED
      BY <2>2, <3>4
  <2>6. \A q : AllKnown(q, net) => FrameOf(dg) \notin Ended(q)
    BY <2>5 DEF AllKnown, Ended, Places
  <2>7. AllKnown(hand, net) /\ AllKnown(sock, net) /\ AllKnown(wire, net)
    <3>1. \A j \in 1..Len(hand) : hand[j] = datagram
      BY Queues
    <3>2. QED
      BY <3>1 DEF Transit, AllKnown
  <2>8. QED
    BY <2>1, <2>4, <2>6, <2>7 DEF Frames
<1>7. n <= copies + Cardinality(F)
  BY DEF Counted, Repeated
<1>8. IsFiniteSet(F) /\ n \in Nat /\ copies \in Nat /\ Cardinality(F) \in Nat
  BY Queues, NumbersType
<1> HIDE DEF F, n
<1>9. Cardinality(F \union Makes(dg)) = Cardinality(F) + Gain(dg)
  <2>1. CASE dg \in Ends
    <3>1. Gain(dg) = 1 /\ Makes(dg) = {FrameOf(dg)}
      BY <2>1, MakesSize
    <3>2. Cardinality(F \union {FrameOf(dg)}) = Cardinality(F) + 1
      BY <1>6, <1>8, <2>1, FS_AddElement
    <3>3. QED
      BY <3>1, <3>2
  <2>2. CASE dg \notin Ends
    <3>1. Gain(dg) = 0 /\ F \union Makes(dg) = F
      BY <2>2, MakesSize
    <3>2. QED
      BY <1>8, <3>1
  <2>3. QED
    BY <2>1, <2>2
<1>10. n + Gain(dg) <= copies + Cardinality(F \union Makes(dg))
  BY <1>7, <1>8, <1>9, MakesSize
<1>11. QED
  BY <1>2, <1>4, <1>5, <1>10 DEF Counted, Repeated

LEMMA CountLeaves ==
    ASSUME Processes, Transit, Counted, NEW k \in 1..Len(wire), Leaves(k)
    PROVE  Counted'
<1>1. /\ wire' \in Seq(Datagram) /\ Without(wire, k, wire') /\ wire[k] \in Datagram
      /\ hand' = hand /\ tap_d' = tap_d /\ copies' = copies
      /\ sock' = sock \/ sock' = Append(sock, wire[k])
  BY Queues DEF Leaves
<1>2. /\ Ended(wire) = Ended(wire') \union Makes(wire[k])
      /\ Count(wire, Ends) = Count(wire', Ends) + Gain(wire[k])
  BY <1>1, Queues, EndedWithout
<1>3. /\ Len(tap_d) \in Nat /\ Count(hand, Ends) \in Nat /\ Count(sock, Ends) \in Nat
      /\ Count(wire', Ends) \in Nat /\ Gain(wire[k]) \in Nat
  <2>1. /\ Len(tap_d) \in Nat /\ hand \in Seq(Datagram) /\ sock \in Seq(Datagram)
        /\ wire' \in Seq(Datagram)
    BY <1>1, Queues
  <2>2. Gain(wire[k]) \in Nat
    BY MakesSize
  <2>3. QED
    BY <2>1, <2>2, EndedSize
<1>4. CASE sock' = sock
  <2>1. Frames(tap_d, hand, sock, wire)
          \subseteq Frames(tap_d, hand, sock, wire') \union Makes(wire[k])
    BY <1>2 DEF Frames
  <2>2. Number(tap_d, hand, sock, wire') + Cardinality(Makes(wire[k]))
          <= Number(tap_d, hand, sock, wire)
    BY <1>2, <1>3, MakesSize DEF Number
  <2>3. IsFiniteSet(Makes(wire[k]))
    BY MakesSize
  <2>4. Repeated(tap_d, hand, sock, wire', copies)
    BY <1>1, <2>1, <2>2, <2>3, Queues, Lessened DEF Counted
  <2>5. QED
    BY <1>1, <1>4, <2>4 DEF Counted
<1>5. CASE sock' = Append(sock, wire[k])
  <2>1. /\ Ended(sock') = Ended(sock) \union Makes(wire[k])
        /\ Count(sock', Ends) = Count(sock, Ends) + Gain(wire[k])
    BY <1>1, <1>5, Queues, EndedAppend
  <2>2. Frames(tap_d', hand', sock', wire') = Frames(tap_d, hand, sock, wire)
    BY <1>1, <1>2, <2>1 DEF Frames
  <2>3. Number(tap_d', hand', sock', wire') = Number(tap_d, hand, sock, wire)
    BY <1>1, <1>2, <1>3, <2>1 DEF Number
  <2>4. QED
    BY <1>1, <2>2, <2>3 DEF Counted, Repeated
<1>6. QED
  BY <1>1, <1>4, <1>5

LEMMA CountCopies ==
    ASSUME Processes, Transit, Counted, Copies \/ Strays
    PROVE  Counted'
<1>1. hand' = hand /\ tap_d' = tap_d /\ wire' = wire
  BY DEF Copies, Strays
<1>2. \/ sock' = sock /\ copies' \in {copies, copies + 1}
      \/ \E dg \in Datagram : /\ sock' = Append(sock, dg) /\ Makes(dg) \subseteq Ended(wire)
                              /\ copies' \in {copies + Gain(dg), copies + 1}
  <2>1. CASE Strays
    <3>1. copies' = copies
      BY <2>1 DEF Strays
    <3>2. ASSUME NEW dg \in Datagram, Void(dg) PROVE dg \notin Ends
      BY <3>2, EndFrame
    <3>3. copies = copies + 0
      BY Queues
    <3>4. QED
      BY <2>1, <3>1, <3>2, <3>3, MakesSize DEF Strays
  <2>2. CASE Copies
    <3>1. PICK k \in 1..Len(wire) : sock' \in {sock, Append(sock, wire[k])}
      BY <2>2 DEF Copies
    <3>2. wire[k] \in Datagram
      BY Queues
    <3>3. Makes(wire[k]) \subseteq Ended(wire)
      BY DEF Makes, Ended, Places
    <3>4. copies' = copies + 1
      BY <2>2 DEF Copies
    <3>5. QED
      BY <3>1, <3>2, <3>3, <3>4
  <2>3. QED
    BY <2>1, <2>2
<1>3. /\ IsFiniteSet(Frames(tap_d, hand, sock, wire)) /\ Number(tap_d, hand, sock, wire) \in Nat
      /\ Cardinality(Frames(tap_d, hand, sock, wire)) \in Nat /\ copies \in Nat
      /\ Number(tap_d, hand, sock, wire) <= copies + Cardinality(Frames(tap_d, hand, sock, wire))
  BY Queues, NumbersType DEF Counted, Repeated
<1>4. CASE sock' = sock /\ copies' \in {copies, copies + 1}
  BY <1>1, <1>3, <1>4 DEF Counted, Repeated
<1>5. ASSUME NEW dg \in Datagram, sock' = Append(sock, dg), Makes(dg) \subseteq Ended(wire),
             copies' \in {copies + Gain(dg), copies + 1}
      PROVE  Counted'
  <2>1. /\ Ended(sock') = Ended(sock) \union Makes(dg)
        /\ Count(sock', Ends) = Count(sock, Ends) + Gain(dg)
    BY <1>5, Queues, EndedAppend
  <2>2. Frames(tap_d', hand', sock', wire') = Frames(tap_d, hand, sock, wire)
    BY <1>1, <1>5, <2>1 DEF Frames
  <2>3. /\ Len(tap_d) \in Nat /\ Count(hand, Ends) \in Nat /\ Count(sock, Ends) \in Nat
        /\ Count(wire, Ends) \in Nat /\ Gain(dg) \in {0, 1}
    <3>1. /\ Len(tap_d) \in Nat /\ hand \in Seq(Datagram) /\ sock \in Seq(Datagram)
          /\ wire \in Seq(Datagram)
      BY Queues
    <3>2. Gain(dg) \in {0, 1}
      BY MakesSize
    <3>3. QED
      BY <3>1, <3>2, EndedSize
  <2>4. Number(tap_d', hand', sock', wire') = Number(tap_d, hand, sock, wire) + Gain(dg)
    BY <1>1, <2>1, <2>3 DEF Number
  <2>5. QED
    BY <1>3, <1>5, <2>2, <2>3, <2>4 DEF Counted, Repeated
<1>6. QED
  BY <1>2, <1>4, <1>5

LEMMA CountReads ==
    ASSUME Processes, Transit, Counted, Reads
    PROVE  Counted'
<1>1. /\ sock \in Seq(Datagram) /\ sock # <<>> /\ sock' = Tail(sock) /\ hand = <<>>
      /\ wire' = wire /\ tap_d' = tap_d /\ copies' = copies /\ hand' \in {<<>>, <<Head(sock)>>}
  BY Queues DEF Reads
<1>2. /\ sock' \in Seq(Datagram) /\ 1 \in 1..Len(sock) /\ Head(sock) = sock[1]
      /\ Head(sock) \in Datagram /\ Without(sock, 1, sock')
  BY <1>1, TailWithout
<1>3. /\ Ended(sock) = Ended(sock') \union Makes(Head(sock))
      /\ Count(sock, Ends) = Count(sock', Ends) + Gain(Head(sock))
  <2>1. ASSUME NEW r \in Seq(Datagram), Without(sock, 1, r)
        PROVE  /\ Ended(sock) = Ended(r) \union Makes(sock[1])
               /\ Count(sock, Ends) = Count(r, Ends) + Gain(sock[1])
    BY <1>1, <1>2, <2>1, EndedWithout
  <2>2. QED
    BY <1>2, <2>1
<1>4. /\ Len(tap_d) \in Nat /\ Count(sock', Ends) \in Nat
      /\ Count(wire, Ends) \in Nat /\ Gain(Head(sock)) \in Nat
  <2>1. Len(tap_d) \in Nat /\ sock' \in Seq(Datagram) /\ wire \in Seq(Datagram)
    BY <1>2, Queues
  <2>2. Gain(Head(sock)) \in Nat
    BY MakesSize
  <2>3. QED
    BY <2>1, <2>2, EndedSize
<1>5. Ended(<<>>) = {} /\ Count(<<>>, Ends) = 0
  BY EndedShort
<1>6. CASE hand' = <<>>
  <2>1. Frames(tap_d, hand, sock, wire)
          \subseteq Frames(tap_d, hand, sock', wire) \union Makes(Head(sock))
    BY <1>3 DEF Frames
  <2>2. Number(tap_d, hand, sock', wire) + Cardinality(Makes(Head(sock)))
          <= Number(tap_d, hand, sock, wire)
    BY <1>1, <1>3, <1>4, <1>5, MakesSize DEF Number
  <2>3. IsFiniteSet(Makes(Head(sock)))
    BY MakesSize
  <2>4. Repeated(tap_d, hand, sock', wire, copies)
    BY <1>1, <1>2, <2>1, <2>2, <2>3, Queues, Lessened DEF Counted
  <2>5. QED
    BY <1>1, <1>6, <2>4 DEF Counted
<1>7. CASE hand' = <<Head(sock)>>
  <2>1. Ended(hand') = Makes(Head(sock)) /\ Count(hand', Ends) = Gain(Head(sock))
    BY <1>2, <1>7, EndedShort
  <2>2. Frames(tap_d', hand', sock', wire') = Frames(tap_d, hand, sock, wire)
    BY <1>1, <1>3, <1>5, <2>1 DEF Frames
  <2>3. Number(tap_d', hand', sock', wire') = Number(tap_d, hand, sock, wire)
    BY <1>1, <1>3, <1>4, <1>5, <2>1 DEF Number
  <2>4. QED
    BY <1>1, <2>2, <2>3 DEF Counted, Repeated
<1>8. QED
  BY <1>1, <1>6, <1>7

LEMMA CountDelivers ==
    ASSUME Processes, Transit, Counted, Delivers
    PROVE  Counted'
<1>1. /\ hand = <<datagram>> /\ hand' = <<>> /\ sock' = sock /\ wire' = wire
      /\ copies' = copies /\ datagram \in Ends /\ tap_d' = Append(tap_d, FrameOf(datagram))
  BY DEF Delivers
<1>2. FrameOf(datagram) \in DP!PduOut /\ datagram \in Datagram
  BY <1>1, EndFrame
<1>3. Range(tap_d') = Range(tap_d) \union {FrameOf(datagram)} /\ Len(tap_d') = Len(tap_d) + 1
  BY <1>1, <1>2, Queues, RangeAppend, AppendElements
<1>4. Ended(hand) = {FrameOf(datagram)} /\ Count(hand, Ends) = 1
  BY <1>1, <1>2, EndedShort, MakesSize
<1>5. Ended(hand') = {} /\ Count(hand', Ends) = 0
  BY <1>1, EndedShort
<1>6. Frames(tap_d', hand', sock', wire') = Frames(tap_d, hand, sock, wire)
  BY <1>1, <1>3, <1>4, <1>5 DEF Frames
<1>7. /\ Len(tap_d) \in Nat /\ Count(sock, Ends) \in Nat /\ Count(wire, Ends) \in Nat
  BY Queues, EndedSize
<1>8. Number(tap_d', hand', sock', wire') = Number(tap_d, hand, sock, wire)
  BY <1>1, <1>3, <1>4, <1>5, <1>7 DEF Number
<1>9. QED
  BY <1>1, <1>6, <1>8 DEF Counted, Repeated

LEMMA CountedKept ==
    ASSUME Processes, Processes', Transit, Counted, Move
    PROVE  Counted'
<1>1. Repeated(tap_d, hand, sock, wire, copies)
  BY DEF Counted
<1>2. CASE Accepts
  BY <1>2 DEF Accepts, Counted
<1>3. CASE Drops \/ Forgets
  <2>1. /\ Repeated(tap_d, <<>>, sock, wire, copies) /\ Repeated(tap_d, <<>>, <<>>, wire, copies)
    BY <1>1, Queues, Emptied
  <2>2. QED
    BY <1>1, <1>3, <2>1 DEF Drops, Forgets, Counted
<1>4. QED
  BY <1>2, <1>3, CountSends, CountLeaves, CountCopies, CountReads, CountDelivers DEF Move

-----------------------------------------------------------------------------
\* The tunnel implements the service

Inv == Processes /\ Transit /\ Ordered /\ Counted

LEMMA InitInv == Init => Inv /\ Service!Init
<1> SUFFICES ASSUME Init PROVE Inv /\ Service!Init
  OBVIOUS
<1>1. EP!Init /\ DP!Init /\ wire = <<>> /\ copies = 0
  BY EncapSame, DecapSame DEF Init
<1>2. EP!TypeInv /\ EP!OrderInv
  BY <1>1, EncapAssumed, EP!InitType, EP!InitOrder
<1>3. DP!TypeInv /\ DP!WalkInv
  BY <1>1, DecapAssumed, DP!InitType DEF DP!WalkInv
<1>4. /\ net = <<>> /\ accepted = {} /\ sock = <<>> /\ tap_d = <<>> /\ hand = <<>>
      /\ datagram.src = "remote" /\ Void(datagram)
  BY <1>1 DEF EP!Init, DP!Init, hand, DP!Hand, DP!Inner, DP!NoDatagram, Void
<1>5. Processes
  BY <1>2, <1>3 DEF Processes
<1>6. Transit
  BY <1>1, <1>4 DEF Transit, AllKnown, Known
<1>7. Ordered
  BY <1>1, <1>4, TurnsShort DEF Ordered, InLine, Over
<1>8. Counted
  <2>1. Len(tap_d) = 0 /\ Range(tap_d) = {}
    BY <1>4 DEF Range
  <2>2. Frames(tap_d, hand, sock, wire) = {} /\ Number(tap_d, hand, sock, wire) = 0
    BY <1>1, <1>4, <2>1, EndedShort DEF Frames, Number
  <2>3. QED
    BY <1>1, <2>2, FS_EmptySet DEF Counted, Repeated
<1>9. Service!Init
  BY <1>1, <1>4 DEF Service!Init
<1>10. QED
  BY <1>5, <1>6, <1>7, <1>8, <1>9 DEF Inv

LEMMA NextInv == Inv /\ [Next]_vars => Inv' /\ Move
<1> SUFFICES ASSUME Inv, [Next]_vars PROVE Inv' /\ Move
  OBVIOUS
<1>1. Processes' /\ Move
  BY Moves DEF Inv
<1>2. Transit' /\ Ordered' /\ Counted'
  BY <1>1, TransitKept, OrderKept, CountedKept DEF Inv
<1>3. QED
  BY <1>1, <1>2 DEF Inv

LEMMA NextQueues ==
    ASSUME Inv'
    PROVE  /\ tap_d' \in Seq(DP!PduOut) /\ copies' \in Nat
           /\ hand' \in Seq(Datagram) /\ sock' \in Seq(Datagram) /\ wire' \in Seq(Datagram)
<1>1. /\ wire' \in Seq(Datagram) /\ sock' \in Seq(Datagram) /\ datagram' \in Datagram
      /\ tap_d' \in Seq(DP!PduOut) /\ copies' \in Nat
  BY SameDatagrams DEF Inv, Processes, Transit, DP!TypeInv, DP!TypeOK
<1>2. hand' \in {<<datagram'>>, <<>>}
  BY DEF hand, DP!Hand
<1>3. \A dg \in Datagram : <<dg>> \in Seq(Datagram)
  OBVIOUS
<1>4. hand' \in Seq(Datagram)
  <2>1. <<datagram'>> \in Seq(Datagram) /\ <<>> \in Seq(Datagram)
    BY <1>1, <1>3
  <2>2. QED
    BY <1>2, <2>1
<1>5. QED
  BY <1>1, <1>4

\* A frame is written: it was accepted, it is younger than those before it when
\* the network keeps order, and it is no repetition that nobody duplicated.
LEMMA DeliversFrame ==
    ASSUME Inv, Inv', Delivers
    PROVE  Service!Deliver(FrameOf(datagram))
<1>1. /\ datagram \in Ends /\ ~Void(datagram) /\ tap_d' = Append(tap_d, FrameOf(datagram))
      /\ accepted' = accepted /\ copies' = copies
  BY DEF Delivers
<1>2. FrameOf(datagram) \in accepted
  BY <1>1, KnownCarries DEF Inv, Transit, Carries
<1>3. ~Reorder => \A k \in DOMAIN tap_d : tap_d[k].id < FrameOf(datagram).id
  <2>1. DOMAIN tap_d = 1..Len(tap_d)
    BY Queues DEF Inv
  <2>2. QED
    BY <2>1, OrderDelivers DEF Inv
<1>4. Len(tap_d') - Cardinality(Range(tap_d')) <= copies'
  <2>1. /\ tap_d' \in Seq(DP!PduOut) /\ copies' \in Nat
        /\ hand' \in Seq(Datagram) /\ sock' \in Seq(Datagram) /\ wire' \in Seq(Datagram)
    BY NextQueues
  <2>2. Repeated(tap_d', hand', sock', wire', copies')
    BY DEF Inv, Counted
  <2>3. Repeated(tap_d', <<>>, <<>>, <<>>, copies')
    BY <2>1, <2>2, Emptied
  <2>4. /\ Number(tap_d', <<>>, <<>>, <<>>) = Len(tap_d')
        /\ Frames(tap_d', <<>>, <<>>, <<>>) = Range(tap_d')
    BY <2>1, EndedShort DEF Number, Frames
  <2>5. Len(tap_d') \in Nat /\ Cardinality(Range(tap_d')) \in Nat
    BY <2>1, RangeFinite
  <2>6. QED
    BY <2>1, <2>3, <2>4, <2>5 DEF Repeated
<1>5. \A S : Service!Cardinality(S) = Cardinality(S)
  BY DEF Service!Cardinality, Cardinality
<1>6. \A t : Service!Range(t) = Range(t)
  BY DEF Service!Range, Range
<1>7. Service!Repeats(tap_d') <= copies'
  BY <1>4, <1>5, <1>6 DEF Service!Repeats
<1>8. QED
  BY <1>1, <1>2, <1>3, <1>7 DEF Service!Deliver

LEMMA MoveServes ==
    ASSUME Inv, Inv', Move
    PROVE  [Service!Next]_(Service!serviceVars)
<1>1. accepted \subseteq EP!Frame /\ BufferLen \in Nat
  BY CTunnelAssumption DEF CTunnelAssumption, Inv, Processes, EP!TypeInv, EP!TypeOK
<1>2. \A f \in EP!Frame : f.len <= BufferLen => f \in [id : 1..MaxFrames, len : 1..BufferLen]
  BY <1>1 DEF EP!Frame
<1>3. CASE Accepts
  <2>1. PICK f \in EP!Frame : /\ f.len <= BufferLen /\ accepted' = accepted \union {f}
                              /\ \A g \in accepted : g.id < f.id
    BY <1>3 DEF Accepts
  <2>2. Service!Offer(f)
    BY <1>3, <2>1 DEF Accepts, Service!Offer
  <2>3. QED
    BY <1>2, <2>1, <2>2 DEF Service!Next
<1>4. CASE Delivers
  <2>1. FrameOf(datagram) \in accepted
    BY <1>4, KnownCarries DEF Delivers, Inv, Transit, Carries
  <2>2. FrameOf(datagram) \in [id : 1..MaxFrames, len : 1..BufferLen]
    BY <1>1, <1>2, <2>1 DEF Inv, Transit
  <2>3. QED
    BY <1>4, <2>2, DeliversFrame DEF Service!Next
<1>5. CASE Copies
  BY <1>5 DEF Copies, Service!Next, Service!Duplicate
<1>6. CASE Sends \/ (\E k \in 1..Len(wire) : Leaves(k)) \/ Strays \/ Reads \/ Drops \/ Forgets
  BY <1>6 DEF Sends, Leaves, Strays, Reads, Drops, Forgets, Service!serviceVars
<1>7. QED
  BY <1>3, <1>4, <1>5, <1>6 DEF Move

\* For every set of incidents and failures, every size of frame and datagram and
\* every number of losses, copies and restarts: what satdecap writes is what
\* satencap accepted, whole, once unless the network duplicated a datagram, and
\* in order unless the network reorders.
THEOREM TunnelImplementsService == Spec => ImplementsService
<1>1. Inv /\ [Next]_vars => [Service!Next]_(Service!serviceVars)
  BY NextInv, MoveServes
<1>2. QED
  BY <1>1, InitInv, NextInv, PTL DEF Spec, ImplementsService, Service!Spec
=============================================================================
