----------------------------- MODULE GseProofs ------------------------------
(***************************************************************************)
(* What the operators of Gse compute, for packets and datagrams of any     *)
(* length.  A fact about every packet of a datagram is shown by induction  *)
(* along an interval, which follows from the least element of a set of     *)
(* numbers: no prover has to instantiate an operator for it.               *)
(***************************************************************************)
EXTENDS Gse, WellFoundedInduction, TLAPS

LEMMA LeastNat ==
    ASSUME NEW T \in SUBSET Nat, T # {}
    PROVE  \E n \in T : \A m \in T : n <= m
<1>1. PICK n \in T : \A m \in T : ~ (<<m, n>> \in OpToRel(<, Nat))
  BY NatLessThanWellFounded, WFMin
<1>2. \A m \in T : ~ (m < n)
  BY <1>1 DEF OpToRel
<1>3. QED
  BY <1>2

\* What holds of m, and of the next number with every number, holds up to n.
LEMMA IntervalInduction ==
    ASSUME NEW m \in Nat, NEW n \in Nat, NEW S,
           m \in S, \A k \in m..n : k \in S /\ k # n => k + 1 \in S
    PROVE  m..n \subseteq S
<1>1. SUFFICES ASSUME (m..n) \ S # {} PROVE FALSE
  OBVIOUS
<1> DEFINE T == (m..n) \ S
<1>2. PICK k \in T : \A j \in T : k <= j
  <2>1. T \in SUBSET Nat /\ T # {}
    BY <1>1
  <2> HIDE DEF T
  <2>2. QED
    BY <2>1, LeastNat
<1>3. k - 1 \in m..n /\ k - 1 \in S /\ k - 1 # n
  BY <1>2
<1>4. QED
  BY <1>2, <1>3

-----------------------------------------------------------------------------
\* Cutting a PDU into packets

\* A PDU that is cut gives a packet of at least one byte that fits into the
\* demanded length when that length exceeds a header.
LEMMA NextPacketType ==
    ASSUME NEW pdu \in Pdu, NEW desired_len \in Nat
    PROVE  /\ NextPacket(pdu, desired_len) \in Packet
           /\ NextPacket(pdu, desired_len).id = pdu.id
           /\ NextPacket(pdu, desired_len).from = pdu.sent
           /\ NextPacket(pdu, desired_len).total = pdu.total
           /\ desired_len > GSE_MAX_HEADER_LENGTH =>
                PacketLen(NextPacket(pdu, desired_len)) <= desired_len
<1> DEFINE room == Least(desired_len, GSE_MAX_PACKET_LENGTH) - GSE_MAX_HEADER_LENGTH
           size == Least(Remaining(pdu), IF room > 0 THEN room ELSE 1)
<1>1. pdu.id \in Nat \ {0} /\ pdu.total \in Nat /\ pdu.sent \in Nat /\ pdu.sent < pdu.total
  BY DEF Pdu
<1>2. room \in Int /\ room <= desired_len - GSE_MAX_HEADER_LENGTH
  BY GseAssumption DEF GseAssumption, Least
<1>3. Remaining(pdu) \in Nat /\ Remaining(pdu) >= 1
  BY <1>1 DEF Remaining
<1>4. size \in Nat /\ size >= 1 /\ pdu.sent + size <= pdu.total
  BY <1>1, <1>2, <1>3 DEF Least, Remaining
<1>5. desired_len > GSE_MAX_HEADER_LENGTH => GSE_MAX_HEADER_LENGTH + size <= desired_len
  BY <1>2, <1>3, GseAssumption DEF GseAssumption, Least
<1>6. NextPacket(pdu, desired_len)
        = [id |-> pdu.id, from |-> pdu.sent, to |-> pdu.sent + size, total |-> pdu.total]
  BY DEF NextPacket
<1> HIDE DEF size
<1>7. QED
  BY <1>1, <1>4, <1>5, <1>6, GseAssumption DEF GseAssumption, Packet, PacketLen

\* A PDU that fits into one packet is not cut.
LEMMA NextPacketWhole ==
    ASSUME NEW pdu \in Pdu, NEW desired_len \in Nat,
           desired_len <= GSE_MAX_PACKET_LENGTH,
           pdu.sent = 0, pdu.total + GSE_MAX_HEADER_LENGTH <= desired_len
    PROVE  IsComplete(NextPacket(pdu, desired_len))
<1> DEFINE room == Least(desired_len, GSE_MAX_PACKET_LENGTH) - GSE_MAX_HEADER_LENGTH
           size == Least(Remaining(pdu), IF room > 0 THEN room ELSE 1)
<1>1. pdu.total \in Nat /\ pdu.sent < pdu.total
  BY DEF Pdu
<1>2. room = desired_len - GSE_MAX_HEADER_LENGTH /\ Remaining(pdu) = pdu.total
  BY <1>1, GseAssumption DEF GseAssumption, Least, Remaining
<1>3. size = pdu.total
  BY <1>1, <1>2, GseAssumption DEF GseAssumption, Least
<1>4. NextPacket(pdu, desired_len)
        = [id |-> pdu.id, from |-> pdu.sent, to |-> pdu.sent + size, total |-> pdu.total]
  BY DEF NextPacket
<1> HIDE DEF size
<1>5. QED
  BY <1>1, <1>3, <1>4 DEF IsComplete, IsStart, IsEnd

\* Taking a packet of the head leaves well-formed PDUs, and no new one.
LEMMA PackedType ==
    ASSUME NEW q \in Seq(Pdu), q # <<>>, NEW pkt \in Packet,
           pkt.total = Head(q).total
    PROVE  /\ Packed(q, pkt) \in Seq(Pdu)
           /\ Len(Packed(q, pkt)) <= Len(q)
           /\ Packed(q, pkt) # <<>> =>
                Packed(q, pkt)[Len(Packed(q, pkt))].id = q[Len(q)].id
<1>1. Len(q) \in Nat /\ Len(q) >= 1 /\ Head(q) = q[1] /\ q[1] \in Pdu
  OBVIOUS
<1>2. CASE IsEnd(pkt)
  <2>1. Packed(q, pkt) = Tail(q)
    BY <1>2 DEF Packed
  <2>2. Tail(q) \in Seq(Pdu) /\ Len(Tail(q)) = Len(q) - 1
    BY <1>1
  <2>3. ASSUME Tail(q) # <<>> PROVE Tail(q)[Len(Tail(q))] = q[Len(q)]
    BY <1>1, <2>2, <2>3
  <2>4. QED
    BY <1>1, <2>1, <2>2, <2>3
<1>3. CASE ~IsEnd(pkt)
  <2>1. Packed(q, pkt) = [q EXCEPT ![1].sent = pkt.to]
    BY <1>3 DEF Packed
  <2>2. [q[1] EXCEPT !.sent = pkt.to] \in Pdu /\ [q[1] EXCEPT !.sent = pkt.to].id = q[1].id
    <3>1. pkt.to \in Nat /\ pkt.to <= pkt.total /\ pkt.to # pkt.total
      BY <1>3 DEF Packet, IsEnd
    <3>2. q[1] \in [id : Nat \ {0}, total : Nat, sent : Nat] /\ pkt.total = q[1].total
      BY <1>1 DEF Pdu
    <3>3. [q[1] EXCEPT !.sent = pkt.to] = [id |-> q[1].id, total |-> q[1].total, sent |-> pkt.to]
      BY <3>2
    <3>4. QED
      BY <3>1, <3>2, <3>3 DEF Pdu
  <2>3. Packed(q, pkt) = [q EXCEPT ![1] = [q[1] EXCEPT !.sent = pkt.to]]
    BY <2>1, <1>1
  <2>4. QED
    BY <1>1, <2>2, <2>3
<1>4. QED
  BY <1>2, <1>3

\* Element by element: what stays is shifted by the PDU that left, and only a
\* head that stays has more bytes packed.
Shift(pkt) == IF IsEnd(pkt) THEN 1 ELSE 0

LEMMA PackedElements ==
    ASSUME NEW q \in Seq(Pdu), q # <<>>, NEW pkt \in Packet
    PROVE  /\ Shift(pkt) \in {0, 1}
           /\ Len(Packed(q, pkt)) = Len(q) - Shift(pkt)
           /\ \A i \in 1..Len(Packed(q, pkt)) :
                /\ i + Shift(pkt) \in 1..Len(q)
                /\ Packed(q, pkt)[i].id = q[i + Shift(pkt)].id
                /\ Packed(q, pkt)[i].total = q[i + Shift(pkt)].total
                /\ Packed(q, pkt)[i].sent
                     = IF i + Shift(pkt) = 1 THEN pkt.to ELSE q[i + Shift(pkt)].sent
<1>1. Len(q) \in Nat /\ Len(q) >= 1
  OBVIOUS
<1>2. CASE IsEnd(pkt)
  <2>1. Shift(pkt) = 1 /\ Packed(q, pkt) = Tail(q)
    BY <1>2 DEF Shift, Packed
  <2>2. Len(Tail(q)) = Len(q) - 1 /\ \A i \in 1..Len(Tail(q)) :
          i + 1 \in 1..Len(q) /\ i + 1 # 1 /\ Tail(q)[i] = q[i + 1]
    BY <1>1
  <2>3. QED
    BY <2>1, <2>2
<1>3. CASE ~IsEnd(pkt)
  <2>1. Shift(pkt) = 0 /\ Packed(q, pkt) = [q EXCEPT ![1].sent = pkt.to]
    BY <1>3 DEF Shift, Packed
  <2>2. q[1] \in [id : Nat \ {0}, total : Nat, sent : Nat]
    BY <1>1 DEF Pdu
  <2>3. [q[1] EXCEPT !.sent = pkt.to] = [id |-> q[1].id, total |-> q[1].total, sent |-> pkt.to]
    BY <2>2
  <2>4. Packed(q, pkt) = [q EXCEPT ![1] = [id |-> q[1].id, total |-> q[1].total, sent |-> pkt.to]]
    BY <2>1, <2>3, <1>1
  <2>5. Len(Packed(q, pkt)) = Len(q)
        /\ Packed(q, pkt)[1] = [id |-> q[1].id, total |-> q[1].total, sent |-> pkt.to]
        /\ \A i \in 1..Len(q) : i # 1 => Packed(q, pkt)[i] = q[i]
    BY <1>1, <2>4
  <2>6. \A i \in 1..Len(q) : i + 0 = i
    BY <1>1
  <2>7. QED
    BY <1>1, <2>1, <2>5, <2>6
<1>4. QED
  BY <1>2, <1>3

-----------------------------------------------------------------------------
\* Where the packets of a datagram start

\* The function StartOf is defined by.
IsAt(f, pkts, k) ==
    f = [i \in 1..k |-> IF i = 1 THEN 0 ELSE f[i-1] + PacketLen(pkts[i-1])]

LEMMA AtExists ==
    ASSUME NEW pkts, NEW n \in Nat \ {0}
    PROVE  \E f : IsAt(f, pkts, n)
<1> DEFINE S == {k \in 1..n : \E f : IsAt(f, pkts, k)}
<1>1. 1 \in S
  <2>1. IsAt([i \in 1..1 |-> 0], pkts, 1)
    BY DEF IsAt
  <2>2. QED
    BY <2>1
<1>2. ASSUME NEW k \in 1..n, k \in S, k # n
      PROVE  k + 1 \in S
  <2>1. PICK f : IsAt(f, pkts, k)
    BY <1>2
  <2> DEFINE g == [i \in 1..(k+1) |->
                     IF i = k + 1 THEN f[k] + PacketLen(pkts[k]) ELSE f[i]]
  <2>2. \A i \in 1..k : g[i] = f[i]
    OBVIOUS
  <2>3. \A i \in 1..k : f[i] = IF i = 1 THEN 0 ELSE f[i-1] + PacketLen(pkts[i-1])
    BY <2>1 DEF IsAt
  <2>4. \A i \in 1..(k+1) : g[i] = IF i = 1 THEN 0 ELSE g[i-1] + PacketLen(pkts[i-1])
    <3>1. g[k+1] = f[k] + PacketLen(pkts[k]) /\ k + 1 # 1 /\ (k + 1) - 1 = k
      OBVIOUS
    <3>2. ASSUME NEW i \in 1..(k+1), i # k + 1, i # 1
          PROVE  i \in 1..k /\ i - 1 \in 1..k
      BY <3>2
    <3>3. g[1] = f[1] /\ f[1] = 0
      BY <2>2, <2>3
    <3> HIDE DEF g
    <3>4. QED
      BY <2>2, <2>3, <3>1, <3>2, <3>3
  <2>5. IsAt(g, pkts, k + 1)
    BY <2>4 DEF IsAt
  <2>6. k + 1 \in 1..n /\ \E h : IsAt(h, pkts, k + 1)
    <3> HIDE DEF g
    <3>1. QED
      BY <1>2, <2>5
  <2>7. QED
    BY <2>6
<1> HIDE DEF S
<1>3. 1..n \subseteq S
  BY <1>1, <1>2, IntervalInduction
<1>4. QED
  BY <1>3 DEF S

\* Shorter ones are its beginning.
LEMMA AtUnique ==
    ASSUME NEW pkts, NEW n \in Nat \ {0}, NEW m \in Nat \ {0}, n <= m,
           NEW f, IsAt(f, pkts, n), NEW g, IsAt(g, pkts, m)
    PROVE  f[n] = g[n]
<1> DEFINE S == {k \in 1..n : f[k] = g[k]}
<1>1. 1 \in S
  BY DEF IsAt
<1>2. ASSUME NEW k \in 1..n, k \in S, k # n
      PROVE  k + 1 \in S
  <2>1. k + 1 \in 1..n /\ k + 1 \in 1..m /\ k + 1 # 1 /\ (k + 1) - 1 = k
    BY <1>2
  <2>2. f[k+1] = f[k] + PacketLen(pkts[k]) /\ g[k+1] = g[k] + PacketLen(pkts[k])
    BY <2>1 DEF IsAt
  <2>3. QED
    BY <1>2, <2>1, <2>2
<1> HIDE DEF S
<1>3. 1..n \subseteq S
  BY <1>1, <1>2, IntervalInduction
<1>4. QED
  BY <1>3 DEF S

\* The recurrence: a packet starts where the one before it ends.
LEMMA StartOfNext ==
    ASSUME NEW pkts
    PROVE  /\ StartOf(pkts, 1) = 0
           /\ \A k \in Nat \ {0} :
                StartOf(pkts, k + 1) = StartOf(pkts, k) + PacketLen(pkts[k])
<1> DEFINE At(k) == CHOOSE f : IsAt(f, pkts, k)
<1>1. \A k : StartOf(pkts, k) = At(k)[k]
  BY DEF StartOf, IsAt
<1>2. \A k \in Nat \ {0} : IsAt(At(k), pkts, k)
  BY AtExists
<1> HIDE DEF At
<1>3. At(1)[1] = 0
  BY <1>2 DEF IsAt
<1>4. ASSUME NEW k \in Nat \ {0}
      PROVE  At(k+1)[k+1] = At(k)[k] + PacketLen(pkts[k])
  <2>1. IsAt(At(k), pkts, k) /\ IsAt(At(k+1), pkts, k + 1)
    BY <1>2
  <2>2. At(k)[k] = At(k+1)[k]
    BY <2>1, AtUnique
  <2>3. At(k+1)[k+1] = At(k+1)[k] + PacketLen(pkts[k])
    <3>1. k + 1 \in 1..(k+1) /\ k + 1 # 1 /\ (k + 1) - 1 = k
      OBVIOUS
    <3>2. QED
      BY <2>1, <3>1 DEF IsAt
  <2>4. QED
    BY <2>2, <2>3
<1>5. QED
  BY <1>1, <1>3, <1>4

LEMMA PacketLenType ==
    ASSUME NEW pkt \in Packet
    PROVE  PacketLen(pkt) \in Nat /\ PacketLen(pkt) > GSE_MAX_HEADER_LENGTH
BY GseAssumption DEF GseAssumption, Packet, PacketLen

LEMMA StartOfType ==
    ASSUME NEW pkts \in Seq(Packet), NEW k \in 1..(Len(pkts) + 1)
    PROVE  StartOf(pkts, k) \in Nat
<1> DEFINE S == {i \in 1..(Len(pkts) + 1) : StartOf(pkts, i) \in Nat}
<1>1. 1 \in S
  BY StartOfNext
<1>2. ASSUME NEW i \in 1..(Len(pkts) + 1), i \in S, i # Len(pkts) + 1
      PROVE  i + 1 \in S
  <2>1. pkts[i] \in Packet /\ i + 1 \in 1..(Len(pkts) + 1)
    BY <1>2
  <2>2. StartOf(pkts, i + 1) = StartOf(pkts, i) + PacketLen(pkts[i])
    BY StartOfNext
  <2>3. QED
    BY <1>2, <2>1, <2>2, PacketLenType
<1> HIDE DEF S
<1>3. 1..(Len(pkts) + 1) \subseteq S
  <2>1. Len(pkts) + 1 \in Nat
    OBVIOUS
  <2>2. QED
    BY <1>1, <1>2, <2>1, IntervalInduction
<1>4. QED
  BY <1>3 DEF S

\* A later packet starts at least a header behind an earlier one.
LEMMA StartOfGrows ==
    ASSUME NEW pkts \in Seq(Packet), NEW j \in 1..(Len(pkts) + 1),
           NEW k \in 1..(Len(pkts) + 1), j < k
    PROVE  StartOf(pkts, j) + GSE_MAX_HEADER_LENGTH < StartOf(pkts, k)
<1> DEFINE Behind(i) == StartOf(pkts, j) + GSE_MAX_HEADER_LENGTH < StartOf(pkts, i)
           S == {i \in (j+1)..(Len(pkts) + 1) : Behind(i)}
<1>1. \A i \in 1..Len(pkts) :
        /\ StartOf(pkts, i + 1) = StartOf(pkts, i) + PacketLen(pkts[i])
        /\ PacketLen(pkts[i]) \in Nat /\ PacketLen(pkts[i]) > GSE_MAX_HEADER_LENGTH
  <2>1. \A i \in 1..Len(pkts) : pkts[i] \in Packet /\ i \in Nat \ {0}
    OBVIOUS
  <2>2. QED
    BY <2>1, StartOfNext, PacketLenType
<1>2. \A i \in 1..(Len(pkts) + 1) : StartOf(pkts, i) \in Nat
  BY StartOfType
<1>3. GSE_MAX_HEADER_LENGTH \in Nat
  BY GseAssumption DEF GseAssumption
<1>4. j + 1 \in S
  BY <1>1, <1>2, <1>3
<1>5. ASSUME NEW i \in (j+1)..(Len(pkts) + 1), i \in S, i # Len(pkts) + 1
      PROVE  i + 1 \in S
  <2>1. i \in 1..Len(pkts) /\ i + 1 \in 1..(Len(pkts) + 1)
    BY <1>5
  <2>2. /\ StartOf(pkts, i + 1) = StartOf(pkts, i) + PacketLen(pkts[i])
        /\ PacketLen(pkts[i]) \in Nat
        /\ StartOf(pkts, i) \in Nat /\ StartOf(pkts, j) \in Nat
    BY <1>1, <1>2, <2>1
  <2>3. Behind(i)
    BY <1>5
  <2>4. Behind(i + 1)
    BY <1>3, <2>2, <2>3
  <2>5. QED
    BY <2>1, <2>4, <1>5
<1> HIDE DEF S
<1>6. (j+1)..(Len(pkts) + 1) \subseteq S
  <2>1. Len(pkts) + 1 \in Nat /\ j + 1 \in Nat
    OBVIOUS
  <2>2. QED
    BY <1>4, <1>5, <2>1, IntervalInduction
<1>7. QED
  BY <1>6 DEF S
=============================================================================
