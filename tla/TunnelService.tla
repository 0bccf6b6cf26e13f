--------------------------- MODULE TunnelService ----------------------------
(***************************************************************************)
(* What the tunnel promises to the two networks it joins: a frame that     *)
(* comes out is one that went in, whole; it comes out once, unless the     *)
(* network between satencap and satdecap duplicated a datagram; and, when  *)
(* that network keeps datagrams in order, frames come out in order.        *)
(* Nothing promises that a frame comes out.                                *)
(***************************************************************************)
EXTENDS Naturals, Sequences, FiniteSets, Functions

CONSTANTS Frames,        \* records with a field id, the order they went in
          Ordered        \* whether the network keeps datagrams in order

VARIABLES offered,       \* frames the sending side accepted
          delivered,     \* frames written by the receiving side, in order
          copies         \* datagrams the network duplicated

serviceVars == <<offered, delivered, copies>>

Init == offered = {} /\ delivered = <<>> /\ copies = 0

Repeats(seq) == Len(seq) - Cardinality(Range(seq))

Offer(f) ==
    /\ \A g \in offered : g.id < f.id
    /\ offered' = offered \union {f}
    /\ UNCHANGED <<delivered, copies>>

Deliver(f) ==
    /\ f \in offered
    /\ Ordered => \A k \in DOMAIN delivered : delivered[k].id < f.id
    /\ delivered' = Append(delivered, f)
    /\ Repeats(delivered') <= copies
    /\ UNCHANGED <<offered, copies>>

Duplicate ==
    /\ ~Ordered
    /\ copies' = copies + 1
    /\ UNCHANGED <<offered, delivered>>

Next == Duplicate \/ \E f \in Frames : Offer(f) \/ Deliver(f)

Spec == Init /\ [][Next]_serviceVars
=============================================================================
