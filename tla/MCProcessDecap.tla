--------------------------- MODULE MCProcessDecap ---------------------------
(***************************************************************************)
(* Small instances of ProcessDecap: headers of 2 bytes, datagrams of at    *)
(* most 9 bytes of which the longest is cut by recvfrom().                 *)
(***************************************************************************)
EXTENDS ProcessDecap

Pkt(id, from, to, total) == [id |-> id, from |-> from, to |-> to, total |-> total]
Dg(pkts, pad) == [src |-> "remote", pkts |-> pkts, pad |-> pad]

\* A whole frame, and the three fragments of a longer one.
Whole == Pkt(1, 0, 2, 2)
First == Pkt(2, 0, 2, 5)
Middle == Pkt(2, 2, 4, 5)
LastPart == Pkt(2, 4, 5, 5)

AnyDatagram ==
    { Dg(<<Whole>>, 0), Dg(<<Whole>>, 1), Dg(<<First>>, 4), Dg(<<LastPart>>, 1),
      Dg(<<First, LastPart>>, 0), Dg(<<Middle, LastPart>>, 1), Dg(<<LastPart, Whole>>, 1),
      Dg(<<First, Middle, LastPart>>, 0),                \* 11 bytes: the last is cut
      Dg(<<>>, 1), Dg(<<>>, 0),
      [src |-> "other", pkts |-> <<Whole>>, pad |-> 0] }

AnyGarbage == {0, 3}
AnyFault == DecapFaults
=============================================================================
