---------------------------- MODULE MCArguments -----------------------------
(***************************************************************************)
(* Command lines for TLC.  An int has 16 bits and an unsigned long 24: the *)
(* lengths around MIN_ENCAP_FRAME_SIZE, INT_MAX and UINT_MAX are given.    *)
(***************************************************************************)
EXTENDS Arguments

Number(v) == [zero |-> FALSE, val |-> v, rest |-> FALSE]
Zero == [zero |-> TRUE, val |-> 0, rest |-> FALSE]            \* 0
DoubleZero == Number(0)                                       \* 00
Unit == [zero |-> FALSE, val |-> 7, rest |-> TRUE]            \* 7x

Address(tokens) == [address |-> TRUE, tokens |-> tokens]
Len_(o, n) == [opt |-> o, number |-> n]

ManyOptions ==
    { [opt |-> "h"], [opt |-> "c"],
      [opt |-> "i", exists |-> TRUE],
      [opt |-> "l", at |-> Address(<<Number(35000)>>)],
      [opt |-> "r", at |-> Address(<<Number(35001)>>)],
      [opt |-> "r", at |-> Address(<<Number(65536)>>)],
      Len_("p", Zero), Len_("p", Number(33)), Len_("p", Number(34)),
      Len_("p", Number(UINT_MAX)), Len_("p", Number(UINT_MAX + 41)), Len_("p", Unit),
      Len_("b", Number(INT_MAX + 1)),
      Len_("t", Zero), Len_("t", DoubleZero), Len_("t", Number(2500)) }
=============================================================================
