---------------------------- MODULE MCForeignCall ----------------------------
(* Calls with up to four parameters of every kind of value, and with five to  *)
(* eight of every size.  A quarter of a register has four values here, a       *)
(* register 256.                                                            *)
EXTENDS ForeignCall

MCTarget == 180        \* every quarter different, the top bit set

\* Small, above a half, above a quarter, negative small and large.
MCData == {0, 5, 7, 100, 130, 255}
Whole == {[data |-> d, size |-> 8] : d \in MCData}
Sized == {[data |-> 3, size |-> s] : s \in {1, 2, 4, 8}}
Struct == [data |-> 0, size |-> 3]

MCCalls ==
  UNION {[1 .. n -> Whole] : n \in 0 .. 3}
    \cup {<<p, q, p, q>> : p, q \in Whole}
    \cup {<<p>> \o t \o <<q, p, q>> : p, q \in Sized, t \in [1 .. 1 -> Sized \cup {Struct}]}
    \cup {<<p>> \o t \o <<q, p, q>> : p, q \in Sized, t \in [1 .. 2 -> Sized]}
    \cup {<<p>> \o t \o <<p, p, q>> : p, q \in Sized, t \in [1 .. 3 -> Sized]}
=============================================================================
