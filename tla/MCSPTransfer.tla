---------------------------- MODULE MCSPTransfer ----------------------------
(* Small instances of SPTransfer for TLC. *)
EXTENDS SPTransfer
CONSTANTS p1, p2

OnePkt  == {p1}
TwoPkts == {p1, p2}
First   == {p1}
Sizes == [p \in Pkts |-> IF p = p1 THEN 2 ELSE 1]
Nices == [p \in Pkts |-> IF p = p1 THEN 1 ELSE 2]
=============================================================================
