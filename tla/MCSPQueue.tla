----------------------------- MODULE MCSPQueue -----------------------------
(* A small instance of SPQueue for TLC: four packets that are served, two  *)
(* of them of the same niceness and of several chunks, one named by -pkts, *)
(* and one that is unknown.                                                *)
EXTENDS SPQueue
CONSTANTS p1, p2, p3, p4, p5, p6

AllPkts == {p1, p2, p3, p4, p5, p6}
Offered == {p1, p2, p3, p4, p5}
Named == {p5}
Sizes == [p \in Pkts |-> IF p = p1 THEN 3 ELSE IF p = p3 THEN 2 ELSE 1]
Nices == [p \in Pkts |-> IF p = p2 THEN 3 ELSE IF p = p4 THEN 1 ELSE 2]
=============================================================================
