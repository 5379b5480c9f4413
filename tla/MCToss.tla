------------------------------- MODULE MCToss -------------------------------
(* Small instances of Toss for TLC: two neighbours a and b, nncp-toss (cmd) *)
(* that tosses both, and an AutoToss of each.                              *)
EXTENDS Toss
CONSTANTS p1, p2, p3, p4, a, b, cmd, autoA, autoB, dst, sub, dirA, dirB

One      == {p1}
Two      == {p1, p2}
OneEach  == {p1, p3}
Passed   == {p1, p2, p3, p4}
ThirdOnly == {p3}
FourthOnly == {p4}
Both     == {a, b}
Mixed    == {cmd, autoA}
AutoOnly == {autoA}
Autos    == {autoA, autoB}
Subdir   == {sub}
VisitsOf == [t \in Tossers |-> IF t = cmd THEN Nodes ELSE IF t = autoA THEN {a} ELSE {b}]
FromA    == [p \in Pkts |-> IF p = p3 THEN b ELSE a]
SameDst  == [p \in Pkts |-> dst]
SubDst   == [p \in Pkts |-> sub]
Together == [n \in Nodes |-> dirA]
Apart    == [n \in Nodes |-> IF n = a THEN dirA ELSE dirB]
=============================================================================
