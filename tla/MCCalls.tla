------------------------------ MODULE MCCalls ------------------------------
(* Two calls of nncp-caller, one of them receive-only, and a connection to *)
(* the daemon; two regular expressions match the one interface.            *)
EXTENDS Calls

CONSTANTS c1, c2, conn, r1, r2, ifi
LocksOf == [s \in {c1, c2, conn} |-> IF s = c2 THEN {"rx"} ELSE {"rx", "tx"}]
Same == [r \in {r1, r2} |-> ifi]
=============================================================================
