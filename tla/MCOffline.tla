----------------------------- MODULE MCOffline -----------------------------
(* Offline for TLC: nncp-xfer at A, nncp-xfer and nncp-bundle at B. *)
EXTENDS Offline

CONSTANTS d1, a, b1, b2
AtNodes == [c \in {a, b1, b2} |-> IF c = a THEN "A" ELSE "B"]
Programs == [c \in {a, b1, b2} |->
                IF c = b2 THEN {"bundlerx"} ELSE {"xfertx", "xferrx"}]
=============================================================================
