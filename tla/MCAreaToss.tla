----------------------------- MODULE MCAreaToss -----------------------------
(* A small network for TLC: A, who writes, and B, who has no key, relay to *)
(* each other and to C, who gets the message twice, reads it and relays it *)
(* to A.                                                                   *)
EXTENDS AreaToss
CONSTANTS A, B, C

All     == {A, B, C}
Circles == [n \in Nodes |-> IF n = C THEN {A} ELSE Nodes \ {n}]
Readers == {A, C}
OnlyC   == {C}
=============================================================================
