--------------------------- MODULE PacketCustody ---------------------------
(***************************************************************************)
(* What the synchronization protocol promises about a packet, whatever     *)
(* sessions, downloads, checkers and crashes there are on the way: the     *)
(* sender gives its copy up only after the receiver has a complete and     *)
(* intact one, and the receiver never loses what it has taken over; it can *)
(* only hand it to the user.                                               *)
(***************************************************************************)
CONSTANT Packets

VARIABLES
    outbox,      \* packets the sender still has
    custody,     \* packets of which the receiver has a complete copy
    handedOver   \* packets that have reached the user

vars == <<outbox, custody, handedOver>>

Init == outbox = {} /\ custody = {} /\ handedOver = {}

Submit(p) ==
    /\ outbox' = outbox \cup {p}
    /\ UNCHANGED <<custody, handedOver>>

\* The receiver finds itself with complete copies (a crash may reveal that
\* several were already on its disk).
Take(P) ==
    /\ P \subseteq outbox
    /\ custody' = custody \cup P
    /\ UNCHANGED <<outbox, handedOver>>

Release(p) ==
    /\ p \in custody
    /\ outbox' = outbox \ {p}
    /\ UNCHANGED <<custody, handedOver>>

HandOver(p) ==
    /\ p \in custody
    /\ handedOver' = handedOver \cup {p}
    /\ UNCHANGED <<outbox, custody>>

Next ==
    \/ \E p \in Packets : Submit(p) \/ Release(p) \/ HandOver(p)
    \/ \E P \in SUBSET Packets : Take(P)

Spec == Init /\ [][Next]_vars
=============================================================================
