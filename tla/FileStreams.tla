---------------------------- MODULE FileStreams ----------------------------
(***************************************************************************)
(* What a session's sender owes its peer, whatever the order of its queue: *)
(* every requested packet is sent chunk after chunk from the offset of its *)
(* FREQ, each chunk once, until its end is reached; a packet requested     *)
(* from its very end gets one empty FILE.                                  *)
(***************************************************************************)
EXTENDS Integers

CONSTANTS Packets, Length, None, NoFile

VARIABLES
    next,        \* next[p]: offset the next FILE of p has, or None
    finished,    \* packets sent to their end
    file         \* the last FILE sent, or NoFile

vars == <<next, finished, file>>

Init == next = [p \in Packets |-> None] /\ finished = {} /\ file = NoFile

Request(p, off) ==
    /\ next[p] = None /\ p \notin finished
    /\ next' = [next EXCEPT ![p] = off]
    /\ UNCHANGED <<finished, file>>

Send(p) ==
    /\ next[p] # None
    /\ file' = [pkt |-> p, off |-> next[p]]
    /\ IF next[p] + 1 < Length[p]
       THEN next' = [next EXCEPT ![p] = @ + 1] /\ UNCHANGED finished
       ELSE next' = [next EXCEPT ![p] = None] /\ finished' = finished \cup {p}

Next == \E p \in Packets : Send(p) \/ \E off \in 0..Length[p] : Request(p, off)

Spec == Init /\ [][Next]_vars
=============================================================================
