------------------------------ MODULE MCFiles ------------------------------
(* Files for TLC.  Its parts have no state in common, so each behaviour is *)
(* of one of them, while the others stay where they begin.                 *)
EXTENDS Files

CONSTANTS r1, r2, r3

VARIABLES subject

hashing == <<filesize, resumed, fed, hasher, hashed>>
packing == <<payload, minSize, damage, stream, reader>>
piping  == <<hops, area, source, stage, err, lacking, got, ignored, feed, caller>>
mcVars  == <<subject, hashing, packing, piping, vars>>

(* A second attempt is longer than the first. *)
TwoSizes == <<3, 5>>

(* Sizes around the ends of blocks of 4, and padding up to 18. *)
FewPayloads == 1..8
FewMinSizes == {0} \cup 6..18

(* Up to nine blocks of 2, the last of them short or not. *)
FewHashSizes == 0..17

OneHash   == filesize = 0 /\ Hash!Init
OnePacket == payload = 1 /\ minSize = 0 /\ damage = [kind |-> "none", at |-> 0] /\ Pkt!Init
OnePipe   == hops = 1 /\ area = FALSE /\ source = "plain" /\ Pipe!Init

MCInit ==
    \/ subject = "hash"   /\ Hash!Init /\ OnePacket /\ OnePipe  /\ Init
    \/ subject = "packet" /\ OneHash   /\ Pkt!Init  /\ OnePipe  /\ Init
    \/ subject = "pipe"   /\ OneHash   /\ OnePacket /\ Pipe!Init /\ Init
    \/ subject = "chunks" /\ OneHash   /\ OnePacket /\ OnePipe  /\ Init

(* Where each may come to rest.  TLC reports any other state without a     *)
(* next one, and so checks that what GoesOn says can go on does.           *)
Over ==
    \/ subject = "hash" /\ hashed = "summed"
    \/ subject = "packet" /\ reader.stage \in {"done", "error"}
    \/ subject = "pipe" /\ ~Pipe!GoesOn
    \/ /\ subject = "chunks"
       /\ ~sending /\ flight = {} /\ \A r \in Reassemblers : reass[r].at = "idle"

MCNext ==
    \/ /\ subject = "hash" /\ Hash!Next
       /\ UNCHANGED <<subject, packing, piping, vars>>
    \/ /\ subject = "packet" /\ Pkt!Next
       /\ UNCHANGED <<subject, hashing, piping, vars>>
    \/ /\ subject = "pipe" /\ Pipe!Next
       /\ UNCHANGED <<subject, hashing, packing, vars>>
    \/ /\ subject = "chunks" /\ Next
       /\ UNCHANGED <<subject, hashing, packing, piping>>
    \/ Over /\ UNCHANGED mcVars

MCSpec == MCInit /\ [][MCNext]_mcVars
=============================================================================
