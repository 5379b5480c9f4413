------------------------------ MODULE SPQueue ------------------------------
(***************************************************************************)
(* The queue of FREQs a session's sender goroutine serves (queueTheir).    *)
(* The receiver goroutine inserts each FREQ by the niceness of its packet; *)
(* the sender goroutine looks at the first one, reads and sends a FILE     *)
(* chunk of it without holding the lock, and then finds the entry again to *)
(* advance or remove it: FREQs inserted meanwhile may have moved it.       *)
(*                                                                         *)
(* A packet is requested once in a session (SPTransfer's OneStream).       *)
(***************************************************************************)
EXTENDS Integers, Sequences, SequencesExt

CONSTANTS
    Pkts,        \* packets the peer may request
    NoPkt,       \* "no packet"
    Size,        \* Size[p]: length of p in chunks
    Nice,        \* Nice[p]: niceness it was offered with
    Known,       \* infosOurSeen: packets this session has offered
    OnlyPkts     \* packets named by nncp-call -pkts, which are not sent

Absent == -1

ASSUME QueueAssumption ==
    /\ NoPkt \notin Pkts
    /\ Size \in [Pkts -> Nat \ {0}]
    /\ Nice \in [Pkts -> Nat]
    /\ Known \subseteq Pkts /\ OnlyPkts \subseteq Pkts

VARIABLES
    asked,       \* packets whose FREQ has arrived
    queueTheir,  \* entries [pkt, off]: next offset to send of pkt
    current,     \* the entry the sender goroutine is at work on, or NoEntry
    finished,    \* packets sent to their end
    file         \* the last FILE queued for sending, or NoEntry

vars == <<asked, queueTheir, current, finished, file>>

Entry(p, off) == [pkt |-> p, off |-> off]
NoEntry == Entry(NoPkt, Absent)
Served == Known \ OnlyPkts
NiceAt(i) == Nice[queueTheir[i].pkt]

Init ==
    /\ asked = {} /\ queueTheir = <<>> /\ current = NoEntry
    /\ finished = {} /\ file = NoEntry

\* Bug: the loop breaks at the first entry that is less nice.
BuggyInsertPos(k, nice) ==
    IF \E i \in 1..Len(queueTheir) : NiceAt(i) < nice
    THEN /\ k \in 1..Len(queueTheir) /\ NiceAt(k) < nice
         /\ \A i \in 1..k - 1 : NiceAt(i) >= nice
    ELSE k = 1

\* Bug: the loop breaks at the first entry that is as nice.
EqualInsertPos(k, nice) ==
    IF \E i \in 1..Len(queueTheir) : NiceAt(i) >= nice
    THEN /\ k \in 1..Len(queueTheir) /\ NiceAt(k) >= nice
         /\ \A i \in 1..k - 1 : NiceAt(i) < nice
    ELSE k = IF queueTheir = <<>> THEN 1 ELSE Len(queueTheir)

\* Where the loop over queueTheir leaves insertIdx: at the first nicer entry,
\* or else at the last entry, the index of its last turn.
InsertPos(k, nice) ==
    IF \E i \in 1..Len(queueTheir) : NiceAt(i) > nice
    THEN /\ k \in 1..Len(queueTheir) /\ NiceAt(k) > nice
         /\ \A i \in 1..k - 1 : NiceAt(i) <= nice
    ELSE k = IF queueTheir = <<>> THEN 1 ELSE Len(queueTheir)

RecvFreq(p, off) ==
    /\ p \notin asked
    /\ asked' = asked \cup {p}
    /\ IF p \in Served
       THEN \E k \in 1..Len(queueTheir) + 1 :
              /\ InsertPos(k, Nice[p])
              /\ queueTheir' = InsertAt(queueTheir, k, Entry(p, off))
       ELSE UNCHANGED queueTheir
    /\ UNCHANGED <<current, finished, file>>

\* The sender goroutine looks at the first entry.
Pick ==
    /\ current = NoEntry
    /\ queueTheir # <<>>
    /\ current' = queueTheir[1]
    /\ UNCHANGED <<asked, queueTheir, finished, file>>

\* Bug: freq.Offset <= fullSize.
BuggyChunkLen(p, off) == IF off <= Size[p] THEN 1 ELSE 0

ChunkLen(p, off) == IF off < Size[p] THEN 1 ELSE 0

\* Bugs: the entry is taken to be the first one still; it is removed only
\* once the offset is past the end.
AdvanceAs(at(_), last(_, _)) ==
    LET end == current.off + ChunkLen(current.pkt, current.off)
    IN  /\ current # NoEntry
        /\ current' = NoEntry
        /\ file' = current
        /\ \E i \in {j \in 1..Len(queueTheir) : at(j)} :
             IF last(current.pkt, end)
             THEN queueTheir' = RemoveAt(queueTheir, i)
             ELSE queueTheir' = [queueTheir EXCEPT ![i].off = end]
        /\ finished' = IF last(current.pkt, end)
                       THEN finished \cup {current.pkt} ELSE finished
        /\ UNCHANGED asked
FirstAdvance == AdvanceAs(LAMBDA j : j = 1, LAMBDA p, end : end = Size[p])
EndlessAdvance == AdvanceAs(LAMBDA j : queueTheir[j].pkt = current.pkt,
                            LAMBDA p, end : end > Size[p])

\* The chunk read is on its way; the entry is looked for by its packet.
Advance ==
    LET end == current.off + ChunkLen(current.pkt, current.off)
    IN  /\ current # NoEntry
        /\ current' = NoEntry
        /\ file' = current
        /\ \E i \in 1..Len(queueTheir) :
             /\ queueTheir[i].pkt = current.pkt
             /\ IF end = Size[current.pkt]
                THEN queueTheir' = RemoveAt(queueTheir, i)
                ELSE queueTheir' = [queueTheir EXCEPT ![i] = Entry(current.pkt, end)]
        /\ finished' = IF end = Size[current.pkt]
                       THEN finished \cup {current.pkt} ELSE finished
        /\ UNCHANGED asked

Next ==
    \/ \E p \in Pkts : \E off \in 0..Size[p] : RecvFreq(p, off)
    \/ Pick \/ Advance

Spec == Init /\ [][Next]_vars

\* The sender goroutine keeps running.
FairSpec == Spec /\ WF_vars(Pick \/ Advance)

-----------------------------------------------------------------------------
(* Properties *)

Entries == [pkt : Pkts, off : Nat]
TypeOK ==
    /\ asked \subseteq Pkts /\ finished \subseteq Pkts
    /\ queueTheir \in Seq(Entries)
    /\ \A i \in 1..Len(queueTheir) : queueTheir[i].off <= Size[queueTheir[i].pkt]
    /\ current = NoEntry \/ current \in Entries
    /\ file = NoEntry \/ file \in Entries

\* Every entry but the last is in its place: what a FREQ arriving at the
\* sender may break of the order by niceness, and no more, however long the
\* queue and whatever is sent meanwhile.
AllButLastSorted ==
    \A i, j \in 1..Len(queueTheir) - 1 : i <= j => NiceAt(i) <= NiceAt(j)

\* While the sender reads a chunk, the entry it reads for stays in the queue,
\* once, with the offset it was read at, wherever insertions move it.
CurrentQueued ==
    current # NoEntry =>
        \E i \in 1..Len(queueTheir) : queueTheir[i] = current
OneEntry ==
    /\ \A i, j \in 1..Len(queueTheir) :
         queueTheir[i].pkt = queueTheir[j].pkt => i = j
    /\ \A i \in 1..Len(queueTheir) :
         queueTheir[i].pkt \in (asked \cap Served) \ finished
    /\ finished \subseteq asked

\* A packet that is being sent is left unfinished only for a nicer one, or
\* when it is the last of the queue, whatever FREQs arrive between the
\* sender's looks at the queue: never for one that is as nice.
OnlyForNicer ==
    [][/\ file # NoEntry /\ file' # file
       /\ file.pkt \notin finished /\ file'.pkt # file.pkt
       => \/ Nice[file'.pkt] < Nice[file.pkt]
          \/ queueTheir[Len(queueTheir)].pkt = file.pkt]_vars

\* sp.texi: the queue is sorted by niceness, higher priority packets are
\* sent first.
PriorityFirst ==
    [][Pick => \A i \in 1..Len(queueTheir) :
                   NiceAt(i) >= Nice[current'.pkt]]_vars

\* The sender sends what FileStreams says.
OffIn(s, p) ==
    IF \E i \in 1..Len(s) : s[i].pkt = p
    THEN s[CHOOSE i \in 1..Len(s) : s[i].pkt = p].off
    ELSE Absent
Streams == INSTANCE FileStreams WITH
    Packets <- Pkts, Length <- Size, None <- Absent, NoFile <- NoEntry,
    next <- [p \in Pkts |-> OffIn(queueTheir, p)]
SendsStreams == Streams!Spec

\* Every accepted request is served to the end, however nice its packet is.
AllSent == \A p \in Pkts : p \in asked \cap Served ~> p \in finished
=============================================================================
