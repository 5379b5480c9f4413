------------------------------ MODULE Offline ------------------------------
(***************************************************************************)
(* Packets carried by hand: nncp-xfer through a shared directory, and      *)
(* nncp-bundle through a stream ("tape"), from node A to node B, with the  *)
(* acknowledgements B sends back the same ways (nncp-ack) and the cleaning *)
(* of nncp-rm.  A node runs any number of these commands at a time; only   *)
(* nncp-xfer's sending half takes a lock.                                  *)
(*                                                                         *)
(* A file is absent, intact or corrupt.  A file that was renamed into a    *)
(* directory not yet synced may be gone after a crash of the machine.      *)
(***************************************************************************)
EXTENDS Integers, FiniteSets

CONSTANTS
    Data,       \* the packets of A for B
    Procs,      \* running commands
    Host,       \* the node a command runs at
    May,        \* what it may be, nncp-xfer's halves or nncp-bundle -rx
    TxKeeps,    \* whether nncp-xfer sends with -keep
    RxKeeps,    \* whether nncp-xfer receives with -keep
    Bundled,    \* whether ACKs travel in bundles too
    DoSeen,     \* whether nncp-toss makes seen/ files
    MaxFaults   \* kills, crashes, failing calls, corruptions, removals

ASSUME ProcsAssumption ==
    /\ Host \in [Procs -> {"A", "B"}]
    /\ May \in [Procs -> SUBSET {"xfertx", "xferrx", "bundlerx"}]
ASSUME OptionsAreBool ==
    TxKeeps \subseteq BOOLEAN /\ RxKeeps \subseteq BOOLEAN
    /\ DoSeen \in BOOLEAN /\ Bundled \in BOOLEAN
ASSUME FaultsAreNat == MaxFaults \in Nat

(* A data packet, or the ACK packet that names it. *)
Packets == [of : Data, ack : BOOLEAN]
Src(p)  == IF p.ack THEN "B" ELSE "A"
Dst(p)  == IF p.ack THEN "A" ELSE "B"
Pkt(d)    == [of |-> d, ack |-> FALSE]
AckOf(p)  == [p EXCEPT !.ack = TRUE]

VARIABLES
    tx,         \* <spool>/<Dst>/tx/<packet> at Src
    media,      \* <dir>/<Dst>/<Src>/<packet>
    tape,       \* the packet's entry in a bundle
    rx,         \* <spool>/<Src>/rx/<packet> at Dst
    seen,       \* <spool>/<Src>/rx/seen/<packet> at Dst
    unsynced,   \* directory entries not durable yet
    delivered,  \* data B has tossed
    proc,       \* what each command is doing
    faults,     \* faults so far
    unchecked,  \* packets a bundle brought in without -check
    risked      \* packets whose safe copy was given up (see NeverLost)

vars == <<tx, media, tape, rx, seen, unsynced, delivered, proc, faults,
          unchecked, risked>>

Copies == {"none", "good", "bad"}
Idle   == [prog |-> "none"]
Jobs   == [prog : {"xfertx", "xferrx", "bundlerx"},
           step : {"temp", "notemp", "renamed"},
           pkt : Packets, data : Copies, keep : BOOLEAN, check : BOOLEAN]

Init ==
    /\ tx = [p \in Packets |-> IF p.ack THEN "none" ELSE "good"]
    /\ media = [p \in Packets |-> "none"]
    /\ tape = [p \in Packets |-> "none"]
    /\ rx = [p \in Packets |-> "none"]
    /\ seen = {} /\ unsynced = {} /\ delivered = {}
    /\ proc = [c \in Procs |-> Idle]
    /\ faults = 0
    /\ unchecked = {} /\ risked = {}

At(c, progs, step) == proc[c].prog \in progs /\ proc[c].step = step
Goes(c, step) == proc' = [proc EXCEPT ![c].step = step]
Stops(c)      == proc' = [proc EXCEPT ![c] = Idle]
Free(c, prog) == proc[c] = Idle /\ prog \in May[c]
Receiving     == {"xferrx", "bundlerx"}

----------------------------------------------------------------------------
(* nncp-xfer -tx.  One job: temporary file beside the destination, synced; *)
(* rename; DirSync; then the job is removed, unless -keep.  A packet whose *)
(* name is on the medium already is skipped.                               *)

TxUnlocked(h) == \A c \in Procs : Host[c] = h => proc[c].prog # "xfertx"

XferTx(c, p, keep) ==
    /\ keep \in TxKeeps
    /\ Free(c, "xfertx") /\ Host[c] = Src(p)
    /\ TxUnlocked(Src(p))
    /\ tx[p] # "none" /\ media[p] = "none"
    /\ proc' = [proc EXCEPT ![c] =
          [prog |-> "xfertx", step |-> "temp", pkt |-> p, data |-> tx[p],
           keep |-> keep, check |-> FALSE]]
    /\ UNCHANGED <<tx, media, tape, rx, seen, unsynced, delivered, faults,
                   unchecked, risked>>

XferTxRename(c) ==
    /\ At(c, {"xfertx"}, "temp")
    /\ LET p == proc[c].pkt IN
          /\ media' = [media EXCEPT ![p] = proc[c].data]
          /\ unsynced' = unsynced \cup {<<"media", p>>}
    /\ Goes(c, "renamed")
    /\ UNCHANGED <<tx, tape, rx, seen, delivered, faults, unchecked, risked>>

\* Bug: the job is removed before DirSync.
EarlyRemove(c) ==
    /\ At(c, {"xfertx"}, "renamed")
    /\ tx' = IF proc[c].keep THEN tx ELSE [tx EXCEPT ![proc[c].pkt] = "none"]
    /\ Stops(c)
    /\ UNCHANGED <<media, tape, rx, seen, unsynced, delivered, faults,
                   unchecked, risked>>

(* DirSync, and then the removal: a crash between the two is one that      *)
(* spares the entry.                                                       *)
XferTxRemove(c) ==
    /\ At(c, {"xfertx"}, "renamed")
    /\ unsynced' = unsynced \ {<<"media", proc[c].pkt>>}
    /\ tx' = IF proc[c].keep THEN tx ELSE [tx EXCEPT ![proc[c].pkt] = "none"]
    /\ Stops(c)
    /\ UNCHANGED <<media, tape, rx, seen, delivered, faults, unchecked, risked>>

----------------------------------------------------------------------------
(* nncp-xfer -rx and nncp-bundle -rx.  Both copy into <spool>/tmp, sync,   *)
(* rename, DirSync.  nncp-xfer compares the checksum always, nncp-bundle   *)
(* with -check; nncp-xfer removes what it took from the medium, unless     *)
(* -keep, and what was seen before, unless -keep again.                    *)

XferSeen(c, p) ==
    /\ Free(c, "xferrx") /\ Host[c] = Dst(p)
    /\ media[p] # "none" /\ p \in seen
    /\ FALSE \in RxKeeps
    /\ media' = [media EXCEPT ![p] = "none"]
    /\ unsynced' = unsynced \ {<<"media", p>>}
    /\ UNCHANGED <<tx, tape, rx, seen, delivered, proc, faults, unchecked, risked>>

XferRx(c, p, keep) ==
    /\ keep \in RxKeeps
    /\ Free(c, "xferrx") /\ Host[c] = Dst(p)
    /\ media[p] # "none" /\ p \notin seen
    /\ proc' = [proc EXCEPT ![c] =
          [prog |-> "xferrx", step |-> "temp", pkt |-> p, data |-> media[p],
           keep |-> keep, check |-> TRUE]]
    /\ UNCHANGED <<tx, media, tape, rx, seen, unsynced, delivered, faults,
                   unchecked, risked>>

BundleRx(c, p, check) ==
    /\ Free(c, "bundlerx") /\ Host[c] = Dst(p)
    /\ tape[p] # "none" /\ rx[p] = "none" /\ p \notin seen
    /\ proc' = [proc EXCEPT ![c] =
          [prog |-> "bundlerx", step |-> "temp", pkt |-> p, data |-> tape[p],
           keep |-> TRUE, check |-> check]]
    /\ unchecked' = IF check THEN unchecked ELSE unchecked \cup {p}
    /\ UNCHANGED <<tx, media, tape, rx, seen, unsynced, delivered, faults, risked>>

\* Bug: the checksum is not compared.
CommitUnchecked(c) ==
    /\ At(c, Receiving, "temp")
    /\ LET p == proc[c].pkt IN
          /\ rx' = [rx EXCEPT ![p] = proc[c].data]
          /\ unsynced' = IF rx[p] = proc[c].data THEN unsynced
                         ELSE unsynced \cup {<<"rx", p>>}
    /\ Goes(c, "renamed")
    /\ UNCHANGED <<tx, media, tape, seen, delivered, faults, unchecked, risked>>

(* An unverified entry of a bundle may replace an intact packet that came  *)
(* another way since BundleRx looked.                                      *)
Commit(c) ==
    /\ At(c, Receiving, "temp")
    /\ proc[c].check => proc[c].data = "good"
    /\ LET p == proc[c].pkt IN
          /\ rx' = [rx EXCEPT ![p] = proc[c].data]
          /\ unsynced' = IF rx[p] = proc[c].data THEN unsynced
                         ELSE unsynced \cup {<<"rx", p>>}
          /\ risked' = IF rx[p] = "good" /\ proc[c].data = "bad"
                       THEN risked \cup {p} ELSE risked
    /\ Goes(c, "renamed")
    /\ UNCHANGED <<tx, media, tape, seen, delivered, faults, unchecked>>

Mismatch(c) ==
    /\ At(c, Receiving, "temp")
    /\ proc[c].check /\ proc[c].data # "good"
    /\ Stops(c)
    /\ UNCHANGED <<tx, media, tape, rx, seen, unsynced, delivered, faults,
                   unchecked, risked>>

(* The temporary file was removed meanwhile: the rename fails, log.Fatalln. *)
CommitFails(c) ==
    /\ At(c, Receiving, "notemp")
    /\ Stops(c)
    /\ UNCHANGED <<tx, media, tape, rx, seen, unsynced, delivered, faults,
                   unchecked, risked>>

RxRemove(c) ==
    /\ At(c, Receiving, "renamed")
    /\ LET p == proc[c].pkt IN
          /\ media' = IF proc[c].keep THEN media ELSE [media EXCEPT ![p] = "none"]
          /\ unsynced' = unsynced \ ({<<"rx", p>>} \cup
                           IF proc[c].keep THEN {} ELSE {<<"media", p>>})
    /\ Stops(c)
    /\ UNCHANGED <<tx, tape, rx, seen, delivered, faults, unchecked, risked>>

----------------------------------------------------------------------------
(* nncp-bundle -tx [-delete], and -rx -delete of a stream of one's own.    *)

(* -delete of -tx forgets the packet as soon as the stream has it. *)
BundleTx(p, delete) ==
    /\ p.ack => Bundled
    /\ tx[p] # "none"
    /\ tape' = [tape EXCEPT ![p] = tx[p]]
    /\ tx' = IF delete THEN [tx EXCEPT ![p] = "none"] ELSE tx
    /\ risked' = IF delete THEN risked \cup {p} ELSE risked
    /\ UNCHANGED <<media, rx, seen, unsynced, delivered, proc, faults, unchecked>>

\* Bug: the entry's name is trusted.
BundleDeleteUnread(p) ==
    /\ tx[p] # "none" /\ tape[p] # "none"
    /\ tx' = [tx EXCEPT ![p] = "none"]
    /\ UNCHANGED <<media, tape, rx, seen, unsynced, delivered, proc, faults,
                   unchecked, risked>>

BundleDelete(p) ==
    /\ tx[p] # "none" /\ tape[p] = "good"
    /\ tx' = [tx EXCEPT ![p] = "none"]
    /\ UNCHANGED <<media, tape, rx, seen, unsynced, delivered, proc, faults,
                   unchecked, risked>>

----------------------------------------------------------------------------
(* Tossing, acknowledging, removing. *)

(* Toss at the destination: data is delivered, an ACK removes the packet   *)
(* it names from tx/.  A corrupt packet stays where it is.                 *)
Toss(p) ==
    /\ rx[p] = "good"
    /\ rx' = [rx EXCEPT ![p] = "none"]
    /\ unsynced' = unsynced \ {<<"rx", p>>}
    /\ seen' = IF DoSeen THEN seen \cup {p} ELSE seen
    /\ IF p.ack
       THEN /\ tx' = [tx EXCEPT ![Pkt(p.of)] = "none"]
            /\ UNCHANGED delivered
       ELSE /\ delivered' = delivered \cup {p.of}
            /\ UNCHANGED tx
    /\ UNCHANGED <<media, tape, proc, faults, unchecked, risked>>

(* nncp-ack acknowledges what it finds in rx/, ACKs excepted.  It decrypts *)
(* the beginning of a packet only, so it does not notice a corrupt one; it *)
(* takes no lock, so that the packet's rename may not be durable yet.      *)
Ack(p) ==
    /\ ~p.ack /\ rx[p] # "none"
    /\ tx' = [tx EXCEPT ![AckOf(p)] = "good"]
    /\ risked' = IF rx[p] = "bad" \/ <<"rx", p>> \in unsynced
                 THEN risked \cup {p} ELSE risked
    /\ UNCHANGED <<media, tape, rx, seen, unsynced, delivered, proc, faults, unchecked>>

Faulty == faults < MaxFaults /\ faults' = faults + 1

(* nncp-rm -pkt, with the list of ACKs that nncp-ack wrote. *)
RmAck(p) ==
    /\ Faulty
    /\ p.ack /\ tx[p] # "none"
    /\ tx' = [tx EXCEPT ![p] = "none"]
    /\ UNCHANGED <<media, tape, rx, seen, unsynced, delivered, proc, unchecked, risked>>

(* nncp-rm -tmp, while others are copying. *)
RmTmp(h) ==
    /\ Faulty
    /\ proc' = [c \in Procs |->
          IF Host[c] = h /\ At(c, Receiving, "temp")
          THEN [proc[c] EXCEPT !.step = "notemp"] ELSE proc[c]]
    /\ proc' # proc
    /\ UNCHANGED <<tx, media, tape, rx, seen, unsynced, delivered, unchecked, risked>>

----------------------------------------------------------------------------
(* Faults. *)

(* A killed command, or an error the loop skips the packet for. *)
Kill(c) ==
    /\ Faulty
    /\ proc[c] # Idle
    /\ Stops(c)
    /\ UNCHANGED <<tx, media, tape, rx, seen, unsynced, delivered, unchecked, risked>>

(* The machine of h goes down: of the entries it did not sync, some stay. *)
Writer(e) == IF e[1] = "media" THEN Src(e[2]) ELSE Dst(e[2])

Crash(h) ==
    /\ Faulty
    /\ \/ \E c \in Procs : Host[c] = h /\ proc[c] # Idle
       \/ \E e \in unsynced : Writer(e) = h
    /\ \E gone \in SUBSET {e \in unsynced : Writer(e) = h} :
          /\ media' = [p \in Packets |->
                IF <<"media", p>> \in gone THEN "none" ELSE media[p]]
          /\ rx' = [p \in Packets |->
                IF <<"rx", p>> \in gone THEN "none" ELSE rx[p]]
    /\ unsynced' = {e \in unsynced : Writer(e) # h}
    /\ proc' = [c \in Procs |-> IF Host[c] = h THEN Idle ELSE proc[c]]
    /\ UNCHANGED <<tx, tape, seen, delivered, unchecked, risked>>

(* The medium or the tape damages a packet.  It is a loss nobody can help  *)
(* when tx/ has no copy any more, or is about to give its copy up.         *)
Entrusted(p) ==
    \/ tx[p] # "good"
    \/ \E c \in Procs : proc[c].prog = "xfertx" /\ proc[c].pkt = p /\ ~proc[c].keep

Rot(p) ==
    /\ Faulty
    /\ \/ media[p] = "good" /\ media' = [media EXCEPT ![p] = "bad"] /\ UNCHANGED tape
       \/ tape[p] = "good" /\ tape' = [tape EXCEPT ![p] = "bad"] /\ UNCHANGED media
    /\ risked' = IF Entrusted(p) THEN risked \cup {p} ELSE risked
    /\ UNCHANGED <<tx, rx, seen, unsynced, delivered, proc, unchecked>>

----------------------------------------------------------------------------
Starts(c) ==
    \E p \in Packets, yes \in BOOLEAN :
        XferTx(c, p, yes) \/ XferRx(c, p, yes) \/ BundleRx(c, p, yes)

Steps(c) ==
    \/ XferTxRename(c) \/ XferTxRemove(c)
    \/ Commit(c) \/ Mismatch(c) \/ CommitFails(c) \/ RxRemove(c)

Next ==
    \/ \E c \in Procs : Starts(c) \/ Steps(c) \/ Kill(c)
    \/ \E c \in Procs, p \in Packets : XferSeen(c, p)
    \/ \E p \in Packets, yes \in BOOLEAN : BundleTx(p, yes)
    \/ \E p \in Packets : Toss(p) \/ BundleDelete(p) \/ Ack(p) \/ RmAck(p) \/ Rot(p)
    \/ \E h \in {"A", "B"} : RmTmp(h) \/ Crash(h)

(* The commands run to their end, and A and B keep running nncp-xfer, B    *)
(* reads its bundles and tosses.  Nothing is assumed of the rest.          *)
Fairness ==
    /\ \A c \in Procs : WF_vars(Steps(c))
    /\ \A d \in Data : LET p == Pkt(d) IN
          /\ SF_vars(\E c \in Procs, yes \in BOOLEAN : XferTx(c, p, yes))
          /\ SF_vars(\E c \in Procs, yes \in BOOLEAN : XferRx(c, p, yes))
          /\ SF_vars(\E c \in Procs, yes \in BOOLEAN : BundleRx(c, p, yes))
          /\ WF_vars(Toss(p))

Spec == Init /\ [][Next]_vars
FairSpec == Spec /\ Fairness

----------------------------------------------------------------------------
(* Properties. *)

TypeOK ==
    /\ {tx, media, tape, rx} \subseteq [Packets -> Copies]
    /\ seen \subseteq Packets /\ unchecked \subseteq Packets /\ risked \subseteq Packets
    /\ unsynced \subseteq {"media", "rx"} \X Packets
    /\ delivered \subseteq Data
    /\ proc \in [Procs -> Jobs \cup {Idle}]
    /\ faults \in 0..MaxFaults

(* Whatever commands run beside each other, are killed, lose their         *)
(* temporary files or crash, and whatever the medium damages, an intact    *)
(* copy of every packet exists somewhere or its data was delivered, unless *)
(* it is risked: sent with nncp-bundle -tx -delete, acknowledged before it *)
(* was verified or durable in rx/ (nncp-ack takes no lock), replaced there *)
(* by an unverified entry, or entrusted to a medium that went bad.         *)
Intact(p) ==
    \/ "good" \in {tx[p], media[p], tape[p], rx[p]}
    \/ p.of \in delivered
    \/ p \in risked
NeverLost == \A d \in Data : Intact(Pkt(d))

(* nncp-xfer, and nncp-bundle with -check, put nothing corrupt under the   *)
(* name of a packet of rx/, and a node runs one sending nncp-xfer at a     *)
(* time.                                                                   *)
OnlyIntactNamed == \A p \in Packets : rx[p] = "bad" => p \in unchecked
OneSender ==
    \A c1, c2 \in Procs :
        proc[c1].prog = "xfertx" /\ proc[c2].prog = "xfertx" /\ Host[c1] = Host[c2]
        => c1 = c2
SpoolOK == TypeOK /\ OnlyIntactNamed /\ OneSender

(* As long as the commands are run again and again, a packet               *)
(* reaches its destination, unless the medium corrupted it: what is on the *)
(* medium under a packet's name is never replaced.                         *)
Arrives ==
    \A d \in Data :
        <>(\/ d \in delivered \/ Pkt(d) \in risked
           \/ "bad" \in {media[Pkt(d)], rx[Pkt(d)]})
=============================================================================
