--------------------------- MODULE OfflineProofs ---------------------------
(***************************************************************************)
(* For every number of packets and of commands beside each other, whatever *)
(* their options, and any number of kills, crashes, failing calls, damages *)
(* and removals: nncp-xfer and nncp-bundle leave an intact copy of every   *)
(* packet that is not in risked, and name nothing corrupt in rx/ but what  *)
(* a bundle brought in without -check.                                     *)
(***************************************************************************)
EXTENDS Offline, TLAPS

-----------------------------------------------------------------------------
(* Types *)

IsCopies(f) == f \in [Packets -> Copies]

LEMMA Types ==
    TypeOK <=>
        /\ IsCopies(tx) /\ IsCopies(media) /\ IsCopies(tape) /\ IsCopies(rx)
        /\ seen \subseteq Packets /\ unchecked \subseteq Packets /\ risked \subseteq Packets
        /\ unsynced \subseteq {"media", "rx"} \X Packets
        /\ delivered \subseteq Data
        /\ proc \in [Procs -> Jobs \cup {Idle}]
        /\ faults \in 0..MaxFaults
BY DEF TypeOK, IsCopies

\* A command that is doing something has a job.
LEMMA AtWork ==
    ASSUME TypeOK, NEW c \in Procs,
           proc[c] # Idle \/ proc[c].prog \in {"xfertx", "xferrx", "bundlerx"}
    PROVE  proc[c] \in Jobs /\ proc[c] # Idle
BY DEF TypeOK, Jobs, Idle

LEMMA InitTyped == Init => TypeOK
BY FaultsAreNat DEF Init, TypeOK, Copies

LEMMA StartsTyped ==
    ASSUME TypeOK, NEW c \in Procs, NEW p \in Packets, NEW yes \in BOOLEAN,
           XferTx(c, p, yes) \/ XferRx(c, p, yes) \/ BundleRx(c, p, yes)
    PROVE  TypeOK'
<1> USE DEF IsCopies, Copies
<1>1. CASE XferTx(c, p, yes)
  BY <1>1, Types DEF XferTx, TypeOK, Jobs
<1>2. CASE XferRx(c, p, yes)
  BY <1>2, Types DEF XferRx, TypeOK, Jobs
<1>3. CASE BundleRx(c, p, yes)
  BY <1>3, Types DEF BundleRx, TypeOK, Jobs
<1> QED
  BY <1>1, <1>2, <1>3

LEMMA CommandTyped ==
    ASSUME TypeOK, NEW c \in Procs, Steps(c) \/ Kill(c)
    PROVE  TypeOK'
<1> DEFINE j == proc[c]
<1>1. j \in Jobs
  BY AtWork DEF Steps, Kill, XferTxRename, XferTxRemove, Commit, Mismatch, CommitFails,
     RxRemove, At, Receiving
<1>2. /\ IsCopies(tx) /\ IsCopies(media) /\ IsCopies(tape) /\ IsCopies(rx)
      /\ j.pkt \in Packets /\ j.data \in Copies
      /\ \A step \in {"temp", "notemp", "renamed"} : [j EXCEPT !.step = step] \in Jobs
  BY <1>1, Types DEF Jobs
<1> HIDE DEF j
<1>3. CASE XferTxRename(c)
  BY <1>2, <1>3 DEF XferTxRename, Goes, TypeOK, IsCopies, j
<1>4. CASE XferTxRemove(c)
  BY <1>2, <1>4 DEF XferTxRemove, Stops, TypeOK, IsCopies, Copies, j
<1>5. CASE Commit(c)
  BY <1>2, <1>5 DEF Commit, Goes, TypeOK, IsCopies, j
<1>6. CASE Mismatch(c) \/ CommitFails(c)
  BY <1>6 DEF Mismatch, CommitFails, Stops, TypeOK
<1>7. CASE RxRemove(c)
  BY <1>2, <1>7 DEF RxRemove, Stops, TypeOK, IsCopies, Copies, j
<1>8. CASE Kill(c)
  BY <1>8, FaultsAreNat DEF Kill, Faulty, Stops, TypeOK
<1> QED
  BY <1>3, <1>4, <1>5, <1>6, <1>7, <1>8 DEF Steps

LEMMA PacketTyped ==
    ASSUME TypeOK, NEW p \in Packets,
           \/ \E c \in Procs : XferSeen(c, p)
           \/ \E yes \in BOOLEAN : BundleTx(p, yes)
           \/ Toss(p) \/ BundleDelete(p) \/ Ack(p) \/ RmAck(p) \/ Rot(p)
    PROVE  TypeOK'
<1>1. /\ IsCopies(tx) /\ IsCopies(media) /\ IsCopies(tape) /\ IsCopies(rx)
      /\ AckOf(p) \in Packets /\ Pkt(p.of) \in Packets /\ p.of \in Data
  BY Types DEF Packets, AckOf, Pkt
<1> USE DEF IsCopies, Copies
<1>2. CASE \E c \in Procs : XferSeen(c, p)
  BY <1>1, <1>2 DEF XferSeen, TypeOK
<1>3. CASE \E yes \in BOOLEAN : BundleTx(p, yes)
  BY <1>1, <1>3 DEF BundleTx, TypeOK
<1>4. CASE Toss(p)
  BY <1>1, <1>4 DEF Toss, TypeOK
<1>5. CASE BundleDelete(p)
  BY <1>1, <1>5 DEF BundleDelete, TypeOK
<1>6. CASE Ack(p)
  BY <1>1, <1>6 DEF Ack, TypeOK
<1>7. CASE RmAck(p)
  BY <1>1, <1>7, FaultsAreNat DEF RmAck, Faulty, TypeOK
<1>8. CASE Rot(p)
  BY <1>1, <1>8, FaultsAreNat DEF Rot, Faulty, TypeOK
<1> QED
  BY <1>2, <1>3, <1>4, <1>5, <1>6, <1>7, <1>8

LEMMA HostTyped ==
    ASSUME TypeOK, NEW h \in {"A", "B"}, RmTmp(h) \/ Crash(h)
    PROVE  TypeOK'
<1>1. faults' \in 0..MaxFaults
  BY FaultsAreNat DEF RmTmp, Crash, Faulty, TypeOK
<1>2. CASE RmTmp(h)
  <2>1. ASSUME NEW c \in Procs, At(c, Receiving, "temp")
        PROVE  [proc[c] EXCEPT !.step = "notemp"] \in Jobs
    BY <2>1, AtWork DEF At, Receiving, Jobs
  <2>2. proc' \in [Procs -> Jobs \cup {Idle}]
    BY <1>2, <2>1 DEF RmTmp, TypeOK
  <2> QED
    BY <1>1, <1>2, <2>2 DEF RmTmp, TypeOK
<1>3. CASE Crash(h)
  <2>1. IsCopies(media) /\ IsCopies(rx)
    BY Types
  <2>2. IsCopies(media)' /\ IsCopies(rx)'
    BY <1>3, <2>1 DEF Crash, IsCopies, Copies
  <2> QED
    BY <1>1, <1>3, <2>2 DEF Crash, TypeOK, IsCopies
<1> QED
  BY <1>2, <1>3

LEMMA TypeStep == TypeOK /\ [Next]_vars => TypeOK'
<1> SUFFICES ASSUME TypeOK, [Next]_vars PROVE TypeOK'
  OBVIOUS
<1>1. CASE UNCHANGED vars
  BY <1>1 DEF vars, TypeOK
<1>2. ASSUME NEW c \in Procs, Starts(c) PROVE TypeOK'
  BY <1>2, StartsTyped DEF Starts
<1> QED
  BY <1>1, <1>2, CommandTyped, PacketTyped, HostTyped DEF Next

\* The variables and the jobs of the commands keep their types.
THEOREM OfflineTypeCorrect == Spec => []TypeOK
BY InitTyped, TypeStep, PTL DEF Spec

-----------------------------------------------------------------------------
(* What a command is about *)

\* A command under way is of the node whose packets it moves; only an entry of
\* a bundle goes unverified, and is noted then, and only nncp-xfer removes.
Matches(c) ==
    /\ proc[c].prog = "xfertx" => Host[c] = Src(proc[c].pkt) /\ proc[c].data = "good"
    /\ proc[c].prog \in Receiving =>
          Host[c] = Dst(proc[c].pkt) /\ proc[c].data # "none"
    /\ proc[c].prog = "xferrx" => proc[c].check
    /\ proc[c].prog = "bundlerx" =>
          proc[c].keep /\ (proc[c].check \/ proc[c].pkt \in unchecked)
Matching == \A c \in Procs : Matches(c)

\* tx/ is written by whoever made the packet.
TxIntact == \A p \in Packets : tx[p] # "bad"

\* c goes on with what it was doing.
GoesOn(c) ==
    /\ proc'[c].prog = proc[c].prog /\ proc'[c].pkt = proc[c].pkt
    /\ proc'[c].data = proc[c].data /\ proc'[c].keep = proc[c].keep
    /\ proc'[c].check = proc[c].check

LEMMA GoingOn ==
    ASSUME TypeOK, NEW c \in Procs, NEW step, proc[c] # Idle,
           proc' = [proc EXCEPT ![c].step = step]
    PROVE  \A b \in Procs : GoesOn(b)
<1>1. proc[c] \in Jobs
  BY AtWork
<1>2. ASSUME NEW b \in Procs PROVE GoesOn(b)
  <2>1. proc'[b] = IF b = c THEN [proc[c] EXCEPT !.step = step] ELSE proc[b]
    BY DEF TypeOK
  <2> QED
    BY <1>1, <2>1 DEF GoesOn, Jobs
<1> QED
  BY <1>2

\* A step starts one command, or all go on or stop.
LEMMA JobStep ==
    ASSUME TypeOK, [Next]_vars
    PROVE  \/ \E c \in Procs : Starts(c)
           \/ \A c \in Procs : GoesOn(c) \/ proc'[c] = Idle
<1>1. ASSUME UNCHANGED proc PROVE \A c \in Procs : GoesOn(c)
  BY <1>1 DEF GoesOn
<1>2. ASSUME NEW c \in Procs, Stops(c)
      PROVE  \A b \in Procs : GoesOn(b) \/ proc'[b] = Idle
  BY <1>2 DEF Stops, GoesOn, TypeOK
<1>3. ASSUME NEW c \in Procs, XferTxRename(c) \/ Commit(c)
      PROVE  \A b \in Procs : GoesOn(b)
  <2>1. proc[c] # Idle
    BY <1>3, AtWork DEF XferTxRename, Commit, At, Receiving
  <2> QED
    BY <1>3, <2>1, GoingOn DEF XferTxRename, Commit, Goes
<1>4. ASSUME NEW c \in Procs, Steps(c) \/ Kill(c)
      PROVE  \A b \in Procs : GoesOn(b) \/ proc'[b] = Idle
  BY <1>2, <1>3, <1>4
     DEF Steps, Kill, XferTxRemove, Mismatch, CommitFails, RxRemove
<1>5. ASSUME NEW h \in {"A", "B"}, RmTmp(h) PROVE \A c \in Procs : GoesOn(c)
  <2> SUFFICES ASSUME NEW c \in Procs PROVE GoesOn(c)
    OBVIOUS
  <2>1. CASE Host[c] = h /\ At(c, Receiving, "temp")
    <3>1. proc[c] \in Jobs
      BY <2>1, AtWork DEF At, Receiving
    <3>2. proc'[c] = [proc[c] EXCEPT !.step = "notemp"]
      BY <1>5, <2>1 DEF RmTmp
    <3> QED
      BY <3>1, <3>2 DEF GoesOn, Jobs
  <2>2. CASE ~(Host[c] = h /\ At(c, Receiving, "temp"))
    BY <1>5, <2>2 DEF RmTmp, GoesOn
  <2> QED
    BY <2>1, <2>2
<1>6. ASSUME NEW h \in {"A", "B"}, Crash(h)
      PROVE  \A c \in Procs : GoesOn(c) \/ proc'[c] = Idle
  BY <1>6 DEF Crash, GoesOn
<1>7. ASSUME NEW p \in Packets,
             \/ \E c \in Procs : XferSeen(c, p)
             \/ \E yes \in BOOLEAN : BundleTx(p, yes)
             \/ Toss(p) \/ BundleDelete(p) \/ Ack(p) \/ RmAck(p) \/ Rot(p)
      PROVE  UNCHANGED proc
  BY <1>7 DEF XferSeen, BundleTx, Toss, BundleDelete, Ack, RmAck, Rot
<1> QED
  BY <1>1, <1>4, <1>5, <1>6, <1>7 DEF Next, vars

LEMMA TxIntactStep == TypeOK /\ TxIntact /\ [Next]_vars => TxIntact'
<1> SUFFICES ASSUME TypeOK, TxIntact, [Next]_vars PROVE TxIntact'
  OBVIOUS
<1>1. CASE UNCHANGED tx
  BY <1>1 DEF TxIntact
<1>2. ASSUME NEW q \in Packets, NEW copy \in {"none", "good"}, tx' = [tx EXCEPT ![q] = copy]
      PROVE  TxIntact'
  BY <1>2, Types DEF TxIntact, IsCopies
<1>3. ASSUME NEW c \in Procs, XferTxRemove(c) PROVE TxIntact'
  BY <1>1, <1>2, <1>3, AtWork DEF XferTxRemove, At, Jobs
<1>4. ASSUME NEW p \in Packets, NEW yes \in BOOLEAN, BundleTx(p, yes) PROVE TxIntact'
  BY <1>1, <1>2, <1>4 DEF BundleTx
<1>5. ASSUME NEW p \in Packets, Toss(p) PROVE TxIntact'
  BY <1>1, <1>2, <1>5 DEF Toss, Packets, Pkt
<1>6. ASSUME NEW p \in Packets, BundleDelete(p) \/ Ack(p) \/ RmAck(p) PROVE TxIntact'
  BY <1>2, <1>6 DEF BundleDelete, Ack, RmAck, Packets, AckOf
<1>7. ASSUME NEW c \in Procs, NEW p \in Packets, XferSeen(c, p) PROVE TxIntact'
  BY <1>1, <1>7 DEF XferSeen
<1>8. ASSUME NEW c \in Procs, Starts(c) \/ Kill(c) PROVE TxIntact'
  BY <1>1, <1>8 DEF Starts, XferTx, XferRx, BundleRx, Kill
<1> QED
  BY <1>1, <1>3, <1>4, <1>5, <1>6, <1>7, <1>8 DEF Next, Steps, XferTxRename, Commit,
     Mismatch, CommitFails, RxRemove, Rot, RmTmp, Crash, vars

LEMMA TxWriters ==
    ASSUME [Next]_vars
    PROVE  \/ tx' = tx
           \/ \E c \in Procs : XferTxRemove(c)
           \/ \E p \in Packets, yes \in BOOLEAN : BundleTx(p, yes)
           \/ \E p \in Packets : BundleDelete(p) \/ Toss(p) \/ Ack(p) \/ RmAck(p)
<1>1. ASSUME NEW c \in Procs, Starts(c) \/ Kill(c) PROVE tx' = tx
  BY <1>1 DEF Starts, XferTx, XferRx, BundleRx, Kill
<1>2. ASSUME NEW c \in Procs, Steps(c) PROVE tx' = tx \/ XferTxRemove(c)
  BY <1>2 DEF Steps, XferTxRename, Commit, Mismatch, CommitFails, RxRemove
<1>3. ASSUME NEW p \in Packets, Rot(p) \/ \E c \in Procs : XferSeen(c, p) PROVE tx' = tx
  BY <1>3 DEF Rot, XferSeen
<1>4. ASSUME NEW h \in {"A", "B"}, RmTmp(h) \/ Crash(h) PROVE tx' = tx
  BY <1>4 DEF RmTmp, Crash
<1> QED
  BY <1>1, <1>2, <1>3, <1>4 DEF Next, vars

LEMMA UncheckedGrows == [Next]_vars => unchecked \subseteq unchecked'
<1> SUFFICES ASSUME [Next]_vars PROVE unchecked \subseteq unchecked'
  OBVIOUS
<1>1. ASSUME NEW c \in Procs, Starts(c) PROVE unchecked \subseteq unchecked'
  BY <1>1 DEF Starts, XferTx, XferRx, BundleRx
<1>2. CASE \A c \in Procs : ~Starts(c)
  BY <1>2 DEF Next, Steps, XferTxRename, XferTxRemove, Commit, Mismatch, CommitFails,
     RxRemove, Kill, XferSeen, BundleTx, Toss, BundleDelete, Ack, RmAck, Rot, RmTmp,
     Crash, vars
<1> QED
  BY <1>1, <1>2

LEMMA RxWriters ==
    ASSUME [Next]_vars
    PROVE  \/ UNCHANGED rx
           \/ \E c \in Procs : Commit(c)
           \/ \E p \in Packets : Toss(p)
           \/ \E h \in {"A", "B"} : Crash(h)
<1>1. ASSUME NEW c \in Procs, Starts(c) \/ Kill(c) PROVE UNCHANGED rx
  BY <1>1 DEF Starts, XferTx, XferRx, BundleRx, Kill
<1>2. ASSUME NEW c \in Procs, Steps(c) PROVE UNCHANGED rx \/ Commit(c)
  BY <1>2 DEF Steps, XferTxRename, XferTxRemove, Mismatch, CommitFails, RxRemove
<1>3. ASSUME NEW p \in Packets,
             \/ \E c \in Procs : XferSeen(c, p)
             \/ \E yes \in BOOLEAN : BundleTx(p, yes)
             \/ BundleDelete(p) \/ Ack(p) \/ RmAck(p) \/ Rot(p)
      PROVE  UNCHANGED rx
  BY <1>3 DEF XferSeen, BundleTx, BundleDelete, Ack, RmAck, Rot
<1>4. ASSUME NEW h \in {"A", "B"}, RmTmp(h) PROVE UNCHANGED rx
  BY <1>4 DEF RmTmp
<1> QED
  BY <1>1, <1>2, <1>3, <1>4 DEF Next, vars

LEMMA MatchingStep ==
    ASSUME TypeOK, TxIntact, Matching, [Next]_vars
    PROVE  Matching'
<1>1. unchecked \subseteq unchecked'
  BY UncheckedGrows
<1>2. ASSUME NEW c \in Procs, GoesOn(c) PROVE Matches(c)'
  BY <1>1, <1>2 DEF Matching, Matches, GoesOn
<1>3. ASSUME NEW c \in Procs, proc'[c] = Idle PROVE Matches(c)'
  BY <1>3 DEF Matches, Idle, Receiving
<1>4. ASSUME NEW c \in Procs, Starts(c) PROVE Matching'
  <2>1. PICK p \in Packets, yes \in BOOLEAN :
            XferTx(c, p, yes) \/ XferRx(c, p, yes) \/ BundleRx(c, p, yes)
    BY <1>4 DEF Starts
  <2>2. \A b \in Procs \ {c} : GoesOn(b)
    BY <2>1 DEF XferTx, XferRx, BundleRx, GoesOn, TypeOK
  <2>3. ASSUME XferTx(c, p, yes) PROVE Matches(c)'
    <3>1. proc'[c] = [prog |-> "xfertx", step |-> "temp", pkt |-> p, data |-> tx[p],
                      keep |-> yes, check |-> FALSE]
      BY <2>3 DEF XferTx, TypeOK
    <3> QED
      BY <2>3, <3>1, Types DEF XferTx, TxIntact, Matches, Receiving, IsCopies, Copies
  <2>4. ASSUME XferRx(c, p, yes) PROVE Matches(c)'
    <3>1. proc'[c] = [prog |-> "xferrx", step |-> "temp", pkt |-> p, data |-> media[p],
                      keep |-> yes, check |-> TRUE]
      BY <2>4 DEF XferRx, TypeOK
    <3> QED
      BY <2>4, <3>1 DEF XferRx, Matches, Receiving
  <2>5. ASSUME BundleRx(c, p, yes) PROVE Matches(c)'
    <3>1. proc'[c] = [prog |-> "bundlerx", step |-> "temp", pkt |-> p, data |-> tape[p],
                      keep |-> TRUE, check |-> yes]
      BY <2>5 DEF BundleRx, TypeOK
    <3> QED
      BY <2>5, <3>1 DEF BundleRx, Matches, Receiving
  <2> QED
    BY <1>2, <2>1, <2>2, <2>3, <2>4, <2>5 DEF Matching
<1> QED
  BY <1>2, <1>3, <1>4, JobStep DEF Matching

-----------------------------------------------------------------------------
(* Nothing corrupt is named, and one nncp-xfer sends *)

LEMMA NamedStep ==
    ASSUME TypeOK, Matching, OnlyIntactNamed, [Next]_vars
    PROVE  OnlyIntactNamed'
<1>1. unchecked \subseteq unchecked'
  BY UncheckedGrows
<1>2. ASSUME NEW c \in Procs, Commit(c) PROVE OnlyIntactNamed'
  <2>1. proc[c] \in Jobs /\ (proc[c].data = "bad" => proc[c].pkt \in unchecked)
    BY <1>2, AtWork DEF Commit, At, Receiving, Matching, Matches
  <2>2. rx' = [rx EXCEPT ![proc[c].pkt] = proc[c].data] /\ unchecked' = unchecked
    BY <1>2 DEF Commit
  <2> QED
    BY <2>1, <2>2, Types DEF OnlyIntactNamed, IsCopies, Jobs
<1>3. ASSUME NEW p \in Packets, Toss(p) PROVE OnlyIntactNamed'
  BY <1>1, <1>3, Types DEF Toss, OnlyIntactNamed, IsCopies
<1>4. ASSUME NEW h \in {"A", "B"}, Crash(h) PROVE OnlyIntactNamed'
  BY <1>1, <1>4, Types DEF Crash, OnlyIntactNamed, IsCopies
<1>5. CASE UNCHANGED rx
  BY <1>1, <1>5 DEF OnlyIntactNamed
<1> QED
  BY <1>2, <1>3, <1>4, <1>5, RxWriters

LEMMA OneSenderStep ==
    ASSUME TypeOK, Matching, OneSender, [Next]_vars
    PROVE  OneSender'
<1>1. CASE \A c \in Procs : GoesOn(c) \/ proc'[c] = Idle
  BY <1>1 DEF GoesOn, Idle, OneSender
<1>2. ASSUME NEW c \in Procs, Starts(c) PROVE OneSender'
  <2>1. PICK p \in Packets, yes \in BOOLEAN :
            XferTx(c, p, yes) \/ XferRx(c, p, yes) \/ BundleRx(c, p, yes)
    BY <1>2 DEF Starts
  <2>2. \A b \in Procs \ {c} : proc'[b] = proc[b]
    BY <2>1 DEF XferTx, XferRx, BundleRx, TypeOK
  <2>3. CASE XferTx(c, p, yes)
    BY <2>2, <2>3 DEF XferTx, TxUnlocked, OneSender
  <2>4. CASE XferRx(c, p, yes) \/ BundleRx(c, p, yes)
    <3>1. proc'[c].prog # "xfertx"
      BY <2>4 DEF XferRx, BundleRx, TypeOK
    <3> QED
      BY <2>2, <3>1 DEF OneSender
  <2> QED
    BY <2>1, <2>3, <2>4
<1> QED
  BY <1>1, <1>2, JobStep

Ordered == Matching /\ TxIntact /\ OnlyIntactNamed /\ OneSender

LEMMA InitOrdered == Init => Ordered
BY DEF Init, Ordered, Matching, Matches, Idle, Receiving, TxIntact, OnlyIntactNamed,
   OneSender

LEMMA OrderedStep == TypeOK /\ Ordered /\ [Next]_vars => Ordered'
BY MatchingStep, TxIntactStep, NamedStep, OneSenderStep DEF Ordered

\* Whatever commands run beside each other, rx/ has nothing corrupt under a
\* packet's name but what a bundle brought in unchecked, and a node runs one
\* sending nncp-xfer at a time (nncp-xfer's and nncp-bundle's checksums before
\* the rename, LockDir around nncp-xfer's sending half).
THEOREM SpoolKept == Spec => []SpoolOK
<1>1. Init => TypeOK /\ Ordered
  BY InitTyped, InitOrdered
<1>2. TypeOK /\ Ordered /\ [Next]_vars => TypeOK' /\ Ordered'
  BY TypeStep, OrderedStep
<1>3. TypeOK /\ Ordered => SpoolOK
  BY DEF Ordered, SpoolOK
<1> QED
  BY <1>1, <1>2, <1>3, PTL DEF Spec

-----------------------------------------------------------------------------
(* Who has a packet *)

Datum(p) == p \in Packets /\ ~p.ack

\* p has been delivered, or somebody gave it up.
Given(p) == p.of \in delivered \/ p \in risked

\* p needs no other copy: it is given, or in rx/ for good.
Safe(p) == Given(p) \/ (rx[p] = "good" /\ <<"rx", p>> \notin unsynced)

\* p is on the medium for good.
Mailed(p) == media[p] = "good" /\ <<"media", p>> \notin unsynced

Copied(p) == tx[p] = "good" \/ tape[p] = "good" \/ Mailed(p) \/ Safe(p)

\* An acknowledgement of p may come up anywhere.
Acked(q) ==
    \/ {tx[q], media[q], tape[q], rx[q]} # {"none"}
    \/ \E c \in Procs : proc[c] # Idle /\ proc[c].pkt = q

\* What a command has done already for the packet it works on: one that sends
\* has found its name free, and then put it there; one that received it has
\* put it into rx/.
Promise(c) ==
    LET p == proc[c].pkt IN
    /\ At(c, {"xfertx"}, "temp") => media[p] = "none"
    /\ At(c, {"xfertx"}, "renamed") /\ ~p.ack /\ ~proc[c].keep =>
          media[p] = "good" \/ Safe(p)
    /\ At(c, {"xferrx"}, "renamed") /\ ~p.ack => rx[p] = "good" \/ Given(p)

Custody ==
    /\ \A c \in Procs : Promise(c)
    /\ \A p \in Packets : ~p.ack =>
         /\ Copied(p)
         /\ p \in seen => p.of \in delivered
         /\ Acked(AckOf(p)) => Safe(p)

LEMMA Names ==
    ASSUME NEW p \in Packets, ~p.ack
    PROVE  /\ AckOf(p) \in Packets /\ AckOf(p).ack /\ AckOf(p).of = p.of
           /\ p.of \in Data /\ p = Pkt(p.of) /\ Src(p) = "A" /\ Dst(p) = "B"
           /\ \A q \in Packets : ~q.ack /\ q.of = p.of => q = p
           /\ \A q \in Packets : q.ack /\ q.of = p.of => q = AckOf(p)
<1>1. /\ p.of \in Data /\ p = Pkt(p.of)
      /\ \A q, r \in Packets : q.ack = r.ack /\ q.of = r.of => q = r
      /\ \A q \in Packets : ~q.ack => q.ack = FALSE
  BY DEF Packets, Pkt
<1>2. AckOf(p) \in Packets /\ AckOf(p).ack = TRUE /\ AckOf(p).of = p.of
  BY DEF Packets, AckOf
<1> QED
  BY <1>1, <1>2 DEF Src, Dst, Packets

LEMMA DeliveredGrows ==
    [Next]_vars => delivered \subseteq delivered' /\ risked \subseteq risked'
<1> SUFFICES ASSUME [Next]_vars PROVE delivered \subseteq delivered' /\ risked \subseteq risked'
  OBVIOUS
<1>1. ASSUME NEW c \in Procs, Starts(c) \/ Kill(c)
      PROVE  delivered \subseteq delivered' /\ risked \subseteq risked'
  BY <1>1 DEF Starts, XferTx, XferRx, BundleRx, Kill
<1>2. ASSUME NEW c \in Procs, Steps(c)
      PROVE  delivered \subseteq delivered' /\ risked \subseteq risked'
  BY <1>2 DEF Steps, XferTxRename, XferTxRemove, Commit, Mismatch, CommitFails, RxRemove
<1>3. ASSUME NEW q \in Packets,
             \/ \E c \in Procs : XferSeen(c, q)
             \/ \E yes \in BOOLEAN : BundleTx(q, yes)
             \/ Toss(q) \/ BundleDelete(q) \/ Ack(q) \/ RmAck(q) \/ Rot(q)
      PROVE  delivered \subseteq delivered' /\ risked \subseteq risked'
  BY <1>3 DEF XferSeen, BundleTx, Toss, BundleDelete, Ack, RmAck, Rot
<1>4. ASSUME NEW h \in {"A", "B"}, RmTmp(h) \/ Crash(h)
      PROVE  delivered \subseteq delivered' /\ risked \subseteq risked'
  BY <1>4 DEF RmTmp, Crash
<1> QED
  BY <1>1, <1>2, <1>3, <1>4 DEF Next, vars

LEMMA GivenStable ==
    ASSUME [Next]_vars, NEW p, Given(p) PROVE Given(p)'
BY DeliveredGrows DEF Given

\* What is in rx/ stays there, or is given, but for a crash before DirSync.
LEMMA RxStable ==
    ASSUME TypeOK, Matching, [Next]_vars, NEW p \in Packets, ~p.ack, rx[p] = "good"
    PROVE  \/ rx'[p] = "good" \/ Given(p)'
           \/ <<"rx", p>> \in unsynced /\ Crash(Dst(p))
<1>1. ASSUME NEW c \in Procs, Commit(c) PROVE rx'[p] = "good" \/ Given(p)'
  <2>1. proc[c].pkt \in Packets /\ proc[c].data \in {"good", "bad"}
    BY <1>1, AtWork DEF Commit, At, Receiving, Jobs, Copies, Matching, Matches
  <2> QED
    BY <1>1, <2>1, Types DEF Commit, IsCopies, Given
<1>2. ASSUME NEW q \in Packets, Toss(q) PROVE rx'[p] = "good" \/ Given(p)'
  BY <1>2, Types DEF Toss, IsCopies, Given
<1>3. ASSUME NEW h \in {"A", "B"}, Crash(h)
      PROVE  rx'[p] = "good" \/ (<<"rx", p>> \in unsynced /\ Crash(Dst(p)))
  <2>1. PICK gone \in SUBSET {e \in unsynced : Writer(e) = h} :
            rx' = [q \in Packets |-> IF <<"rx", q>> \in gone THEN "none" ELSE rx[q]]
    BY <1>3 DEF Crash
  <2>2. CASE <<"rx", p>> \in gone
    BY <1>3, <2>1, <2>2 DEF Writer
  <2>3. CASE <<"rx", p>> \notin gone
    BY <2>1, <2>3
  <2> QED
    BY <2>2, <2>3
<1> QED
  BY <1>1, <1>2, <1>3, RxWriters

LEMMA SafeStable ==
    ASSUME TypeOK, Matching, [Next]_vars, NEW p \in Packets, ~p.ack, Safe(p)
    PROVE  Safe(p)'
<1>1. CASE Given(p)
  BY <1>1, GivenStable DEF Safe
<1>2. CASE ~Given(p)
  <2>1. rx[p] = "good" /\ <<"rx", p>> \notin unsynced
    BY <1>2 DEF Safe
  <2>2. rx'[p] = "good" \/ Given(p)'
    BY <2>1, RxStable
  <2>3. <<"rx", p>> \notin unsynced' \/ rx'[p] # "good" \/ Given(p)'
    <3>1. ASSUME NEW c \in Procs, Commit(c)
          PROVE  <<"rx", p>> \notin unsynced' \/ Given(p)'
      <4>1. proc[c].data \in {"good", "bad"}
        BY <3>1, AtWork DEF Commit, At, Receiving, Jobs, Copies, Matching, Matches
      <4> QED
        BY <2>1, <3>1, <4>1 DEF Commit, Given
    <3>2. ASSUME NEW c \in Procs, Starts(c) \/ Kill(c) PROVE unsynced' = unsynced
      BY <3>2 DEF Starts, XferTx, XferRx, BundleRx, Kill
    <3>3. ASSUME NEW c \in Procs, Steps(c), ~Commit(c)
          PROVE  <<"rx", p>> \notin unsynced'
      BY <2>1, <3>3
         DEF Steps, XferTxRename, XferTxRemove, Mismatch, CommitFails, RxRemove
    <3>4. ASSUME NEW q \in Packets,
                 \/ \E c \in Procs : XferSeen(c, q)
                 \/ \E yes \in BOOLEAN : BundleTx(q, yes)
                 \/ Toss(q) \/ BundleDelete(q) \/ Ack(q) \/ RmAck(q) \/ Rot(q)
          PROVE  <<"rx", p>> \notin unsynced'
      BY <2>1, <3>4 DEF XferSeen, BundleTx, Toss, BundleDelete, Ack, RmAck, Rot
    <3>5. ASSUME NEW h \in {"A", "B"}, RmTmp(h) \/ Crash(h)
          PROVE  <<"rx", p>> \notin unsynced'
      BY <2>1, <3>5 DEF RmTmp, Crash
    <3> QED
      BY <2>1, <3>1, <3>2, <3>3, <3>4, <3>5 DEF Next, vars
  <2> QED
    BY <2>2, <2>3 DEF Safe
<1> QED
  BY <1>1, <1>2

\* Rot risks what it damages the last copy of.
LEMMA Rotten ==
    ASSUME TypeOK, NEW p \in Packets, NEW q \in Packets, Rot(q),
           Entrusted(p), ~p.ack
    PROVE  p \in risked' \/ (media'[p] = media[p] /\ tape'[p] = tape[p])
<1>1. CASE q = p
  BY <1>1 DEF Rot
<1>2. CASE q # p
  BY <1>2, Types DEF Rot, IsCopies
<1> QED
  BY <1>1, <1>2

\* Who writes on the medium.
LEMMA MediaWriters ==
    ASSUME [Next]_vars
    PROVE  \/ media' = media /\ {e \in unsynced' : e[1] = "media"} \subseteq unsynced
           \/ \E c \in Procs : XferTxRename(c) \/ RxRemove(c)
           \/ \E c \in Procs, p \in Packets : XferSeen(c, p)
           \/ \E p \in Packets : Rot(p)
           \/ \E h \in {"A", "B"} : Crash(h)
<1>1. ASSUME NEW c \in Procs, Starts(c) \/ Kill(c) PROVE media' = media /\ unsynced' = unsynced
  BY <1>1 DEF Starts, XferTx, XferRx, BundleRx, Kill
<1>2. ASSUME NEW c \in Procs, Steps(c)
      PROVE  \/ media' = media /\ {e \in unsynced' : e[1] = "media"} \subseteq unsynced
             \/ XferTxRename(c) \/ RxRemove(c)
  BY <1>2 DEF Steps, XferTxRemove, Mismatch, CommitFails, Commit
<1>3. ASSUME NEW p \in Packets,
             \/ \E yes \in BOOLEAN : BundleTx(p, yes)
             \/ Toss(p) \/ BundleDelete(p) \/ Ack(p) \/ RmAck(p)
      PROVE  media' = media /\ unsynced' \subseteq unsynced
  BY <1>3 DEF BundleTx, Toss, BundleDelete, Ack, RmAck
<1>4. ASSUME NEW h \in {"A", "B"}, RmTmp(h) PROVE media' = media /\ unsynced' = unsynced
  BY <1>4 DEF RmTmp
<1> QED
  BY <1>1, <1>2, <1>3, <1>4 DEF Next, vars

\* A packet on the medium stays there, unless it is taken to be safe, damaged
\* or lost in a crash.
LEMMA MediaStable ==
    ASSUME TypeOK, Ordered, Custody, [Next]_vars, NEW p \in Packets, ~p.ack,
           media[p] = "good", Entrusted(p)
    PROVE  \/ Safe(p)'
           \/ /\ media'[p] = "good"
              /\ <<"media", p>> \in unsynced' => <<"media", p>> \in unsynced
           \/ <<"media", p>> \in unsynced /\ Crash(Src(p))
<1>1. CASE media' = media /\ {e \in unsynced' : e[1] = "media"} \subseteq unsynced
  BY <1>1
<1>2. ASSUME NEW c \in Procs, XferTxRename(c)
      PROVE  media'[p] = "good" /\ (<<"media", p>> \in unsynced' => <<"media", p>> \in unsynced)
  <2>1. proc[c].pkt \in Packets /\ media[proc[c].pkt] = "none"
    BY <1>2, AtWork DEF XferTxRename, At, Jobs, Custody, Promise
  <2> QED
    BY <1>2, <2>1, Types DEF XferTxRename, IsCopies
<1>3. ASSUME NEW c \in Procs, RxRemove(c), ~(proc[c].pkt = p /\ ~proc[c].keep)
      PROVE  media'[p] = "good" /\ (<<"media", p>> \in unsynced' => <<"media", p>> \in unsynced)
  BY <1>3, Types DEF RxRemove, IsCopies
<1>4. ASSUME NEW c \in Procs, RxRemove(c), proc[c].pkt = p, ~proc[c].keep
      PROVE  Safe(p)'
  <2>1. At(c, {"xferrx"}, "renamed")
    BY <1>4 DEF RxRemove, At, Receiving, Ordered, Matching, Matches
  <2>2. rx[p] = "good" \/ Given(p)
    BY <1>4, <2>1 DEF Custody, Promise
  <2> QED
    BY <1>4, <2>2 DEF RxRemove, Safe, Given
<1>5. ASSUME NEW c \in Procs, NEW q \in Packets, XferSeen(c, q)
      PROVE  Safe(p)' \/ (media'[p] = "good" /\ unsynced' \subseteq unsynced)
  <2>1. CASE q = p
    BY <1>5, <2>1 DEF XferSeen, Custody, Safe, Given
  <2>2. CASE q # p
    BY <1>5, <2>2, Types DEF XferSeen, IsCopies
  <2> QED
    BY <2>1, <2>2
<1>6. ASSUME NEW q \in Packets, Rot(q)
      PROVE  Safe(p)' \/ (media'[p] = "good" /\ unsynced' = unsynced)
  BY <1>6, Rotten DEF Rot, Safe, Given
<1>7. ASSUME NEW h \in {"A", "B"}, Crash(h)
      PROVE  \/ media'[p] = "good" /\ unsynced' \subseteq unsynced
             \/ (<<"media", p>> \in unsynced /\ Crash(Src(p)))
  <2>1. PICK gone \in SUBSET {e \in unsynced : Writer(e) = h} :
            media' = [q \in Packets |->
                         IF <<"media", q>> \in gone THEN "none" ELSE media[q]]
    BY <1>7 DEF Crash
  <2>2. CASE <<"media", p>> \in gone
    BY <1>7, <2>1, <2>2 DEF Writer
  <2>3. CASE <<"media", p>> \notin gone
    BY <1>7, <2>1, <2>3 DEF Crash
  <2> QED
    BY <2>2, <2>3
<1> QED
  BY <1>1, <1>2, <1>3, <1>4, <1>5, <1>6, <1>7, MediaWriters

LEMMA MailedStable ==
    ASSUME TypeOK, Ordered, Custody, [Next]_vars, NEW p \in Packets, ~p.ack,
           Mailed(p), tx[p] # "good"
    PROVE  Copied(p)'
BY MediaStable DEF Mailed, Entrusted, Copied

LEMMA TapeWriters ==
    ASSUME [Next]_vars
    PROVE  \/ tape' = tape
           \/ \E p \in Packets, yes \in BOOLEAN : BundleTx(p, yes)
           \/ \E p \in Packets : Rot(p)
<1>1. ASSUME NEW c \in Procs, Starts(c) \/ Kill(c) PROVE tape' = tape
  BY <1>1 DEF Starts, XferTx, XferRx, BundleRx, Kill
<1>2. ASSUME NEW c \in Procs, Steps(c) PROVE tape' = tape
  BY <1>2 DEF Steps, XferTxRename, XferTxRemove, Commit, Mismatch, CommitFails, RxRemove
<1>3. ASSUME NEW q \in Packets,
             \/ \E c \in Procs : XferSeen(c, q)
             \/ Toss(q) \/ BundleDelete(q) \/ Ack(q) \/ RmAck(q)
      PROVE  tape' = tape
  BY <1>3 DEF XferSeen, Toss, BundleDelete, Ack, RmAck
<1>4. ASSUME NEW h \in {"A", "B"}, RmTmp(h) \/ Crash(h) PROVE tape' = tape
  BY <1>4 DEF RmTmp, Crash
<1> QED
  BY <1>1, <1>2, <1>3, <1>4 DEF Next, vars

LEMMA TapeStable ==
    ASSUME TypeOK, Ordered, [Next]_vars, NEW p \in Packets, ~p.ack,
           tape[p] = "good", tx[p] # "good"
    PROVE  tape'[p] = "good" \/ Safe(p)'
<1>1. ASSUME NEW q \in Packets, NEW yes \in BOOLEAN, BundleTx(q, yes)
      PROVE  tape'[p] = "good"
  <2>1. tx[p] = "none"
    BY Types DEF Ordered, TxIntact, IsCopies, Copies
  <2> QED
    BY <1>1, <2>1, Types DEF BundleTx, IsCopies
<1>2. ASSUME NEW q \in Packets, Rot(q) PROVE tape'[p] = "good" \/ Safe(p)'
  BY <1>2, Rotten DEF Entrusted, Safe, Given
<1> QED
  BY <1>1, <1>2, TapeWriters

\* tx/ gives a packet up only when another copy will last.
LEMMA TxStable ==
    ASSUME TypeOK, Ordered, Custody, [Next]_vars, NEW p \in Packets, ~p.ack,
           tx[p] = "good"
    PROVE  Copied(p)'
<1>1. CASE tx'[p] = "good"
  BY <1>1 DEF Copied
<1>2. ASSUME NEW c \in Procs, XferTxRemove(c), tx'[p] # "good" PROVE Copied(p)'
  <2>1. proc[c].pkt = p /\ ~proc[c].keep /\ At(c, {"xfertx"}, "renamed")
    BY <1>2, Types DEF XferTxRemove, IsCopies
  <2>2. media[p] = "good" \/ Safe(p)
    BY <2>1 DEF Custody, Promise
  <2>3. CASE media[p] = "good"
    BY <1>2, <2>1, <2>3 DEF XferTxRemove, Copied, Mailed
  <2>4. CASE Safe(p)
    BY <2>4, SafeStable DEF Ordered, Copied
  <2> QED
    BY <2>2, <2>3, <2>4
<1>3. ASSUME NEW q \in Packets, NEW yes \in BOOLEAN, BundleTx(q, yes), tx'[p] # "good"
      PROVE  Copied(p)'
  BY <1>3, Types DEF BundleTx, IsCopies, Copied, Safe, Given
<1>4. ASSUME NEW q \in Packets, BundleDelete(q), tx'[p] # "good" PROVE Copied(p)'
  BY <1>4, Types DEF BundleDelete, IsCopies, Copied
<1>5. ASSUME NEW q \in Packets, Toss(q), tx'[p] # "good" PROVE Copied(p)'
  <2>1. q.ack /\ Pkt(q.of) = p /\ rx[q] = "good"
    BY <1>5, Types DEF Toss, IsCopies
  <2>2. q.of = p.of
    BY <2>1 DEF Pkt
  <2>3. q = AckOf(p)
    BY <2>1, <2>2, Names
  <2>4. Safe(p)
    BY <2>1, <2>3 DEF Custody, Acked
  <2> QED
    BY <2>4, SafeStable DEF Ordered, Copied
<1>6. ASSUME NEW q \in Packets, Ack(q) \/ RmAck(q) PROVE tx'[p] = "good"
  <2>1. CASE Ack(q)
    BY <2>1, Types, Names DEF Ack, IsCopies
  <2>2. CASE RmAck(q)
    BY <2>2, Types DEF RmAck, IsCopies
  <2> QED
    BY <1>6, <2>1, <2>2
<1>7. CASE tx' = tx
  BY <1>1, <1>7
<1> QED
  BY <1>1, <1>2, <1>3, <1>4, <1>5, <1>6, <1>7, TxWriters

LEMMA CopiedStep ==
    ASSUME TypeOK, Ordered, Custody, [Next]_vars, NEW p \in Packets, ~p.ack
    PROVE  Copied(p)'
<1>1. CASE tx[p] = "good"
  BY <1>1, TxStable
<1>2. CASE tx[p] # "good" /\ tape[p] = "good"
  BY <1>2, TapeStable DEF Copied
<1>3. CASE tx[p] # "good" /\ Mailed(p)
  BY <1>3, MailedStable
<1>4. CASE Safe(p)
  BY <1>4, SafeStable DEF Ordered, Copied
<1> QED
  BY <1>1, <1>2, <1>3, <1>4 DEF Custody, Copied

LEMMA SeenStep ==
    ASSUME TypeOK, Custody, [Next]_vars, NEW p \in Packets, ~p.ack, p \in seen'
    PROVE  p.of \in delivered'
<1>1. CASE p \in seen
  <2>1. p.of \in delivered
    BY <1>1 DEF Custody
  <2> QED
    BY <2>1, DeliveredGrows
<1>2. CASE p \notin seen
  <2>1. Toss(p)
    <3>1. ASSUME NEW c \in Procs, Starts(c) \/ Kill(c) PROVE seen' = seen
      BY <3>1 DEF Starts, XferTx, XferRx, BundleRx, Kill
    <3>2. ASSUME NEW c \in Procs, Steps(c) PROVE seen' = seen
      BY <3>2 DEF Steps, XferTxRename, XferTxRemove, Commit, Mismatch, CommitFails, RxRemove
    <3>3. ASSUME NEW q \in Packets,
                 \/ \E c \in Procs : XferSeen(c, q)
                 \/ \E yes \in BOOLEAN : BundleTx(q, yes)
                 \/ BundleDelete(q) \/ Ack(q) \/ RmAck(q) \/ Rot(q)
          PROVE  seen' = seen
      BY <3>3 DEF XferSeen, BundleTx, BundleDelete, Ack, RmAck, Rot
    <3>4. ASSUME NEW q \in Packets, Toss(q), q # p PROVE p \notin seen'
      BY <1>2, <3>4 DEF Toss
    <3>5. ASSUME NEW h \in {"A", "B"}, RmTmp(h) \/ Crash(h) PROVE seen' = seen
      BY <3>5 DEF RmTmp, Crash
    <3> QED
      BY <1>2, <3>1, <3>2, <3>3, <3>4, <3>5 DEF Next, vars
  <2> QED
    BY <2>1 DEF Toss
<1> QED
  BY <1>1, <1>2

\* An acknowledgement comes up nowhere before nncp-ack makes it.
LEMMA AckedBy ==
    ASSUME TypeOK, [Next]_vars, NEW p \in Packets, ~p.ack, ~Acked(AckOf(p)), ~Ack(p)
    PROVE  ~Acked(AckOf(p))'
<1>1. PICK q \in Packets : q = AckOf(p)
  BY Names
<1>0. /\ q.ack
      /\ \A r \in Packets : ~r.ack /\ AckOf(r) = q => r = p
      /\ \A r \in Packets : Pkt(r.of) # q
  <2>1. \A r \in Packets : Pkt(r.of).ack = FALSE
    BY DEF Pkt
  <2> QED
    BY <1>1, <2>1, Names
<1>2. /\ tx[q] = "none" /\ media[q] = "none" /\ tape[q] = "none" /\ rx[q] = "none"
      /\ \A c \in Procs : proc[c] # Idle => proc[c].pkt # q
  BY <1>1 DEF Acked
<1>3. \A c \in Procs : proc'[c] # Idle => proc'[c].pkt # q
  <2>1. ASSUME NEW c \in Procs, GoesOn(c), proc'[c] # Idle PROVE proc'[c].pkt # q
    <3>1. proc'[c] \in Jobs
      BY <2>1, TypeStep DEF TypeOK
    <3>2. proc[c] # Idle
      BY <2>1, <3>1 DEF GoesOn, Jobs, Idle
    <3> QED
      BY <1>2, <2>1, <3>2 DEF GoesOn
  <2>2. ASSUME NEW c \in Procs, Starts(c)
        PROVE  \A b \in Procs : proc'[b] # Idle => proc'[b].pkt # q
    <3>1. PICK r \in Packets, yes \in BOOLEAN :
              XferTx(c, r, yes) \/ XferRx(c, r, yes) \/ BundleRx(c, r, yes)
      BY <2>2 DEF Starts
    <3>2. r # q
      BY <1>2, <3>1 DEF XferTx, XferRx, BundleRx
    <3>3. proc'[c].pkt = r /\ \A b \in Procs \ {c} : proc'[b] = proc[b]
      BY <3>1 DEF XferTx, XferRx, BundleRx, TypeOK
    <3> QED
      BY <1>2, <3>2, <3>3
  <2> QED
    BY <2>1, <2>2, JobStep
<1>4. tx'[q] = "none"
  <2>1. ASSUME NEW c \in Procs, XferTxRemove(c) PROVE tx'[q] = "none"
    BY <1>2, <2>1, Types DEF XferTxRemove, IsCopies
  <2>2. ASSUME NEW r \in Packets,
               \/ \E yes \in BOOLEAN : BundleTx(r, yes)
               \/ BundleDelete(r) \/ RmAck(r)
        PROVE  tx'[q] = "none"
    BY <1>2, <2>2, Types DEF BundleTx, BundleDelete, RmAck, IsCopies
  <2>3. ASSUME NEW r \in Packets, Toss(r) PROVE tx'[q] = "none"
    BY <1>0, <1>2, <2>3, Types DEF Toss, IsCopies
  <2>4. ASSUME NEW r \in Packets, Ack(r) PROVE tx'[q] = "none"
    <3>1. AckOf(r) # q
      BY <1>0, <1>1, <2>4 DEF Ack
    <3> QED
      BY <1>2, <2>4, <3>1, Types DEF Ack, IsCopies
  <2> QED
    BY <1>2, <2>1, <2>2, <2>3, <2>4, TxWriters
<1>5. tape'[q] = "none"
  <2>1. ASSUME NEW r \in Packets, NEW yes \in BOOLEAN, BundleTx(r, yes) PROVE tape'[q] = "none"
    BY <1>2, <2>1, Types DEF BundleTx, IsCopies
  <2>2. ASSUME NEW r \in Packets, Rot(r) PROVE tape'[q] = "none"
    BY <1>2, <2>2, Types DEF Rot, IsCopies
  <2> QED
    BY <1>2, <2>1, <2>2, TapeWriters
<1>6. ASSUME NEW c \in Procs,
             XferTxRename(c) \/ Commit(c) \/ RxRemove(c)
      PROVE  proc[c].pkt \in Packets /\ proc[c].pkt # q
  BY <1>2, <1>6, AtWork DEF XferTxRename, Commit, RxRemove, At, Receiving, Jobs
<1>7. media'[q] = "none"
  <2>1. ASSUME NEW c \in Procs, XferTxRename(c) \/ RxRemove(c) PROVE media'[q] = "none"
    BY <1>2, <1>6, <2>1, Types DEF XferTxRename, RxRemove, IsCopies
  <2>2. ASSUME NEW r \in Packets, Rot(r) \/ \E c \in Procs : XferSeen(c, r)
        PROVE  media'[q] = "none"
    BY <1>1, <1>2, <2>2, Types DEF Rot, XferSeen, IsCopies
  <2>3. ASSUME NEW h \in {"A", "B"}, Crash(h) PROVE media'[q] = "none"
    BY <1>1, <1>2, <2>3 DEF Crash
  <2> QED
    BY <1>2, <2>1, <2>2, <2>3, MediaWriters
<1>8. rx'[q] = "none"
  <2>1. ASSUME NEW c \in Procs, Commit(c) PROVE rx'[q] = "none"
    BY <1>2, <1>6, <2>1, Types DEF Commit, IsCopies
  <2>2. ASSUME NEW r \in Packets, Toss(r) PROVE rx'[q] = "none"
    BY <1>2, <2>2, Types DEF Toss, IsCopies
  <2>3. ASSUME NEW h \in {"A", "B"}, Crash(h) PROVE rx'[q] = "none"
    BY <1>1, <1>2, <2>3 DEF Crash
  <2> QED
    BY <1>2, <2>1, <2>2, <2>3, RxWriters
<1> QED
  BY <1>1, <1>3, <1>4, <1>5, <1>7, <1>8 DEF Acked

LEMMA AckedStep ==
    ASSUME TypeOK, Ordered, Custody, [Next]_vars, NEW p \in Packets, ~p.ack,
           Acked(AckOf(p))'
    PROVE  Safe(p)'
<1>1. CASE Acked(AckOf(p))
  BY <1>1, SafeStable DEF Custody, Ordered
<1>2. CASE Ack(p)
  <2>1. rx[p] \in {"good", "bad"}
    BY <1>2, Types DEF Ack, IsCopies, Copies
  <2> QED
    BY <1>2, <2>1 DEF Ack, Safe, Given
<1> QED
  BY <1>1, <1>2, AckedBy

\* A command that has been doing something goes on with it.
LEMMA Going ==
    ASSUME TypeOK, [Next]_vars, NEW c \in Procs, ~Starts(c), proc'[c] # Idle
    PROVE  GoesOn(c) /\ proc[c] \in Jobs /\ proc'[c] \in Jobs /\ proc[c].pkt \in Packets
<1>1. GoesOn(c)
  <2>1. ASSUME NEW b \in Procs, Starts(b) PROVE GoesOn(c)
    BY <2>1 DEF Starts, XferTx, XferRx, BundleRx, GoesOn, TypeOK
  <2> QED
    BY <2>1, JobStep
<1>2. proc'[c] \in Jobs
  BY TypeStep DEF TypeOK
<1>3. proc[c] \in Jobs
  BY <1>1, <1>2 DEF TypeOK, GoesOn, Jobs, Idle
<1> QED
  BY <1>1, <1>2, <1>3 DEF Jobs

\* Only the commands' own steps bring them further.
LEMMA Progress ==
    ASSUME TypeOK, [Next]_vars, NEW c \in Procs, ~Starts(c), proc'[c] # Idle
    PROVE  \/ proc'[c].step = proc[c].step
           \/ XferTxRename(c) /\ proc'[c].step = "renamed"
           \/ Commit(c) /\ proc'[c].step = "renamed"
           \/ proc'[c].step = "notemp" /\ proc[c].prog \in Receiving
<1>1. proc[c] \in Jobs
  BY Going
<1>2. ASSUME NEW b \in Procs, b # c, Starts(b) \/ Steps(b) \/ Kill(b)
      PROVE  proc'[c] = proc[c]
  BY <1>2 DEF Starts, XferTx, XferRx, BundleRx, Steps, XferTxRename, XferTxRemove,
     Commit, Mismatch, CommitFails, RxRemove, Kill, Goes, Stops, TypeOK
<1>3. CASE XferTxRename(c) \/ Commit(c)
  <2>1. proc' = [proc EXCEPT ![c].step = "renamed"]
    BY <1>3 DEF XferTxRename, Commit, Goes
  <2> QED
    BY <1>1, <1>3, <2>1 DEF TypeOK, Jobs
<1>4. CASE Steps(c) \/ Kill(c)
  BY <1>3, <1>4 DEF Steps, XferTxRemove, Mismatch, CommitFails, RxRemove, Kill, Stops, TypeOK
<1>5. ASSUME NEW h \in {"A", "B"}, RmTmp(h)
      PROVE  \/ proc'[c].step = proc[c].step
             \/ proc'[c].step = "notemp" /\ proc[c].prog \in Receiving
  <2>1. CASE Host[c] = h /\ At(c, Receiving, "temp")
    <3>1. proc'[c] = [proc[c] EXCEPT !.step = "notemp"]
      BY <1>5, <2>1 DEF RmTmp
    <3> QED
      BY <1>1, <2>1, <3>1 DEF Jobs, At
  <2>2. CASE ~(Host[c] = h /\ At(c, Receiving, "temp"))
    BY <1>5, <2>2 DEF RmTmp
  <2> QED
    BY <2>1, <2>2
<1>6. ASSUME NEW h \in {"A", "B"}, Crash(h) PROVE proc'[c].step = proc[c].step
  BY <1>6 DEF Crash
<1>7. ASSUME NEW q \in Packets,
             \/ \E b \in Procs : XferSeen(b, q)
             \/ \E yes \in BOOLEAN : BundleTx(q, yes)
             \/ Toss(q) \/ BundleDelete(q) \/ Ack(q) \/ RmAck(q) \/ Rot(q)
      PROVE  proc' = proc
  BY <1>7 DEF XferSeen, BundleTx, Toss, BundleDelete, Ack, RmAck, Rot
<1> QED
  BY <1>2, <1>4, <1>5, <1>6, <1>7 DEF Next, vars

\* Only nncp-xfer's rename puts a packet on the medium.
LEMMA Appears ==
    ASSUME TypeOK, [Next]_vars, NEW p \in Packets, media[p] = "none", media'[p] # "none"
    PROVE  \E c \in Procs : XferTxRename(c) /\ proc[c].pkt = p
<1>1. ASSUME NEW c \in Procs, XferTxRename(c), proc[c].pkt # p PROVE FALSE
  BY <1>1, Types DEF XferTxRename, IsCopies
<1>2. ASSUME NEW c \in Procs, RxRemove(c) PROVE FALSE
  BY <1>2, Types DEF RxRemove, IsCopies
<1>3. ASSUME NEW q \in Packets, Rot(q) \/ \E c \in Procs : XferSeen(c, q) PROVE FALSE
  BY <1>3, Types DEF Rot, XferSeen, IsCopies
<1>4. ASSUME NEW h \in {"A", "B"}, Crash(h) PROVE FALSE
  BY <1>4 DEF Crash
<1> QED
  BY <1>1, <1>2, <1>3, <1>4, MediaWriters

LEMMA PromiseStep ==
    ASSUME TypeOK, Ordered, Custody, [Next]_vars, NEW c \in Procs
    PROVE  Promise(c)'
<1>1. CASE Starts(c)
  <2>1. PICK q \in Packets, yes \in BOOLEAN :
            XferTx(c, q, yes) \/ XferRx(c, q, yes) \/ BundleRx(c, q, yes)
    BY <1>1 DEF Starts
  <2>2. CASE XferTx(c, q, yes)
    <3>1. proc'[c].pkt = q /\ proc'[c].step = "temp" /\ media' = media /\ media[q] = "none"
      BY <2>2 DEF XferTx, TypeOK
    <3> QED
      BY <3>1 DEF Promise, At
  <2>3. CASE XferRx(c, q, yes) \/ BundleRx(c, q, yes)
    <3>1. proc'[c].step = "temp" /\ proc'[c].prog # "xfertx"
      BY <2>3 DEF XferRx, BundleRx, TypeOK
    <3> QED
      BY <3>1 DEF Promise, At
  <2> QED
    BY <2>1, <2>2, <2>3
<1>2. CASE proc'[c] = Idle
  BY <1>2 DEF Promise, At, Idle
<1>3. ASSUME ~Starts(c), proc'[c] # Idle PROVE Promise(c)'
  <2>0. PICK p \in Packets : p = proc[c].pkt
    BY <1>3, Going
  <2>1. GoesOn(c) /\ proc[c] \in Jobs /\ proc'[c] \in Jobs
    BY <1>3, Going
  <2>2. ASSUME At(c, {"xfertx"}, "temp")', media'[p] # "none" PROVE FALSE
    <3>1. At(c, {"xfertx"}, "temp")
      BY <1>3, <2>1, <2>2, Progress DEF At, GoesOn, Receiving
    <3>0. media[p] = "none"
      BY <2>0, <3>1 DEF Custody, Promise
    <3>2. PICK b \in Procs : XferTxRename(b) /\ proc[b].pkt = p
      BY <2>2, <3>0, Appears
    <3>3. Host[b] = Host[c] /\ proc[b].prog = "xfertx" /\ proc[c].prog = "xfertx"
      BY <2>0, <3>1, <3>2 DEF XferTxRename, At, Ordered, Matching, Matches
    <3>4. b = c
      BY <3>3 DEF Ordered, OneSender
    <3> QED
      BY <2>0, <2>1, <2>2, <3>2, <3>4 DEF XferTxRename, Goes, At, TypeOK
  <2>3. ASSUME At(c, {"xfertx"}, "renamed")', ~p.ack, ~proc[c].keep
        PROVE  media'[p] = "good" \/ Safe(p)'
    <3>1. CASE XferTxRename(c)
      BY <2>0, <2>1, <3>1, Types DEF XferTxRename, At, IsCopies, Ordered, Matching, Matches
    <3>2. CASE ~XferTxRename(c)
      <4>1. At(c, {"xfertx"}, "renamed")
        BY <1>3, <2>1, <2>3, <3>2, Progress DEF At, GoesOn, Receiving, Commit
      <4>2. CASE Safe(p)
        BY <2>0, <2>1, <2>3, <4>2, SafeStable DEF Ordered
      <4>3. CASE media[p] = "good"
        <5>1. Entrusted(p) /\ Host[c] = Src(p)
          BY <2>0, <2>3, <4>1 DEF Entrusted, At, Ordered, Matching, Matches
        <5>2. ~Crash(Src(p))
          BY <1>3, <5>1 DEF Crash
        <5> QED
          BY <2>0, <2>1, <2>3, <4>3, <5>1, <5>2, MediaStable
      <4> QED
        BY <2>0, <2>1, <2>3, <4>1, <4>2, <4>3 DEF Custody, Promise
    <3> QED
      BY <3>1, <3>2
  <2>4. ASSUME At(c, {"xferrx"}, "renamed")', ~p.ack
        PROVE  rx'[p] = "good" \/ Given(p)'
    <3>1. CASE Commit(c)
      BY <2>0, <2>1, <2>4, <3>1, Types DEF Commit, At, GoesOn, IsCopies, Ordered, Matching, Matches
    <3>2. CASE ~Commit(c)
      <4>1. At(c, {"xferrx"}, "renamed")
        BY <1>3, <2>1, <2>4, <3>2, Progress DEF At, GoesOn, Receiving, XferTxRename
      <4>2. CASE Given(p)
        BY <4>2, GivenStable
      <4>3. CASE rx[p] = "good"
        <5>1. Host[c] = Dst(p)
          BY <2>0, <4>1 DEF At, Receiving, Ordered, Matching, Matches
        <5>2. ~Crash(Dst(p))
          BY <1>3, <5>1 DEF Crash
        <5> QED
          BY <2>0, <2>1, <2>4, <4>3, <5>2, RxStable DEF Ordered
      <4> QED
        BY <2>0, <2>4, <4>1, <4>2, <4>3 DEF Custody, Promise
    <3> QED
      BY <3>1, <3>2
  <2>5. proc'[c].pkt = p /\ proc'[c].keep = proc[c].keep
    BY <2>0, <2>1 DEF GoesOn
  <2> QED
    BY <2>0, <2>2, <2>3, <2>4, <2>5 DEF Promise
<1> QED
  BY <1>1, <1>2, <1>3

LEMMA CustodyStep == TypeOK /\ Ordered /\ Custody /\ [Next]_vars => Custody'
<1> SUFFICES ASSUME TypeOK, Ordered, Custody, [Next]_vars PROVE Custody'
  OBVIOUS
<1>1. ASSUME NEW p \in Packets, ~p.ack
      PROVE  /\ Copied(p)'
             /\ p \in seen' => p.of \in delivered'
             /\ Acked(AckOf(p))' => Safe(p)'
  BY <1>1, CopiedStep, SeenStep, AckedStep
<1> QED
  BY <1>1, PromiseStep DEF Custody

LEMMA InitCustody == Init => Custody
<1> SUFFICES ASSUME Init PROVE Custody
  OBVIOUS
<1>1. ASSUME NEW c \in Procs PROVE Promise(c)
  BY DEF Init, Promise, At, Idle
<1>2. ASSUME NEW p \in Packets, ~p.ack
      PROVE  Copied(p) /\ p \notin seen /\ ~Acked(AckOf(p))
  <2>1. AckOf(p) \in Packets /\ AckOf(p).ack
    BY <1>2, Names
  <2> QED
    BY <1>2, <2>1 DEF Init, Copied, Acked
<1> QED
  BY <1>1, <1>2 DEF Custody

\* Whatever commands run beside each other, are killed, lose their temporary
\* files or crash, and whatever the medium damages: an intact copy of every
\* packet is somewhere, or its data was delivered, or it is in risked: sent
\* with nncp-bundle -tx -delete, acknowledged before it was verified or durable,
\* replaced by an unverified entry of a bundle, or damaged on a medium that had
\* the only copy (nncp-xfer's order of rename, DirSync and removal; nncp-bundle
\* -rx -delete; nncp-ack).
THEOREM PacketsKept == Spec => []NeverLost
<1>1. Init => TypeOK /\ Ordered /\ Custody
  BY InitTyped, InitOrdered, InitCustody
<1>2. TypeOK /\ Ordered /\ Custody /\ [Next]_vars => TypeOK' /\ Ordered' /\ Custody'
  BY TypeStep, OrderedStep, CustodyStep
<1>3. TypeOK /\ Custody => NeverLost
  <2> SUFFICES ASSUME Custody, NEW d \in Data PROVE Intact(Pkt(d))
    BY DEF NeverLost
  <2>1. Pkt(d) \in Packets /\ ~Pkt(d).ack
    BY DEF Pkt, Packets
  <2> QED
    BY <2>1 DEF Custody, Copied, Mailed, Safe, Given, Intact
<1> QED
  BY <1>1, <1>2, <1>3, PTL DEF Spec
=============================================================================
