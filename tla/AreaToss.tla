------------------------------ MODULE AreaToss ------------------------------
(***************************************************************************)
(* Multicast areas: one message to an area on its way through a network of *)
(* nodes, each of which relays it to its own subscribers of the area and,  *)
(* if it has the area's key, reads it.                                     *)
(*                                                                         *)
(* jobProcess takes care of one subscriber per pass: it sends him a copy   *)
(* (unless it is he who the packet is from), makes the file                *)
(* <subscriber>/area/<area>/<message> and has the packet opened again.     *)
(* When all the subscribers have their files, the node's own such file     *)
(* tells whether the message has been read; then the packet is removed.    *)
(*                                                                         *)
(* A toss is under the lock of one neighbour's directory (see Toss), so    *)
(* copies from several neighbours may be worked on at the same time.       *)
(* Transport is immediate: a copy that is in tx/ is in the peer's rx/,     *)
(* once (SPTransfer).                                                      *)
(***************************************************************************)
EXTENDS Integers, FiniteSets

CONSTANTS
    Nodes,       \* nodes that know the area
    Author,      \* the one whose message it is
    None,        \* no subscriber
    Subs,        \* Subs[n]: subscribers n relays to
    Keys,        \* nodes with the area's private key
    Parallel,    \* nodes where several tossers are at work
    Long,        \* the message is longer than the pipe's buffers
    MaxTroubles  \* bound on failures and crashes

ASSUME AreaAssumption ==
    /\ Author \in Nodes /\ None \notin Nodes
    /\ Subs \in [Nodes -> SUBSET Nodes] /\ \A n \in Nodes : n \notin Subs[n]
    /\ Keys \subseteq Nodes /\ Author \in Keys
    /\ Parallel \subseteq Nodes
    /\ Long \in BOOLEAN
    /\ MaxTroubles \in Nat

VARIABLES
    posting,     \* what the author's command has done
    inbox,       \* inbox[n][s]: copies from s in n's spool
    seen,        \* seen[n]: whose files of the message n has, its own too
    at,          \* at[n][s]: what the toss of s's directory at n does next
    echo,        \* echo[n][s]: the subscriber of its present pass
    sent,        \* sent[n][x]: copies n has sent to x
    read,        \* read[n]: times the message was handed to n's user
    removed,     \* removed[n][s]: copies whose removal a crash may undo
    troubles     \* failed calls, ended processes and crashes

spool  == <<inbox, seen, removed>>
tosser == <<at, echo>>
output == <<sent, read>>
vars == <<posting, spool, tosser, output, troubles>>

Each(v) == [n \in Nodes |-> [s \in Nodes |-> v]]

Trouble == troubles < MaxTroubles /\ troubles' = troubles + 1

Init ==
    /\ posting = "no"
    /\ inbox = Each(0) /\ removed = Each(0) /\ seen = [n \in Nodes |-> {}]
    /\ at = Each("idle") /\ echo = Each(None)
    /\ sent = Each(0) /\ read = [n \in Nodes |-> 0]
    /\ troubles = 0

-----------------------------------------------------------------------------
(* The author *)

\* The message is committed as a packet to the author himself...
Post ==
    /\ posting = "no" /\ posting' = "committed"
    /\ inbox' = [inbox EXCEPT ![Author][Author] = @ + 1]
    /\ UNCHANGED <<seen, removed, tosser, output, troubles>>

\* ... and then noted as read by him.
PostSeen ==
    /\ posting = "committed" /\ posting' = "done"
    /\ seen' = [seen EXCEPT ![Author] = @ \cup {Author}]
    /\ UNCHANGED <<inbox, removed, tosser, output, troubles>>

\* The command ends before that.
PostStop ==
    /\ posting = "committed" /\ posting' = "done"
    /\ Trouble
    /\ UNCHANGED <<spool, tosser, output>>

-----------------------------------------------------------------------------
(* Tossing the copy from s at n *)

Step(n, s, stage, next) ==
    /\ at[n][s] = stage
    /\ at' = [at EXCEPT ![n][s] = next]

\* The lock of s's directory is taken; without a second tosser at n no other
\* directory is tossed meanwhile.
Begin(n, s) ==
    /\ inbox[n][s] > 0
    /\ n \in Parallel \/ \A r \in Nodes : at[n][r] = "idle"
    /\ Step(n, s, "idle", "pass")
    /\ UNCHANGED <<posting, spool, echo, output, troubles>>

\* Bug: all the neighbours are gone through, not the subscribers.
BuggyUnserved(n) == Nodes \ seen[n]

\* Bug: that the message has been read is looked for first.
HastyUnserved(n) == IF n \in seen[n] THEN {} ELSE Subs[n] \ seen[n]

\* Subscribers without a file of theirs.
Unserved(n) == Subs[n] \ seen[n]

\* What is done for subscriber x: he does not get back what he sent.  The
\* message's author may: he is compared with x by the address of his name.
Target(n, s, x) == IF x = s THEN "mark" ELSE "send"

\* Bug: who can not read the message leaves it.
BuggyOwn(n) ==
    IF n \in seen[n] THEN "remove" ELSE IF n \in Keys THEN "read" ELSE "idle"

\* Every subscriber has his file: has n's user?  Then, or if n can not read
\* the message, there is nothing left to do but remove it.
Own(n) ==
    IF n \in seen[n] THEN "remove" ELSE IF n \in Keys THEN "read" ELSE "markself"

\* The first subscriber without a seen file is looked for.
Pass(n, s) ==
    /\ \/ \E x \in Unserved(n) :
            /\ Step(n, s, "pass", Target(n, s, x))
            /\ echo' = [echo EXCEPT ![n][s] = x]
       \/ /\ Unserved(n) = {}
          /\ Step(n, s, "pass", Own(n))
          /\ UNCHANGED echo
    /\ UNCHANGED <<posting, spool, output, troubles>>

\* Tx() of the area packet to him.
Send(n, s) ==
    LET x == echo[n][s]
    IN  /\ Step(n, s, "send", "mark")
        /\ inbox' = [inbox EXCEPT ![x][n] = @ + 1]
        /\ sent' = [sent EXCEPT ![n][x] = @ + 1]
        /\ UNCHANGED <<posting, seen, removed, echo, read, troubles>>

\* Bug: his file is not made.
BuggyMarked(n, x) == seen

\* Bug: the node's own file is made too.
HastyMarked(n, x) == [seen EXCEPT ![n] = @ \cup {n, x}]

\* His file is made, and its directory synced.
Marked(n, x) == [seen EXCEPT ![n] = @ \cup {x}]

\* JobRepeatProcess: the packet is opened again.  Who was sent nothing has
\* left the payload unread, which ends the toss of a long one.
Mark(n, s) ==
    LET x == echo[n][s]
    IN  /\ Step(n, s, "mark", IF x = s /\ Long THEN "idle" ELSE "pass")
        /\ seen' = Marked(n, x)
        /\ echo' = [echo EXCEPT ![n][s] = None]
        /\ UNCHANGED <<posting, inbox, removed, output, troubles>>

\* The encrypted packet is processed as an ordinary one.
Read(n, s) ==
    /\ Step(n, s, "read", "markself")
    /\ read' = [read EXCEPT ![n] = @ + 1]
    /\ UNCHANGED <<posting, spool, echo, sent, troubles>>

\* That the file can not be made is no error here.
MarkSelf(n, s) ==
    /\ Step(n, s, "markself", "remove")
    /\ \/ seen' = Marked(n, n) /\ UNCHANGED troubles
       \/ Trouble /\ UNCHANGED seen
    /\ UNCHANGED <<posting, inbox, removed, echo, output>>

\* One that has been read before is removed in the same way.
Remove(n, s) ==
    /\ Step(n, s, "remove", "idle")
    /\ inbox' = [inbox EXCEPT ![n][s] = @ - 1]
    /\ removed' = [removed EXCEPT ![n][s] = @ + 1]
    /\ UNCHANGED <<posting, seen, echo, output, troubles>>

\* A call fails, the process dies, or a reader refuses an unknown author: the
\* packet stays.
Stop(n, s) ==
    /\ at[n][s] # "idle"
    /\ Trouble
    /\ at' = [at EXCEPT ![n][s] = "idle"]
    /\ echo' = [echo EXCEPT ![n][s] = None]
    /\ UNCHANGED <<posting, spool, output>>

\* n's machine crashes, and its tosses and the author's command with it.  rx/
\* is not synced after a removal, nor is the directory a new directory of seen
\* files is in.
Crash(n) ==
    /\ Trouble
    /\ posting' = IF n = Author /\ posting = "committed" THEN "done" ELSE posting
    /\ at' = [at EXCEPT ![n] = [s \in Nodes |-> "idle"]]
    /\ echo' = [echo EXCEPT ![n] = [s \in Nodes |-> None]]
    /\ \E lost \in SUBSET seen[n] : seen' = [seen EXCEPT ![n] = @ \ lost]
    /\ \E back \in SUBSET Nodes :
         inbox' = [inbox EXCEPT ![n] = [s \in Nodes |->
                     IF s \in back THEN @[s] + removed[n][s] ELSE @[s]]]
    /\ removed' = [removed EXCEPT ![n] = [s \in Nodes |-> 0]]
    /\ UNCHANGED output

-----------------------------------------------------------------------------
JobProcess(n, s) ==
    \/ Pass(n, s) \/ Send(n, s) \/ Mark(n, s)
    \/ Read(n, s) \/ MarkSelf(n, s) \/ Remove(n, s)

Toss(n, s) == Begin(n, s) \/ JobProcess(n, s)

Next ==
    \/ Post \/ PostSeen \/ PostStop
    \/ \E n, s \in Nodes : Toss(n, s) \/ Stop(n, s)
    \/ \E n \in Nodes : Crash(n)

Spec == Init /\ [][Next]_vars

\* The author's command goes on, and so do the tosses at every node: in which
\* order the directories are tossed, and how often, is left open.
Fairness ==
    /\ WF_vars(PostSeen)
    /\ \A n \in Nodes : WF_vars(\E s \in Nodes : Toss(n, s))

FairSpec == Spec /\ Fairness

-----------------------------------------------------------------------------
(* Properties *)

Stages == {"idle", "pass", "send", "mark", "read", "markself", "remove"}
TypeOK ==
    /\ posting \in {"no", "committed", "done"}
    /\ inbox \in [Nodes -> [Nodes -> Nat]]
    /\ removed \in [Nodes -> [Nodes -> Nat]]
    /\ seen \in [Nodes -> SUBSET Nodes]
    /\ at \in [Nodes -> [Nodes -> Stages]]
    /\ echo \in [Nodes -> [Nodes -> Nodes \cup {None}]]
    /\ \A n, s \in Nodes : at[n][s] \in {"send", "mark"} => echo[n][s] \in Subs[n]
    /\ sent \in [Nodes -> [Nodes -> Nat]]
    /\ read \in [Nodes -> Nat]
    /\ troubles \in 0..MaxTroubles

Had(n) == (n = Author /\ posting # "no") \/ \E s \in Nodes : sent[s][n] > 0

\* n has removed a copy, or a crash after the removal has left it none.
WorkedOff(n) ==
    \/ \E s \in Nodes : removed[n][s] > 0
    \/ Had(n) /\ \A s \in Nodes : inbox[n][s] = 0

\* x has the message from n, or n has it from x.
Shared(n, x) == sent[n][x] > 0 \/ sent[x][n] > 0

\* No copy is removed before all the subscribers have the message, and the
\* node's user too if he can read it, in spite of failing calls, crashes and
\* tosses side by side (multicast.texi: "It would be bad if we will loose the
\* possibility to retry the multicasting process again").
AllServed ==
    \A n \in Nodes : WorkedOff(n) =>
        /\ \A x \in Subs[n] : Shared(n, x)
        /\ n \in Keys \ {Author} => read[n] > 0

\* However the subscriptions go in circles, and however many copies a node
\* gets: where one directory is tossed at a time, every subscriber is sent one
\* copy, and the message is read once, and once more at most per failure.
FewCopies ==
    \A n \in Nodes \ Parallel :
        /\ read[n] <= 1 + troubles
        /\ \A x \in Nodes : sent[n][x] <= 1 + troubles

\* Nobody reads the message twice (multicast.texi of a node with two copies
\* of it: "Only one of them processed, and other is ignored").
ReadOnce == troubles = 0 => \A n \in Nodes : read[n] <= 1

\* The author is not given his own message (multicast.texi: "Because we already
\* have SPOOL/SELF/area/AREA/MsgHash, that packet is removed then").
AuthorSpared == troubles = 0 => read[Author] = 0

\* Nodes the message can reach in k hops.
Within[k \in Nat] ==
    IF k = 0 THEN {Author} ELSE Within[k - 1] \cup UNION {Subs[n] : n \in Within[k - 1]}
Reached == Within[Cardinality(Nodes)]

\* Every node along the subscriptions that can read the message does, and the
\* copies come to an end, whatever circles the subscriptions go in.
Flooded ==
    posting # "no" ~> [](/\ \A n \in (Reached \cap Keys) \ {Author} : read[n] > 0
                         /\ \A n, s \in Nodes : inbox[n][s] = 0)
=============================================================================
