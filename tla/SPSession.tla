----------------------------- MODULE SPSession -----------------------------
(***************************************************************************)
(* One online session of the synchronisation protocol, at one node: from   *)
(* SPState.StartI or StartR through the goroutines StartWorkers spawns to  *)
(* SPState.Wait (src/src/sp.go:254-1142).  What the messages say is the    *)
(* matter of SPTransfer and SPQueue; this module is about who is running,  *)
(* who waits for whom, which locks are held meanwhile, and about how the   *)
(* stream of the peer's messages is cut into messages.                     *)
(*                                                                         *)
(* The channels "payloads" and "pings" are unbuffered: a goroutine that    *)
(* sends stays blocked until the sender goroutine, or the goroutines       *)
(* SetDead starts, receive.                                                *)
(***************************************************************************)
EXTENDS Integers, Sequences, FiniteSets

CONSTANTS
    Wants,        \* what StartI is to lock: xxOnly and listOnly
    MaxRest,      \* payloads of INFOs that did not fit the first message
    Msgs,         \* messages the peer sends after the handshake
    MaxReplies,   \* payloads ProcessSP answers one message with
    MaxInfos,     \* payloads of one directory event of the watcher
    MaxPings,     \* pings waiting at a time
    MaxDones      \* packets the checker finishes for this session

ASSUME WantsAreDirs == Wants \subseteq SUBSET {"rx", "tx"}
ASSUME BoundsAreNat ==
    {MaxRest, Msgs, MaxReplies, MaxInfos, MaxPings, MaxDones} \subseteq Nat

VARIABLES
    want,      \* directories to lock
    phase,     \* how far the goroutine that runs StartI or StartR is
    locks,     \* SPState.rxLock, txLock: the locks the process holds
    pc,        \* where each goroutine is
    todo,      \* payloads it has still to send on its channel
    wg,        \* SPState.wg
    dead,      \* isDead is closed
    closed,    \* payloads and pings are closed
    open,      \* the connection is open
    taken,     \* half messages of the peer's stream ReadSP has consumed
    handled    \* what ProcessSP was given, in order

vars == <<want, phase, locks, pc, todo, wg, dead, closed, open, taken, handled>>
conn == <<open, taken, handled>>
setup == <<want, locks>>

----------------------------------------------------------------------------
(* Goroutines. *)

Rest     == <<"rest", 0>>
Periodic == <<"periodic", 0>>
Watcher  == <<"watcher", 0>>
Sender   == <<"sender", 0>>
Receiver == <<"receiver", 0>>
Replier(m) == <<"reply", m>>     \* 0 answers the handshake's message
Pinger(k)  == <<"ping", k>>
Done(k)    == <<"done", k>>      \* of SPChecker, not of the session

Repliers == {Replier(m) : m \in 0..Msgs}
Pingers  == {Pinger(k) : k \in 1..MaxPings}
Dones    == {Done(k) : k \in 1..MaxDones}
Counted  == {Rest, Periodic, Watcher, Sender, Receiver} \cup Repliers \cup Pingers
Goroutines == Counted \cup Dones
Producers  == {Rest, Watcher} \cup Repliers \cup Pingers \cup Dones

Running == {"on", "select", "writing", "top", "reading", "processing",
            "scanning", "unlucky", "dying"}
Places  == {"off", "done", "setdead", "close"} \cup Running

(* The steps of StartI and of StartR, in the order of each, and what the   *)
(* goroutine that called it comes to afterwards.                           *)
Script(r) == IF r = "I"
             THEN <<"lockrx", "locktx", "write", "read", "rest", "first">>
             ELSE <<"read", "lockrx", "locktx", "write", "rest", "first">>
Phases == [role : {"I", "R"}, step : 1..6]
          \cup [role : {"waiting", "ended", "failed", "aborted"}, step : {0}]
Now(p)    == [role |-> p, step |-> 0]
Starting  == phase.step > 0
Over      == phase.role \in {"ended", "failed", "aborted"}
Doing(s)  == Starting /\ Script(phase.role)[phase.step] = s
NextStep  == phase' = [phase EXCEPT !.step = @ + 1]

Init ==
    /\ phase \in [role : {"I", "R"}, step : {1}]
    /\ want \in IF phase.role = "I" THEN Wants ELSE {{"rx", "tx"}}
    /\ locks = {}
    /\ pc = [g \in Goroutines |-> "off"]
    /\ todo = [g \in Producers |-> 0]
    /\ wg = 0
    /\ dead = FALSE /\ closed = FALSE
    /\ open = TRUE /\ taken = 0
    /\ handled = <<>>

----------------------------------------------------------------------------
(* Handshake (StartI, StartR).  A lock that another process holds is an    *)
(* error and ends the attempt; so does anything that goes wrong in writing *)
(* or reading the two Noise messages.  Every error after both LockDir      *)
(* calls unlocks; the error of the second LockDir does not unlock the      *)
(* first (src/src/sp.go:394, 597).                                         *)

Lock(s, d) ==
    /\ Doing(s)
    /\ locks' = IF d \in want THEN locks \cup {d} ELSE locks
    /\ NextStep
    /\ UNCHANGED <<want, pc, todo, wg, dead, closed, conn>>

LockFails(s, d) ==
    /\ Doing(s) /\ d \in want
    /\ phase' = Now("failed")
    /\ UNCHANGED <<setup, pc, todo, wg, dead, closed, conn>>

Shake(s) ==
    /\ Doing(s)
    /\ NextStep
    /\ UNCHANGED <<setup, pc, todo, wg, dead, closed, conn>>

ShakeFails(s) ==
    /\ Doing(s)
    /\ phase' = Now("failed") /\ locks' = {}
    /\ UNCHANGED <<want, pc, todo, wg, dead, closed, conn>>

(* The os.File of a lock nobody refers to any more is closed by the        *)
(* finaliser of the garbage collector.                                     *)
Collect ==
    /\ phase.role = "failed" /\ locks # {}
    /\ locks' = {}
    /\ UNCHANGED <<want, phase, pc, todo, wg, dead, closed, conn>>

(* StartWorkers: the remaining INFO payloads, then the first payload's     *)
(* replies, then the other goroutines.  When ProcessSP refuses the first   *)
(* payload, StartWorkers returns an error with "rest" already running.     *)
StartRest ==
    /\ Doing("rest")
    /\ \E n \in 0..(IF "tx" \in want THEN MaxRest ELSE 0) :
          /\ todo' = [todo EXCEPT ![Rest] = n]
          /\ pc' = [pc EXCEPT ![Rest] = IF n > 0 THEN "on" ELSE "off"]
          /\ wg' = IF n > 0 THEN wg + 1 ELSE wg
    /\ NextStep
    /\ UNCHANGED <<setup, dead, closed, conn>>

FirstBad ==
    /\ Doing("first")
    /\ phase' = Now("failed") /\ locks' = {}
    /\ UNCHANGED <<want, pc, todo, wg, dead, closed, conn>>

StartWorkers ==
    /\ Doing("first")
    /\ \E n \in 0..MaxReplies :
          LET started == {Periodic, Sender, Receiver}
                         \cup {g \in {Watcher} : "tx" \in want}
                         \cup {g \in {Replier(0)} : n > 0}
          IN /\ pc' = [g \in Goroutines |->
                         IF g = Sender THEN "select"
                         ELSE IF g = Receiver THEN "top"
                         ELSE IF g \in started THEN "on" ELSE pc[g]]
             /\ wg' = wg + Cardinality(started)
             /\ todo' = [todo EXCEPT ![Replier(0)] = n]
    /\ phase' = Now("waiting")
    /\ UNCHANGED <<setup, dead, closed, conn>>

----------------------------------------------------------------------------
(* Channels.  One goroutine blocked in a send hands over one payload.  A   *)
(* goroutine that is done with its last one leaves wg at once; one that    *)
(* has nothing to send is gone as soon as it is started.                   *)

Sending(g) == pc[g] = "on" /\ todo[g] > 0

HandOver(g, senderAt) ==
    LET leaves == todo[g] = 1 /\ g # Watcher
        gone   == IF g \in Dones THEN "done" ELSE "off"
    IN /\ todo' = [todo EXCEPT ![g] = @ - 1]
       /\ pc' = [pc EXCEPT ![Sender] = senderAt, ![g] = IF leaves THEN gone ELSE @]
       /\ wg' = IF leaves /\ g \in Counted THEN wg - 1 ELSE wg

(* Bug: only the pings are drained. *)
PingsDrain(g) ==
    /\ dead /\ ~closed /\ Sending(g) /\ g \in Pingers
    /\ HandOver(g, pc[Sender])
    /\ UNCHANGED <<setup, phase, dead, closed, conn>>

(* SetDead's goroutines range over both channels until Wait closes them. *)
Drain(g) ==
    /\ dead /\ ~closed /\ Sending(g)
    /\ HandOver(g, pc[Sender])
    /\ UNCHANGED <<setup, phase, dead, closed, conn>>

(* SPChecker answers DONE from a goroutine of its own, outside of wg.  On  *)
(* a closed channel its send panics and is recovered.                      *)
CheckerDone(g) ==
    /\ g \in Dones
    /\ ~Starting /\ phase.role # "aborted"
    /\ pc[g] = "off"
    /\ pc' = [pc EXCEPT ![g] = "on"]
    /\ todo' = [todo EXCEPT ![g] = 1]
    /\ UNCHANGED <<setup, phase, wg, dead, closed, conn>>

CheckerLeaves(g) ==
    /\ g \in Dones
    /\ pc[g] = "on" /\ closed
    /\ pc' = [pc EXCEPT ![g] = "done"]
    /\ UNCHANGED <<setup, phase, todo, wg, dead, closed, conn>>

----------------------------------------------------------------------------
(* The periodic goroutine. *)

SetDead == dead' = TRUE

PingTick(k) ==
    /\ pc[Periodic] = "on"
    /\ pc[Pinger(k)] = "off"
    /\ pc' = [pc EXCEPT ![Pinger(k)] = "on"]
    /\ todo' = [todo EXCEPT ![Pinger(k)] = 1]
    /\ wg' = wg + 1
    /\ UNCHANGED <<setup, phase, dead, closed, conn>>

Deadline ==
    /\ pc[Periodic] = "on"
    /\ SetDead /\ open' = FALSE
    /\ UNCHANGED <<setup, phase, pc, todo, wg, closed, taken, handled>>

PeriodicEnds ==
    /\ pc[Periodic] = "on" /\ dead
    /\ pc' = [pc EXCEPT ![Periodic] = "done"]
    /\ wg' = wg - 1
    /\ UNCHANGED <<setup, phase, todo, dead, closed, conn>>

----------------------------------------------------------------------------
(* The watcher of tx/: infosOur marks the packets it lists in infosOurSeen *)
(* while it is "scanning", then queues the INFOs one by one.               *)

DirEvent ==
    /\ pc[Watcher] = "on" /\ todo[Watcher] = 0
    /\ pc' = [pc EXCEPT ![Watcher] = "scanning"]
    /\ UNCHANGED <<setup, phase, todo, wg, dead, closed, conn>>

Scanned ==
    /\ pc[Watcher] = "scanning"
    /\ pc' = [pc EXCEPT ![Watcher] = "on"]
    /\ \E n \in 0..MaxInfos : todo' = [todo EXCEPT ![Watcher] = n]
    /\ UNCHANGED <<setup, phase, wg, dead, closed, conn>>

WatcherEnds ==
    /\ pc[Watcher] = "on" /\ todo[Watcher] = 0 /\ dead
    /\ pc' = [pc EXCEPT ![Watcher] = "done"]
    /\ wg' = wg - 1
    /\ UNCHANGED <<setup, phase, todo, dead, closed, conn>>

----------------------------------------------------------------------------
(* The sender.  "select": its NotAlive test and the select; the default    *)
(* branch reads a chunk of the queue's first file, if there is one, and is *)
(* possible although another goroutine is about to send: a goroutine that  *)
(* was just started need not have got to its send.                         *)

SenderTakes(g) ==
    /\ pc[Sender] = "select" /\ Sending(g)
    /\ HandOver(g, "writing")
    /\ UNCHANGED <<setup, phase, dead, closed, conn>>

SenderReadsFile ==
    /\ pc[Sender] = "select"
    /\ pc' = [pc EXCEPT ![Sender] = "writing"]
    /\ UNCHANGED <<setup, phase, todo, wg, dead, closed, conn>>

(* A file that cannot be opened or read ends the sender. *)
SenderFileFails ==
    /\ pc[Sender] = "select"
    /\ pc' = [pc EXCEPT ![Sender] = "dying"]
    /\ UNCHANGED <<setup, phase, todo, wg, dead, closed, conn>>

SenderSeesDead ==
    /\ pc[Sender] = "select" /\ dead
    /\ pc' = [pc EXCEPT ![Sender] = "dying"]
    /\ UNCHANGED <<setup, phase, todo, wg, dead, closed, conn>>

Write ==
    /\ pc[Sender] = "writing" /\ open
    /\ pc' = [pc EXCEPT ![Sender] = "select"]
    /\ UNCHANGED <<setup, phase, todo, wg, dead, closed, conn>>

WriteFails ==
    /\ pc[Sender] = "writing"
    /\ pc' = [pc EXCEPT ![Sender] = "dying"]
    /\ UNCHANGED <<setup, phase, todo, wg, dead, closed, conn>>

(* Its deferred calls: wg.Done, then SetDead and conn.Close. *)
SenderDone ==
    /\ pc[Sender] = "dying"
    /\ wg' = wg - 1
    /\ pc' = [pc EXCEPT ![Sender] = "close"]
    /\ UNCHANGED <<setup, phase, todo, dead, closed, conn>>

SenderCloses ==
    /\ pc[Sender] = "close"
    /\ SetDead /\ open' = FALSE
    /\ pc' = [pc EXCEPT ![Sender] = "done"]
    /\ UNCHANGED <<setup, phase, todo, wg, closed, taken, handled>>

----------------------------------------------------------------------------
(* The receiver. *)

Aligned == taken % 2 = 0
Left    == 2 * Msgs - taken    \* what the peer still sends

ReadSP ==
    /\ pc[Receiver] = "top" /\ ~dead
    /\ pc' = [pc EXCEPT ![Receiver] = "reading"]
    /\ UNCHANGED <<setup, phase, todo, wg, dead, closed, conn>>

ReceiverSeesDead ==
    /\ pc[Receiver] = "top" /\ dead
    /\ pc' = [pc EXCEPT ![Receiver] = "dying"]
    /\ UNCHANGED <<setup, phase, todo, wg, dead, closed, conn>>

Got ==
    /\ pc[Receiver] = "reading" /\ open /\ Aligned /\ Left > 0
    /\ pc' = [pc EXCEPT ![Receiver] = "processing"]
    /\ taken' = taken + 2
    /\ handled' = Append(handled, taken \div 2 + 1)
    /\ UNCHANGED <<setup, phase, todo, wg, dead, closed, open>>

(* Bug: the rest of the message is skipped. *)
SkippingTimeout ==
    /\ pc[Receiver] = "reading"
    /\ pc' = [pc EXCEPT ![Receiver] = "top"]
    /\ taken' \in {taken} \cup IF Aligned /\ Left > 0 THEN {taken + 2} ELSE {}
    /\ UNCHANGED <<setup, phase, todo, wg, dead, closed, open, handled>>

(* The deadline of the read passes: what ReadSP had of the message is      *)
(* lost, and the loop reads again from where the stream is.                *)
Timeout ==
    /\ pc[Receiver] = "reading"
    /\ pc' = [pc EXCEPT ![Receiver] = "top"]
    /\ taken' \in {taken} \cup IF Aligned /\ Left > 0 THEN {taken + 1} ELSE {}
    /\ UNCHANGED <<setup, phase, todo, wg, dead, closed, open, handled>>

(* Bytes from the middle of a message are no SPRaw: decoding fails, or the *)
(* magic is wrong.                                                         *)
Skewed ==
    /\ pc[Receiver] = "reading" /\ open /\ ~Aligned
    /\ \E p \in {"dying", "unlucky"} : pc' = [pc EXCEPT ![Receiver] = p]
    /\ taken' = taken + 1
    /\ UNCHANGED <<setup, phase, todo, wg, dead, closed, open, handled>>

(* EOF, a reset of the peer, or our own conn.Close. *)
ReadFails ==
    /\ pc[Receiver] = "reading"
    /\ pc' = [pc EXCEPT ![Receiver] = "dying"]
    /\ UNCHANGED <<setup, phase, todo, wg, dead, closed, conn>>

(* Bug: replies are sent by a goroutine that is not added to wg. *)
UncountedReply ==
    /\ pc[Receiver] = "processing"
    /\ LET r == Replier(Len(handled)) IN
          /\ todo' = [todo EXCEPT ![r] = MaxReplies]
          /\ pc' = [pc EXCEPT ![Receiver] = "top", ![r] = "on"]
    /\ UNCHANGED <<setup, phase, wg, dead, closed, conn>>

Processed ==
    /\ pc[Receiver] = "processing"
    /\ LET r == Replier(Len(handled)) IN
          \E n \in 0..MaxReplies :
             /\ todo' = [todo EXCEPT ![r] = n]
             /\ pc' = [pc EXCEPT ![Receiver] = "top",
                                 ![r] = IF n > 0 THEN "on" ELSE "off"]
             /\ wg' = IF n > 0 THEN wg + 1 ELSE wg
    /\ UNCHANGED <<setup, phase, dead, closed, conn>>

(* Decryption or ProcessSP fails. *)
Refused ==
    /\ pc[Receiver] = "processing"
    /\ pc' = [pc EXCEPT ![Receiver] = "dying"]
    /\ UNCHANGED <<setup, phase, todo, wg, dead, closed, conn>>

(* SetDead, wg.Done, SetDead, conn.Close. *)
ReceiverSetsDead ==
    /\ pc[Receiver] = "dying"
    /\ SetDead
    /\ pc' = [pc EXCEPT ![Receiver] = "setdead"]
    /\ UNCHANGED <<setup, phase, todo, wg, closed, conn>>

ReceiverDone ==
    /\ pc[Receiver] = "setdead"
    /\ wg' = wg - 1
    /\ pc' = [pc EXCEPT ![Receiver] = "close"]
    /\ UNCHANGED <<setup, phase, todo, dead, closed, conn>>

ReceiverCloses ==
    /\ pc[Receiver] = "close"
    /\ SetDead /\ open' = FALSE
    /\ pc' = [pc EXCEPT ![Receiver] = "done"]
    /\ UNCHANGED <<setup, phase, todo, wg, closed, taken, handled>>

----------------------------------------------------------------------------
(* Wait, and the end of the process. *)

Wait ==
    /\ phase.role = "waiting" /\ wg = 0
    /\ closed' = TRUE
    /\ locks' = {}
    /\ phase' = Now("ended")
    /\ UNCHANGED <<want, pc, todo, wg, dead, conn>>

(* The process ends and the kernel frees its locks. *)
Abort ==
    /\ phase' = Now("aborted") /\ locks' = {} /\ open' = FALSE
    /\ pc' = [g \in Goroutines |-> "done"]
    /\ UNCHANGED <<want, todo, wg, dead, closed, taken, handled>>

(* The receiver asserts the type of an error BadMagic does not have. *)
PanicBadMagic == pc[Receiver] = "unlucky" /\ Abort

(* A FREQ reads infosOurSeen (src/src/sp.go:1637) while the watcher's      *)
(* infosOur writes it, and the Go runtime notices.                         *)
PanicMapRace ==
    pc[Receiver] = "processing" /\ pc[Watcher] = "scanning" /\ Abort

Starts ==
    \/ Lock("lockrx", "rx") \/ Lock("locktx", "tx")
    \/ LockFails("lockrx", "rx") \/ LockFails("locktx", "tx")
    \/ \E s \in {"read", "write"} : Shake(s) \/ ShakeFails(s)
    \/ StartRest \/ FirstBad \/ StartWorkers

Sends ==
    \/ \E g \in Producers : SenderTakes(g)
    \/ SenderReadsFile \/ SenderFileFails \/ SenderSeesDead
    \/ Write \/ WriteFails
    \/ SenderDone \/ SenderCloses

Receives ==
    \/ ReadSP \/ ReceiverSeesDead
    \/ Got \/ Timeout \/ Skewed \/ ReadFails
    \/ Processed \/ Refused
    \/ ReceiverSetsDead \/ ReceiverDone \/ ReceiverCloses

Queues ==
    \/ \E g \in Producers : Drain(g)
    \/ \E g \in Dones : CheckerLeaves(g)
    \/ DirEvent \/ Scanned \/ WatcherEnds

Ticks == Deadline \/ PeriodicEnds

Ends == Wait \/ PanicBadMagic \/ PanicMapRace \/ Collect

Next ==
    \/ Starts \/ Sends \/ Receives \/ Queues \/ Ticks \/ Ends
    \/ \E g \in Dones : CheckerDone(g)
    \/ \E k \in 1..MaxPings : PingTick(k)

(* Goroutines that can run do run, and a read or a write returns by its    *)
(* deadline.  The deadlines of the periodic goroutine pass at last: the    *)
(* peer sends finitely many messages.  Nothing is assumed of the peer, of  *)
(* directory events, of ticks that ping or of the checker.                 *)
Fairness ==
    /\ WF_vars(Starts) /\ WF_vars(Collect)
    /\ WF_vars(Deadline) /\ SF_vars(PeriodicEnds)
    /\ WF_vars(Scanned) /\ SF_vars(WatcherEnds)
    /\ WF_vars(Write \/ WriteFails) /\ SF_vars(SenderSeesDead)
    /\ WF_vars(SenderDone \/ SenderCloses)
    /\ WF_vars(ReadSP \/ ReceiverSeesDead)
    /\ WF_vars(Processed \/ Refused)
    /\ WF_vars(Got \/ Timeout \/ Skewed \/ ReadFails)
    /\ WF_vars(ReceiverSetsDead \/ ReceiverDone \/ ReceiverCloses)
    /\ \A g \in Producers : WF_vars(Drain(g))
    /\ \A g \in Dones : WF_vars(CheckerLeaves(g))
    /\ WF_vars(Wait) /\ WF_vars(PanicBadMagic)

Spec == Init /\ [][Next]_vars
FairSpec == Spec /\ Fairness

----------------------------------------------------------------------------
(* Properties. *)

TypeOK ==
    /\ want \in SUBSET {"rx", "tx"} /\ locks \in SUBSET want
    /\ phase \in Phases
    /\ pc \in [Goroutines -> Places]
    /\ todo \in [Producers -> 0..(MaxRest + MaxReplies + MaxInfos + 1)]
    /\ wg \in 0..Cardinality(Counted)
    /\ dead \in BOOLEAN /\ closed \in BOOLEAN /\ open \in BOOLEAN
    /\ taken \in 0..(2 * Msgs)
    /\ handled \in Seq(1..Msgs)

(* Wait closes the channels only when no goroutine of the session can send *)
(* on them any more, replies and pings spawned at the last moment          *)
(* included: a send on a closed channel ends the process.                  *)
NoSendOnClosed ==
    closed => \A g \in Counted : pc[g] \in {"off", "done", "setdead", "close"}

(* While a goroutine that reads or writes rx/ or tx/ of the node runs, the *)
(* session holds every lock it was to take, so no other process works in   *)
(* the same directories.                                                   *)
LockedWhileWorking ==
    \A g \in {Sender, Receiver, Watcher} : pc[g] \in Running => locks = want

(* The session's parts fit together: counters and channels have the values *)
(* they should (a negative wg ends the process), nothing is sent on closed *)
(* channels and nothing works in a directory whose lock it lacks.          *)
SessionOK == TypeOK /\ NoSendOnClosed /\ LockedWhileWorking

(* Whatever read deadlines pass, ProcessSP is given the peer's messages in *)
(* the order they were sent, none skipped, none put together of parts.     *)
InOrder == \A i \in 1..Len(handled) : handled[i] = i

(* A session that failed to start, lost its peer, was cut by a deadline,   *)
(* or was refused a message is over in the end, whichever goroutines were  *)
(* blocked on its channels then; its locks are free again and no goroutine *)
(* of it is left, save "rest" after a first payload that was refused, and  *)
(* a DONE of the checker for such a session.                               *)
CleanEnd ==
    /\ Over
    /\ locks = {}
    /\ \A g \in Goroutines :
          \/ pc[g] \in {"off", "done"}
          \/ phase.role = "failed" /\ g \in {Rest} \cup Dones
Finishes == <>[]CleanEnd
=============================================================================
