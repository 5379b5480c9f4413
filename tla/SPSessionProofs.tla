-------------------------- MODULE SPSessionProofs --------------------------
(***************************************************************************)
(* Proofs about SPSession, for any number of messages, replies, pings and  *)
(* directories to lock: the wait group counts the goroutines that may      *)
(* still send, so that Wait closes no channel somebody sends on; locks are *)
(* held while there is work; messages are handled in order.                *)
(***************************************************************************)
EXTENDS SPSession, FiniteSetTheorems, TLAPS

USE WantsAreDirs, BoundsAreNat

(* The parts of TypeOK *)

TypeSetup ==
    /\ want \in SUBSET {"rx", "tx"} /\ locks \in SUBSET want
    /\ phase \in Phases
TypePlaces == pc \in [Goroutines -> Places]
TypeTodo   == todo \in [Producers -> 0..(MaxRest + MaxReplies + MaxInfos + 1)]
TypeFlags  == dead \in BOOLEAN /\ closed \in BOOLEAN /\ open \in BOOLEAN
TypeStream == taken \in 0..(2 * Msgs) /\ handled \in Seq(1..Msgs)
TypeCount  == wg \in 0..Cardinality(Counted)

LEMMA TypeParts ==
    TypeOK <=> /\ TypeSetup /\ TypePlaces /\ TypeTodo
               /\ TypeFlags /\ TypeStream /\ TypeCount
  BY DEF TypeOK, TypeSetup, TypePlaces, TypeTodo, TypeFlags, TypeStream, TypeCount

(* Which goroutines there are *)

LEMMA Kinds ==
    /\ {Rest, Periodic, Watcher, Sender, Receiver} \subseteq Counted
    /\ \A m \in 0..Msgs : Replier(m) \in Counted \cap Producers
    /\ \A k \in 1..MaxPings : Pinger(k) \in Counted \cap Producers
    /\ {Rest, Watcher} \subseteq Producers
    /\ Counted \subseteq Goroutines /\ Producers \subseteq Goroutines
    /\ Dones \subseteq Producers
  BY DEF Counted, Goroutines, Producers, Repliers, Pingers

LEMMA Distinct ==
    /\ Rest # Periodic /\ Rest # Watcher /\ Rest # Sender /\ Rest # Receiver
    /\ Periodic # Watcher /\ Periodic # Sender /\ Periodic # Receiver
    /\ Watcher # Sender /\ Watcher # Receiver /\ Sender # Receiver
    /\ \A m : Replier(m) \notin {Rest, Periodic, Watcher, Sender, Receiver}
    /\ \A k : Pinger(k) \notin {Rest, Periodic, Watcher, Sender, Receiver}
    /\ \A k : Done(k) \notin {Rest, Periodic, Watcher, Sender, Receiver}
  BY DEF Rest, Periodic, Watcher, Sender, Receiver, Replier, Pinger, Done

LEMMA Numbered ==
    /\ \A m, n : Replier(m) = Replier(n) => m = n
    /\ \A k, l : Pinger(k) = Pinger(l) => k = l
    /\ \A m, k : Replier(m) # Pinger(k) /\ Replier(m) # Done(k) /\ Pinger(m) # Done(k)
  BY DEF Replier, Pinger, Done

LEMMA Apart ==
    /\ Periodic \notin Producers /\ Sender \notin Producers /\ Receiver \notin Producers
    /\ Dones \cap Counted = {}
    /\ {Rest, Periodic, Watcher, Sender, Receiver} \cap Dones = {}
<1>1. Periodic \notin Producers /\ Sender \notin Producers /\ Receiver \notin Producers
  BY DEF Producers, Repliers, Pingers, Dones, Periodic, Sender, Receiver, Rest,
         Watcher, Replier, Pinger, Done
<1>2. {Rest, Periodic, Watcher, Sender, Receiver} \cap Dones = {}
  BY DEF Dones, Periodic, Sender, Receiver, Rest, Watcher, Done
<1>3. Repliers \cap Dones = {} /\ Pingers \cap Dones = {}
  BY DEF Dones, Repliers, Pingers, Replier, Pinger, Done
<1> QED
  BY <1>1, <1>2, <1>3 DEF Counted

LEMMA FinitePair == ASSUME NEW a, NEW b PROVE IsFiniteSet({a, b})
<1> DEFINE one == {a}
           two == {b}
<1>1. IsFiniteSet(one) /\ IsFiniteSet(two)
  BY FS_Singleton
<1>2. {a, b} = one \cup two
  OBVIOUS
<1> HIDE DEF one, two
<1>3. IsFiniteSet(one \cup two)
  BY <1>1, FS_Union
<1> QED
  BY <1>2, <1>3

LEMMA CountedFinite == IsFiniteSet(Counted)
<1> DEFINE names == {"rest", "periodic", "watcher", "sender", "receiver", "reply", "ping"}
           numbers == 0..(Msgs + MaxPings)
           x == {"rest", "periodic"}
           y == {"watcher", "sender"}
           z == {"receiver", "reply"}
           t == {"ping", "ping"}
<1>1. IsFiniteSet(names)
  <2>1. IsFiniteSet(x) /\ IsFiniteSet(y) /\ IsFiniteSet(z) /\ IsFiniteSet(t)
    BY FinitePair
  <2>2. names = (x \cup y) \cup (z \cup t)
    OBVIOUS
  <2> HIDE DEF names, x, y, z, t
  <2>3. IsFiniteSet(x \cup y) /\ IsFiniteSet(z \cup t)
    BY <2>1, FS_Union
  <2> QED BY <2>2, <2>3, FS_Union
<1>2. IsFiniteSet(numbers)
  BY FS_Interval
<1>3. IsFiniteSet(names \X numbers)
  BY <1>1, <1>2, FS_Product
<1>4. Counted \subseteq names \X numbers
  BY DEF Counted, Repliers, Pingers, Rest, Periodic, Watcher, Sender, Receiver,
         Replier, Pinger
<1> QED
  BY <1>3, <1>4, FS_Subset
-----------------------------------------------------------------------------
(* Types, group by group *)

LEMMA ScriptSteps ==
    ASSUME TypeSetup
    PROVE  /\ Starting => phase.role \in {"I", "R"} /\ phase.step \in 1..6
           /\ Doing("lockrx") => phase.step = IF phase.role = "I" THEN 1 ELSE 2
           /\ Doing("locktx") => phase.step = IF phase.role = "I" THEN 2 ELSE 3
           /\ Doing("write") => phase.step = IF phase.role = "I" THEN 3 ELSE 4
           /\ Doing("read") => phase.step = IF phase.role = "I" THEN 4 ELSE 1
           /\ Doing("rest") => phase.step = 5
           /\ Doing("first") => phase.step = 6
           /\ \A s : Doing(s) => Starting
<1>1. Starting => phase.role \in {"I", "R"} /\ phase.step \in 1..6
  BY DEF TypeSetup, Phases, Starting
<1>2. ASSUME NEW s, Doing(s)
      PROVE  /\ phase.role = "I" =>
                  \/ phase.step = 1 /\ s = "lockrx"
                  \/ phase.step = 2 /\ s = "locktx"
                  \/ phase.step = 3 /\ s = "write"
                  \/ phase.step = 4 /\ s = "read"
                  \/ phase.step = 5 /\ s = "rest"
                  \/ phase.step = 6 /\ s = "first"
             /\ phase.role = "R" =>
                  \/ phase.step = 1 /\ s = "read"
                  \/ phase.step = 2 /\ s = "lockrx"
                  \/ phase.step = 3 /\ s = "locktx"
                  \/ phase.step = 4 /\ s = "write"
                  \/ phase.step = 5 /\ s = "rest"
                  \/ phase.step = 6 /\ s = "first"
             /\ Starting
  BY <1>1, <1>2 DEF Doing, Script
<1> QED
  BY <1>1, <1>2

LEMMA SetupStep ==
    ASSUME TypeSetup, [Next]_vars
    PROVE  TypeSetup'
<1>1. CASE Starts
  BY <1>1, ScriptSteps DEF Starts, Lock, NextStep, LockFails, Now, Shake,
     ShakeFails, StartRest, FirstBad, StartWorkers, conn, setup, TypeSetup,
     Phases
<1>2. CASE Sends
  BY <1>2, ScriptSteps DEF Sends, SenderTakes, HandOver, Sending,
     SenderReadsFile, SenderFileFails, SenderSeesDead, Write, WriteFails,
     SenderDone, SenderCloses, SetDead, conn, setup, TypeSetup, Phases
<1>3. CASE Receives
  BY <1>3, ScriptSteps DEF Receives, ReadSP, ReceiverSeesDead, Got, Timeout,
     Skewed, ReadFails, Processed, Refused, ReceiverSetsDead, SetDead,
     ReceiverDone, ReceiverCloses, conn, setup, TypeSetup, Phases
<1>4. CASE Queues
  BY <1>4, ScriptSteps DEF Queues, Drain, HandOver, Sending, CheckerLeaves,
     DirEvent, Scanned, WatcherEnds, conn, setup, TypeSetup, Phases
<1>5. CASE Ticks
  BY <1>5, ScriptSteps DEF Ticks, Deadline, SetDead, PeriodicEnds, conn,
     setup, TypeSetup, Phases
<1>6. CASE Wait
  BY <1>6, ScriptSteps DEF Wait, Now, conn, setup, TypeSetup, Phases
<1>7. CASE PanicBadMagic
  BY <1>7, ScriptSteps DEF PanicBadMagic, Abort, Now, conn, setup,
     TypeSetup, Phases
<1>8. CASE PanicMapRace
  BY <1>8, ScriptSteps DEF PanicMapRace, Abort, Now, conn, setup, TypeSetup,
     Phases
<1>9. CASE Collect
  BY <1>9, ScriptSteps DEF Collect, conn, setup, TypeSetup, Phases
<1>10. ASSUME NEW g \in Dones, CheckerDone(g) PROVE TypeSetup'
  BY <1>10, ScriptSteps DEF CheckerDone, Starting, conn, setup, TypeSetup,
     Phases
<1>11. ASSUME NEW k \in 1..MaxPings, PingTick(k) PROVE TypeSetup'
  BY <1>11, ScriptSteps DEF PingTick, conn, setup, TypeSetup, Phases
<1>12. CASE UNCHANGED vars
  BY <1>12, ScriptSteps DEF vars, conn, setup, TypeSetup, Phases
<1> QED
  BY <1>1, <1>2, <1>3, <1>4, <1>5, <1>6, <1>7, <1>8, <1>9, <1>10, <1>11,
     <1>12 DEF Next, Ends

LEMMA PlacesStep ==
    ASSUME TypePlaces, [Next]_vars
    PROVE  TypePlaces'
<1>1. CASE Starts
  BY <1>1, Kinds DEF Starts, Lock, NextStep, LockFails, Now, Shake,
     ShakeFails, StartRest, FirstBad, StartWorkers, conn, setup, TypePlaces,
     Places, Running
<1>2. CASE Sends
  BY <1>2, Kinds DEF Sends, SenderTakes, HandOver, Sending, SenderReadsFile,
     SenderFileFails, SenderSeesDead, Write, WriteFails, SenderDone,
     SenderCloses, SetDead, conn, setup, TypePlaces, Places, Running
<1>3. CASE Receives
  BY <1>3, Kinds DEF Receives, ReadSP, ReceiverSeesDead, Got, Timeout,
     Skewed, ReadFails, Processed, Refused, ReceiverSetsDead, SetDead,
     ReceiverDone, ReceiverCloses, conn, setup, TypePlaces, Places, Running
<1>4. CASE Queues
  BY <1>4, Kinds DEF Queues, Drain, HandOver, Sending, CheckerLeaves,
     DirEvent, Scanned, WatcherEnds, conn, setup, TypePlaces, Places,
     Running
<1>5. CASE Ticks
  BY <1>5, Kinds DEF Ticks, Deadline, SetDead, PeriodicEnds, conn, setup,
     TypePlaces, Places, Running
<1>6. CASE Ends
  BY <1>6, Kinds DEF Ends, Wait, Now, PanicBadMagic, Abort, PanicMapRace,
     Collect, conn, setup, TypePlaces, Places, Running
<1>7. ASSUME NEW g \in Dones, CheckerDone(g) PROVE TypePlaces'
  BY <1>7, Kinds DEF CheckerDone, Starting, conn, setup, TypePlaces, Places,
     Running
<1>8. ASSUME NEW k \in 1..MaxPings, PingTick(k) PROVE TypePlaces'
  BY <1>8, Kinds DEF PingTick, conn, setup, TypePlaces, Places, Running
<1>9. CASE UNCHANGED vars
  BY <1>9, Kinds DEF vars, conn, setup, TypePlaces, Places, Running
<1> QED
  BY <1>1, <1>2, <1>3, <1>4, <1>5, <1>6, <1>7, <1>8, <1>9 DEF Next

LEMMA TodoStep ==
    ASSUME TypeTodo, [Next]_vars
    PROVE  TypeTodo'
<1>1. CASE Starts
  BY <1>1, Kinds DEF Starts, Lock, NextStep, LockFails, Now, Shake,
     ShakeFails, StartRest, FirstBad, StartWorkers, conn, setup, TypeTodo
<1>2. CASE Sends
  BY <1>2, Kinds DEF Sends, SenderTakes, HandOver, Sending, SenderReadsFile,
     SenderFileFails, SenderSeesDead, Write, WriteFails, SenderDone,
     SenderCloses, SetDead, conn, setup, TypeTodo
<1>3. CASE ReadSP
  BY <1>3, Kinds DEF ReadSP, conn, setup, TypeTodo
<1>4. CASE ReceiverSeesDead
  BY <1>4, Kinds DEF ReceiverSeesDead, conn, setup, TypeTodo
<1>5. CASE Got
  BY <1>5, Kinds DEF Got, conn, setup, TypeTodo
<1>6. CASE Timeout
  BY <1>6, Kinds DEF Timeout, conn, setup, TypeTodo
<1>7. CASE Skewed
  BY <1>7, Kinds DEF Skewed, conn, setup, TypeTodo
<1>8. CASE ReadFails
  BY <1>8, Kinds DEF ReadFails, conn, setup, TypeTodo
<1>9. CASE Processed
  <2>1. PICK n \in 0..MaxReplies : todo' = [todo EXCEPT ![Replier(Len(handled))] = n]
    BY <1>9 DEF Processed
  <2>2. n \in 0..(MaxRest + MaxReplies + MaxInfos + 1)
    OBVIOUS
  <2> QED BY <2>1, <2>2 DEF TypeTodo
<1>10. CASE Refused
  BY <1>10, Kinds DEF Refused, conn, setup, TypeTodo
<1>11. CASE ReceiverSetsDead
  BY <1>11, Kinds DEF ReceiverSetsDead, SetDead, conn, setup, TypeTodo
<1>12. CASE ReceiverDone
  BY <1>12, Kinds DEF ReceiverDone, conn, setup, TypeTodo
<1>13. CASE ReceiverCloses
  BY <1>13, Kinds DEF ReceiverCloses, SetDead, conn, setup, TypeTodo
<1>14. CASE Queues
  BY <1>14, Kinds DEF Queues, Drain, HandOver, Sending, CheckerLeaves,
     DirEvent, Scanned, WatcherEnds, conn, setup, TypeTodo
<1>15. CASE Ticks
  BY <1>15, Kinds DEF Ticks, Deadline, SetDead, PeriodicEnds, conn, setup,
     TypeTodo
<1>16. CASE Ends
  BY <1>16, Kinds DEF Ends, Wait, Now, PanicBadMagic, Abort, PanicMapRace,
     Collect, conn, setup, TypeTodo
<1>17. ASSUME NEW g \in Dones, CheckerDone(g) PROVE TypeTodo'
  BY <1>17, Kinds DEF CheckerDone, Starting, conn, setup, TypeTodo
<1>18. ASSUME NEW k \in 1..MaxPings, PingTick(k) PROVE TypeTodo'
  BY <1>18, Kinds DEF PingTick, conn, setup, TypeTodo
<1>19. CASE UNCHANGED vars
  BY <1>19, Kinds DEF vars, conn, setup, TypeTodo
<1> QED
  BY <1>1, <1>2, <1>3, <1>4, <1>5, <1>6, <1>7, <1>8, <1>9, <1>10, <1>11,
     <1>12, <1>13, <1>14, <1>15, <1>16, <1>17, <1>18, <1>19 DEF Next,
     Receives

LEMMA FlagsStep ==
    ASSUME TypeFlags, [Next]_vars
    PROVE  TypeFlags'
<1>1. CASE Starts
  BY <1>1 DEF Starts, Lock, NextStep, LockFails, Now, Shake, ShakeFails,
     StartRest, FirstBad, StartWorkers, conn, setup, TypeFlags
<1>2. CASE Sends
  BY <1>2 DEF Sends, SenderTakes, HandOver, Sending, SenderReadsFile,
     SenderFileFails, SenderSeesDead, Write, WriteFails, SenderDone,
     SenderCloses, SetDead, conn, setup, TypeFlags
<1>3. CASE Receives
  BY <1>3 DEF Receives, ReadSP, ReceiverSeesDead, Got, Timeout, Skewed,
     ReadFails, Processed, Refused, ReceiverSetsDead, SetDead, ReceiverDone,
     ReceiverCloses, conn, setup, TypeFlags
<1>4. CASE Queues
  BY <1>4 DEF Queues, Drain, HandOver, Sending, CheckerLeaves, DirEvent,
     Scanned, WatcherEnds, conn, setup, TypeFlags
<1>5. CASE Ticks
  BY <1>5 DEF Ticks, Deadline, SetDead, PeriodicEnds, conn, setup, TypeFlags
<1>6. CASE Ends
  BY <1>6 DEF Ends, Wait, Now, PanicBadMagic, Abort, PanicMapRace, Collect,
     conn, setup, TypeFlags
<1>7. ASSUME NEW g \in Dones, CheckerDone(g) PROVE TypeFlags'
  BY <1>7 DEF CheckerDone, Starting, conn, setup, TypeFlags
<1>8. ASSUME NEW k \in 1..MaxPings, PingTick(k) PROVE TypeFlags'
  BY <1>8 DEF PingTick, conn, setup, TypeFlags
<1>9. CASE UNCHANGED vars
  BY <1>9 DEF vars, conn, setup, TypeFlags
<1> QED
  BY <1>1, <1>2, <1>3, <1>4, <1>5, <1>6, <1>7, <1>8, <1>9 DEF Next

LEMMA StreamStep ==
    ASSUME TypeStream, [Next]_vars
    PROVE  TypeStream'
<1>1. CASE Starts
  BY <1>1 DEF Starts, Lock, NextStep, LockFails, Now, Shake, ShakeFails,
     StartRest, FirstBad, StartWorkers, conn, setup, TypeStream, Aligned,
     Left
<1>2. CASE Sends
  BY <1>2 DEF Sends, SenderTakes, HandOver, Sending, SenderReadsFile,
     SenderFileFails, SenderSeesDead, Write, WriteFails, SenderDone,
     SenderCloses, SetDead, conn, setup, TypeStream, Aligned, Left
<1>3. CASE ReadSP
  BY <1>3 DEF ReadSP, conn, setup, TypeStream, Aligned, Left
<1>4. CASE ReceiverSeesDead
  BY <1>4 DEF ReceiverSeesDead, conn, setup, TypeStream, Aligned, Left
<1>5. CASE Got
  <2>1. taken \in Nat /\ taken % 2 = 0 /\ 2 * Msgs - taken > 0 /\ Msgs \in Nat
    BY <1>5 DEF Got, Aligned, Left, TypeStream
  <2>2. taken \div 2 + 1 \in 1..Msgs /\ taken + 2 \in 0..(2 * Msgs)
    BY <2>1
  <2>3. handled' = Append(handled, taken \div 2 + 1) /\ taken' = taken + 2
    BY <1>5 DEF Got
  <2> QED BY <2>2, <2>3 DEF TypeStream
<1>6. CASE Timeout
  BY <1>6 DEF Timeout, conn, setup, TypeStream, Aligned, Left
<1>7. CASE Skewed
  BY <1>7 DEF Skewed, conn, setup, TypeStream, Aligned, Left
<1>8. CASE ReadFails
  BY <1>8 DEF ReadFails, conn, setup, TypeStream, Aligned, Left
<1>9. CASE Processed
  BY <1>9 DEF Processed, conn, setup, TypeStream, Aligned, Left
<1>10. CASE Refused
  BY <1>10 DEF Refused, conn, setup, TypeStream, Aligned, Left
<1>11. CASE ReceiverSetsDead
  BY <1>11 DEF ReceiverSetsDead, SetDead, conn, setup, TypeStream, Aligned,
     Left
<1>12. CASE ReceiverDone
  BY <1>12 DEF ReceiverDone, conn, setup, TypeStream, Aligned, Left
<1>13. CASE ReceiverCloses
  BY <1>13 DEF ReceiverCloses, SetDead, conn, setup, TypeStream, Aligned,
     Left
<1>14. CASE Queues
  BY <1>14 DEF Queues, Drain, HandOver, Sending, CheckerLeaves, DirEvent,
     Scanned, WatcherEnds, conn, setup, TypeStream, Aligned, Left
<1>15. CASE Ticks
  BY <1>15 DEF Ticks, Deadline, SetDead, PeriodicEnds, conn, setup,
     TypeStream, Aligned, Left
<1>16. CASE Ends
  BY <1>16 DEF Ends, Wait, Now, PanicBadMagic, Abort, PanicMapRace, Collect,
     conn, setup, TypeStream, Aligned, Left
<1>17. ASSUME NEW g \in Dones, CheckerDone(g) PROVE TypeStream'
  BY <1>17 DEF CheckerDone, Starting, conn, setup, TypeStream, Aligned, Left
<1>18. ASSUME NEW k \in 1..MaxPings, PingTick(k) PROVE TypeStream'
  BY <1>18 DEF PingTick, conn, setup, TypeStream, Aligned, Left
<1>19. CASE UNCHANGED vars
  BY <1>19 DEF vars, conn, setup, TypeStream, Aligned, Left
<1> QED
  BY <1>1, <1>2, <1>3, <1>4, <1>5, <1>6, <1>7, <1>8, <1>9, <1>10, <1>11,
     <1>12, <1>13, <1>14, <1>15, <1>16, <1>17, <1>18, <1>19 DEF Next,
     Receives

-----------------------------------------------------------------------------
(* What runs in which phase, and which locks are held *)

\* Until the workers are started only "rest" may run, after a failure too.
Before ==
    Starting => \A g \in Goroutines : g # Rest \/ phase.step < 6 => pc[g] = "off"
Failed ==
    phase.role = "failed" => \A g \in Counted : g # Rest => pc[g] = "off"

\* Nobody is left that counts after Wait, nobody at all in a dead process.
Quiet == {"off", "done", "close"}
Ended == phase.role = "ended" => \A g \in Counted : pc[g] \in Quiet
Gone  == phase.role = "aborted" => \A g \in Goroutines : pc[g] = "done"

ClosedLate == closed => phase.role \in {"ended", "aborted"}

\* The locks are taken one after the other, and kept while the session waits.
Locked ==
    /\ phase.role = "waiting" => locks = want
    /\ Starting =>
         /\ phase.step > (IF phase.role = "I" THEN 1 ELSE 2) /\ "rx" \in want => "rx" \in locks
         /\ phase.step > (IF phase.role = "I" THEN 2 ELSE 3) /\ "tx" \in want => "tx" \in locks

\* wg counts the goroutines at work.
Working  == Running \cup {"setdead"}
Members  == {g \in Counted : pc[g] \in Working}
Counting == phase.role # "aborted" => wg = Cardinality(Members)

LEMMA BeforeStep ==
    ASSUME TypeSetup, TypePlaces, Before, [Next]_vars
    PROVE  Before'
<1>1. CASE Starts
  BY <1>1, Kinds, Distinct, ScriptSteps, Apart DEF Starts, Lock, NextStep,
     Starting, LockFails, Now, Shake, ShakeFails, StartRest, FirstBad,
     StartWorkers, conn, setup, Before, TypePlaces, Phases, TypeSetup
<1>2. CASE Sends
  BY <1>2, Kinds, Distinct, ScriptSteps, Apart DEF Sends, SenderTakes,
     HandOver, Sending, Starting, SenderReadsFile, SenderFileFails,
     SenderSeesDead, Write, WriteFails, SenderDone, SenderCloses, SetDead,
     conn, setup, Before, TypePlaces, Phases, TypeSetup
<1>3. CASE Receives
  BY <1>3, Kinds, Distinct, ScriptSteps, Apart DEF Receives, ReadSP,
     Starting, ReceiverSeesDead, Got, Timeout, Skewed, ReadFails, Processed,
     Refused, ReceiverSetsDead, SetDead, ReceiverDone, ReceiverCloses, conn,
     setup, Before, TypePlaces, Phases, TypeSetup
<1>4. CASE Queues
  BY <1>4, Kinds, Distinct, ScriptSteps, Apart DEF Queues, Drain, HandOver,
     Sending, Starting, CheckerLeaves, DirEvent, Scanned, WatcherEnds, conn,
     setup, Before, TypePlaces, Phases, TypeSetup
<1>5. CASE Ticks
  BY <1>5, Kinds, Distinct, ScriptSteps, Apart DEF Ticks, Deadline, SetDead,
     Starting, PeriodicEnds, conn, setup, Before, TypePlaces, Phases,
     TypeSetup
<1>6. CASE Ends
  BY <1>6, Kinds, Distinct, ScriptSteps, Apart DEF Ends, Wait, Now,
     Starting, PanicBadMagic, Abort, PanicMapRace, Collect, conn, setup,
     Before, TypePlaces, Phases, TypeSetup
<1>7. ASSUME NEW g \in Dones, CheckerDone(g) PROVE Before'
  BY <1>7, Kinds, Distinct, ScriptSteps, Apart DEF CheckerDone, Starting,
     conn, setup, Before, TypePlaces, Phases, TypeSetup
<1>8. ASSUME NEW k \in 1..MaxPings, PingTick(k) PROVE Before'
  BY <1>8, Kinds, Distinct, ScriptSteps, Apart DEF PingTick, Starting, conn,
     setup, Before, TypePlaces, Phases, TypeSetup
<1>9. CASE UNCHANGED vars
  BY <1>9, Kinds, Distinct, ScriptSteps, Apart DEF vars, Starting, conn,
     setup, Before, TypePlaces, Phases, TypeSetup
<1> QED
  BY <1>1, <1>2, <1>3, <1>4, <1>5, <1>6, <1>7, <1>8, <1>9 DEF Next

LEMMA FailedStep ==
    ASSUME TypeSetup, TypePlaces, Before, Failed, [Next]_vars
    PROVE  Failed'
<1>1. CASE Starts
  BY <1>1, Kinds, Distinct, ScriptSteps, Apart DEF Starts, Lock, NextStep,
     Starting, LockFails, Now, Shake, ShakeFails, StartRest, FirstBad,
     StartWorkers, conn, setup, Before, Failed, TypePlaces, Phases,
     TypeSetup
<1>2. CASE Sends
  BY <1>2, Kinds, Distinct, ScriptSteps, Apart DEF Sends, SenderTakes,
     HandOver, Sending, Starting, SenderReadsFile, SenderFileFails,
     SenderSeesDead, Write, WriteFails, SenderDone, SenderCloses, SetDead,
     conn, setup, Before, Failed, TypePlaces, Phases, TypeSetup
<1>3. CASE Receives
  BY <1>3, Kinds, Distinct, ScriptSteps, Apart DEF Receives, ReadSP,
     Starting, ReceiverSeesDead, Got, Timeout, Skewed, ReadFails, Processed,
     Refused, ReceiverSetsDead, SetDead, ReceiverDone, ReceiverCloses, conn,
     setup, Before, Failed, TypePlaces, Phases, TypeSetup
<1>4. CASE Queues
  BY <1>4, Kinds, Distinct, ScriptSteps, Apart DEF Queues, Drain, HandOver,
     Sending, Starting, CheckerLeaves, DirEvent, Scanned, WatcherEnds, conn,
     setup, Before, Failed, TypePlaces, Phases, TypeSetup
<1>5. CASE Ticks
  BY <1>5, Kinds, Distinct, ScriptSteps, Apart DEF Ticks, Deadline, SetDead,
     Starting, PeriodicEnds, conn, setup, Before, Failed, TypePlaces,
     Phases, TypeSetup
<1>6. CASE Ends
  BY <1>6, Kinds, Distinct, ScriptSteps, Apart DEF Ends, Wait, Now,
     Starting, PanicBadMagic, Abort, PanicMapRace, Collect, conn, setup,
     Before, Failed, TypePlaces, Phases, TypeSetup
<1>7. ASSUME NEW g \in Dones, CheckerDone(g) PROVE Failed'
  BY <1>7, Kinds, Distinct, ScriptSteps, Apart DEF CheckerDone, Starting,
     conn, setup, Before, Failed, TypePlaces, Phases, TypeSetup
<1>8. ASSUME NEW k \in 1..MaxPings, PingTick(k) PROVE Failed'
  BY <1>8, Kinds, Distinct, ScriptSteps, Apart DEF PingTick, Starting, conn,
     setup, Before, Failed, TypePlaces, Phases, TypeSetup
<1>9. CASE UNCHANGED vars
  BY <1>9, Kinds, Distinct, ScriptSteps, Apart DEF vars, Starting, conn,
     setup, Before, Failed, TypePlaces, Phases, TypeSetup
<1> QED
  BY <1>1, <1>2, <1>3, <1>4, <1>5, <1>6, <1>7, <1>8, <1>9 DEF Next

LEMMA GoneStep ==
    ASSUME TypeSetup, TypePlaces, Gone, [Next]_vars
    PROVE  Gone'
<1>1. CASE Starts
  BY <1>1, Kinds, Distinct, ScriptSteps, Apart DEF Starts, Lock, NextStep,
     Starting, LockFails, Now, Shake, ShakeFails, StartRest, FirstBad,
     StartWorkers, conn, setup, Gone, TypePlaces, Phases, TypeSetup
<1>2. CASE Sends
  BY <1>2, Kinds, Distinct, ScriptSteps, Apart DEF Sends, SenderTakes,
     HandOver, Sending, Starting, SenderReadsFile, SenderFileFails,
     SenderSeesDead, Write, WriteFails, SenderDone, SenderCloses, SetDead,
     conn, setup, Gone, TypePlaces, Phases, TypeSetup
<1>3. CASE Receives
  BY <1>3, Kinds, Distinct, ScriptSteps, Apart DEF Receives, ReadSP,
     Starting, ReceiverSeesDead, Got, Timeout, Skewed, ReadFails, Processed,
     Refused, ReceiverSetsDead, SetDead, ReceiverDone, ReceiverCloses, conn,
     setup, Gone, TypePlaces, Phases, TypeSetup
<1>4. CASE Queues
  BY <1>4, Kinds, Distinct, ScriptSteps, Apart DEF Queues, Drain, HandOver,
     Sending, Starting, CheckerLeaves, DirEvent, Scanned, WatcherEnds, conn,
     setup, Gone, TypePlaces, Phases, TypeSetup
<1>5. CASE Ticks
  BY <1>5, Kinds, Distinct, ScriptSteps, Apart DEF Ticks, Deadline, SetDead,
     Starting, PeriodicEnds, conn, setup, Gone, TypePlaces, Phases,
     TypeSetup
<1>6. CASE Ends
  BY <1>6, Kinds, Distinct, ScriptSteps, Apart DEF Ends, Wait, Now,
     Starting, PanicBadMagic, Abort, PanicMapRace, Collect, conn, setup,
     Gone, TypePlaces, Phases, TypeSetup
<1>7. ASSUME NEW g \in Dones, CheckerDone(g) PROVE Gone'
  BY <1>7, Kinds, Distinct, ScriptSteps, Apart DEF CheckerDone, Starting,
     conn, setup, Gone, TypePlaces, Phases, TypeSetup
<1>8. ASSUME NEW k \in 1..MaxPings, PingTick(k) PROVE Gone'
  BY <1>8, Kinds, Distinct, ScriptSteps, Apart DEF PingTick, Starting, conn,
     setup, Gone, TypePlaces, Phases, TypeSetup
<1>9. CASE UNCHANGED vars
  BY <1>9, Kinds, Distinct, ScriptSteps, Apart DEF vars, Starting, conn,
     setup, Gone, TypePlaces, Phases, TypeSetup
<1> QED
  BY <1>1, <1>2, <1>3, <1>4, <1>5, <1>6, <1>7, <1>8, <1>9 DEF Next

LEMMA ClosedLateStep ==
    ASSUME TypeSetup, ClosedLate, [Next]_vars
    PROVE  ClosedLate'
<1>1. CASE Starts
  BY <1>1, ScriptSteps DEF Starts, Lock, NextStep, Starting, LockFails, Now,
     Shake, ShakeFails, StartRest, FirstBad, StartWorkers, conn, setup,
     ClosedLate, Phases, TypeSetup
<1>2. CASE Sends
  BY <1>2, ScriptSteps DEF Sends, SenderTakes, HandOver, Sending, Starting,
     SenderReadsFile, SenderFileFails, SenderSeesDead, Write, WriteFails,
     SenderDone, SenderCloses, SetDead, conn, setup, ClosedLate, Phases,
     TypeSetup
<1>3. CASE Receives
  BY <1>3, ScriptSteps DEF Receives, ReadSP, Starting, ReceiverSeesDead,
     Got, Timeout, Skewed, ReadFails, Processed, Refused, ReceiverSetsDead,
     SetDead, ReceiverDone, ReceiverCloses, conn, setup, ClosedLate, Phases,
     TypeSetup
<1>4. CASE Queues
  BY <1>4, ScriptSteps DEF Queues, Drain, HandOver, Sending, Starting,
     CheckerLeaves, DirEvent, Scanned, WatcherEnds, conn, setup, ClosedLate,
     Phases, TypeSetup
<1>5. CASE Ticks
  BY <1>5, ScriptSteps DEF Ticks, Deadline, SetDead, Starting, PeriodicEnds,
     conn, setup, ClosedLate, Phases, TypeSetup
<1>6. CASE Wait
  BY <1>6, ScriptSteps DEF Wait, Now, Starting, conn, setup, ClosedLate,
     Phases, TypeSetup
<1>7. CASE PanicBadMagic
  BY <1>7, ScriptSteps DEF PanicBadMagic, Abort, Now, Starting, conn, setup,
     ClosedLate, Phases, TypeSetup
<1>8. CASE PanicMapRace
  BY <1>8, ScriptSteps DEF PanicMapRace, Abort, Now, Starting, conn, setup,
     ClosedLate, Phases, TypeSetup
<1>9. CASE Collect
  BY <1>9, ScriptSteps DEF Collect, Starting, conn, setup, ClosedLate,
     Phases, TypeSetup
<1>10. ASSUME NEW g \in Dones, CheckerDone(g) PROVE ClosedLate'
  BY <1>10, ScriptSteps DEF CheckerDone, Starting, conn, setup, ClosedLate,
     Phases, TypeSetup
<1>11. ASSUME NEW k \in 1..MaxPings, PingTick(k) PROVE ClosedLate'
  BY <1>11, ScriptSteps DEF PingTick, Starting, conn, setup, ClosedLate,
     Phases, TypeSetup
<1>12. CASE UNCHANGED vars
  BY <1>12, ScriptSteps DEF vars, Starting, conn, setup, ClosedLate, Phases,
     TypeSetup
<1> QED
  BY <1>1, <1>2, <1>3, <1>4, <1>5, <1>6, <1>7, <1>8, <1>9, <1>10, <1>11,
     <1>12 DEF Next, Ends

LEMMA LockedStep ==
    ASSUME TypeSetup, Locked, [Next]_vars
    PROVE  Locked'
<1>1. CASE Lock("lockrx", "rx")
  BY <1>1, ScriptSteps DEF Lock, NextStep, Starting, conn, setup, Locked,
     Phases, TypeSetup
<1>2. CASE Lock("locktx", "tx")
  BY <1>2, ScriptSteps DEF Lock, NextStep, Starting, conn, setup, Locked,
     Phases, TypeSetup
<1>3. CASE LockFails("lockrx", "rx")
  BY <1>3, ScriptSteps DEF LockFails, Now, Starting, conn, setup, Locked,
     Phases, TypeSetup
<1>4. CASE LockFails("locktx", "tx")
  BY <1>4, ScriptSteps DEF LockFails, Now, Starting, conn, setup, Locked,
     Phases, TypeSetup
<1>5. ASSUME NEW s \in {"read", "write"}, Shake(s) PROVE Locked'
  BY <1>5, ScriptSteps DEF Shake, NextStep, Starting, conn, setup, Locked,
     Phases, TypeSetup
<1>6. ASSUME NEW s \in {"read", "write"}, ShakeFails(s) PROVE Locked'
  BY <1>6, ScriptSteps DEF ShakeFails, Now, Starting, conn, setup, Locked,
     Phases, TypeSetup
<1>7. CASE StartRest
  BY <1>7, ScriptSteps DEF StartRest, NextStep, Starting, conn, setup,
     Locked, Phases, TypeSetup
<1>8. CASE FirstBad
  BY <1>8, ScriptSteps DEF FirstBad, Now, Starting, conn, setup, Locked,
     Phases, TypeSetup
<1>9. CASE StartWorkers
  <2>1. phase.step = 6 /\ phase.role \in {"I", "R"} /\ Starting
    BY <1>9, ScriptSteps DEF StartWorkers, Doing
  <2>2. \A d \in want : d \in {"rx", "tx"} /\ d \in locks
    BY <2>1 DEF Locked, TypeSetup
  <2>3. want = locks
    BY <2>2 DEF TypeSetup
  <2> QED BY <1>9, <2>3 DEF StartWorkers, Now, setup, Locked, Starting
<1>10. CASE Sends
  BY <1>10, ScriptSteps DEF Sends, SenderTakes, HandOver, Sending, Starting,
     SenderReadsFile, SenderFileFails, SenderSeesDead, Write, WriteFails,
     SenderDone, SenderCloses, SetDead, conn, setup, Locked, Phases,
     TypeSetup
<1>11. CASE Receives
  BY <1>11, ScriptSteps DEF Receives, ReadSP, Starting, ReceiverSeesDead,
     Got, Timeout, Skewed, ReadFails, Processed, Refused, ReceiverSetsDead,
     SetDead, ReceiverDone, ReceiverCloses, conn, setup, Locked, Phases,
     TypeSetup
<1>12. CASE Queues
  BY <1>12, ScriptSteps DEF Queues, Drain, HandOver, Sending, Starting,
     CheckerLeaves, DirEvent, Scanned, WatcherEnds, conn, setup, Locked,
     Phases, TypeSetup
<1>13. CASE Ticks
  BY <1>13, ScriptSteps DEF Ticks, Deadline, SetDead, Starting,
     PeriodicEnds, conn, setup, Locked, Phases, TypeSetup
<1>14. CASE Ends
  BY <1>14, ScriptSteps DEF Ends, Wait, Now, Starting, PanicBadMagic, Abort,
     PanicMapRace, Collect, conn, setup, Locked, Phases, TypeSetup
<1>15. ASSUME NEW g \in Dones, CheckerDone(g) PROVE Locked'
  BY <1>15, ScriptSteps DEF CheckerDone, Starting, conn, setup, Locked,
     Phases, TypeSetup
<1>16. ASSUME NEW k \in 1..MaxPings, PingTick(k) PROVE Locked'
  BY <1>16, ScriptSteps DEF PingTick, Starting, conn, setup, Locked, Phases,
     TypeSetup
<1>17. CASE UNCHANGED vars
  BY <1>17, ScriptSteps DEF vars, Starting, conn, setup, Locked, Phases,
     TypeSetup
<1> QED
  BY <1>1, <1>2, <1>3, <1>4, <1>5, <1>6, <1>7, <1>8, <1>9, <1>10, <1>11,
     <1>12, <1>13, <1>14, <1>15, <1>16, <1>17 DEF Next, Starts

-----------------------------------------------------------------------------
(* The stream is cut into messages *)

\* Until the receiver fails, it is at most half a message further than
\* ProcessSP was given.
Reading ==
    pc[Receiver] \in {"off", "top", "reading", "processing"}
        => taken \in {2 * Len(handled), 2 * Len(handled) + 1}

LEMMA ReadingStep ==
    ASSUME TypeSetup, TypePlaces, TypeStream, Before, Reading, [Next]_vars
    PROVE  Reading'
<1>1. CASE Starts
  BY <1>1, Kinds, Distinct, ScriptSteps, Apart DEF Starts, Lock, NextStep,
     Starting, LockFails, Now, Shake, ShakeFails, StartRest, FirstBad,
     StartWorkers, conn, setup, Reading, Before, TypePlaces
<1>2. CASE Sends
  BY <1>2, Kinds, Distinct, ScriptSteps, Apart DEF Sends, SenderTakes,
     HandOver, Sending, Starting, SenderReadsFile, SenderFileFails,
     SenderSeesDead, Write, WriteFails, SenderDone, SenderCloses, SetDead,
     conn, setup, Reading, Before, TypePlaces
<1>3. CASE ReadSP
  BY <1>3, Kinds, Distinct, ScriptSteps, Apart DEF ReadSP, Starting, conn,
     setup, Reading, Before, TypePlaces
<1>4. CASE ReceiverSeesDead
  BY <1>4, Kinds, Distinct, ScriptSteps, Apart DEF ReceiverSeesDead,
     Starting, conn, setup, Reading, Before, TypePlaces
<1>5. CASE Got
  <2>1. pc[Receiver] = "reading" /\ taken % 2 = 0
    BY <1>5 DEF Got, Aligned
  <2>2. Len(handled) \in Nat
    BY DEF TypeStream
  <2>3. taken = 2 * Len(handled)
    BY <2>1, <2>2 DEF Reading
  <2>4. taken' = taken + 2 /\ Len(handled') = Len(handled) + 1
    BY <1>5 DEF Got, TypeStream
  <2> QED BY <2>2, <2>3, <2>4 DEF Reading
<1>6. CASE Timeout
  <2>1. pc[Receiver] = "reading" /\ handled' = handled
    BY <1>6 DEF Timeout
  <2>2. taken' = taken \/ (taken % 2 = 0 /\ taken' = taken + 1)
    BY <1>6 DEF Timeout, Aligned
  <2>3. Len(handled) \in Nat
    BY DEF TypeStream
  <2>4. taken \in {2 * Len(handled), 2 * Len(handled) + 1}
    BY <2>1 DEF Reading
  <2>5. taken' \in {2 * Len(handled), 2 * Len(handled) + 1}
    BY <2>2, <2>3, <2>4
  <2> QED BY <2>1, <2>5 DEF Reading
<1>7. CASE Skewed
  BY <1>7, Kinds, Distinct, ScriptSteps, Apart DEF Skewed, Starting, conn,
     setup, Reading, Before, TypePlaces
<1>8. CASE ReadFails
  BY <1>8, Kinds, Distinct, ScriptSteps, Apart DEF ReadFails, Starting,
     conn, setup, Reading, Before, TypePlaces
<1>9. CASE Processed
  BY <1>9, Kinds, Distinct, ScriptSteps, Apart DEF Processed, Starting,
     conn, setup, Reading, Before, TypePlaces
<1>10. CASE Refused
  BY <1>10, Kinds, Distinct, ScriptSteps, Apart DEF Refused, Starting, conn,
     setup, Reading, Before, TypePlaces
<1>11. CASE ReceiverSetsDead
  BY <1>11, Kinds, Distinct, ScriptSteps, Apart DEF ReceiverSetsDead,
     SetDead, Starting, conn, setup, Reading, Before, TypePlaces
<1>12. CASE ReceiverDone
  BY <1>12, Kinds, Distinct, ScriptSteps, Apart DEF ReceiverDone, Starting,
     conn, setup, Reading, Before, TypePlaces
<1>13. CASE ReceiverCloses
  BY <1>13, Kinds, Distinct, ScriptSteps, Apart DEF ReceiverCloses, SetDead,
     Starting, conn, setup, Reading, Before, TypePlaces
<1>14. CASE Queues
  BY <1>14, Kinds, Distinct, ScriptSteps, Apart DEF Queues, Drain, HandOver,
     Sending, Starting, CheckerLeaves, DirEvent, Scanned, WatcherEnds, conn,
     setup, Reading, Before, TypePlaces
<1>15. CASE Ticks
  BY <1>15, Kinds, Distinct, ScriptSteps, Apart DEF Ticks, Deadline,
     SetDead, Starting, PeriodicEnds, conn, setup, Reading, Before,
     TypePlaces
<1>16. CASE Ends
  BY <1>16, Kinds, Distinct, ScriptSteps, Apart DEF Ends, Wait, Now,
     Starting, PanicBadMagic, Abort, PanicMapRace, Collect, conn, setup,
     Reading, Before, TypePlaces
<1>17. ASSUME NEW g \in Dones, CheckerDone(g) PROVE Reading'
  BY <1>17, Kinds, Distinct, ScriptSteps, Apart DEF CheckerDone, Starting,
     conn, setup, Reading, Before, TypePlaces
<1>18. ASSUME NEW k \in 1..MaxPings, PingTick(k) PROVE Reading'
  BY <1>18, Kinds, Distinct, ScriptSteps, Apart DEF PingTick, Starting,
     conn, setup, Reading, Before, TypePlaces
<1>19. CASE UNCHANGED vars
  BY <1>19, Kinds, Distinct, ScriptSteps, Apart DEF vars, Starting, conn,
     setup, Reading, Before, TypePlaces
<1> QED
  BY <1>1, <1>2, <1>3, <1>4, <1>5, <1>6, <1>7, <1>8, <1>9, <1>10, <1>11,
     <1>12, <1>13, <1>14, <1>15, <1>16, <1>17, <1>18, <1>19 DEF Next,
     Receives

LEMMA InOrderStep ==
    ASSUME TypeStream, Reading, InOrder, [Next]_vars
    PROVE  InOrder'
<1>1. CASE Starts
  BY <1>1 DEF Starts, Lock, NextStep, LockFails, Now, Shake, ShakeFails,
     StartRest, FirstBad, StartWorkers, conn, setup, InOrder
<1>2. CASE Sends
  BY <1>2 DEF Sends, SenderTakes, HandOver, Sending, SenderReadsFile,
     SenderFileFails, SenderSeesDead, Write, WriteFails, SenderDone,
     SenderCloses, SetDead, conn, setup, InOrder
<1>3. CASE ReadSP
  BY <1>3 DEF ReadSP, conn, setup, InOrder
<1>4. CASE ReceiverSeesDead
  BY <1>4 DEF ReceiverSeesDead, conn, setup, InOrder
<1>5. CASE Got
  <2>1. pc[Receiver] = "reading" /\ taken % 2 = 0
    BY <1>5 DEF Got, Aligned
  <2>2. Len(handled) \in Nat
    BY DEF TypeStream
  <2>3. taken = 2 * Len(handled)
    BY <2>1, <2>2 DEF Reading
  <2>4. taken \div 2 + 1 = Len(handled) + 1 /\ taken \div 2 + 1 \in 1..Msgs
    BY <1>5, <2>2, <2>3 DEF Got, Left, TypeStream
  <2>5. handled' = Append(handled, Len(handled) + 1) /\ Len(handled) + 1 \in 1..Msgs
    BY <1>5, <2>4 DEF Got
  <2> QED BY <2>2, <2>5 DEF InOrder, TypeStream
<1>6. CASE Timeout
  BY <1>6 DEF Timeout, conn, setup, InOrder
<1>7. CASE Skewed
  BY <1>7 DEF Skewed, conn, setup, InOrder
<1>8. CASE ReadFails
  BY <1>8 DEF ReadFails, conn, setup, InOrder
<1>9. CASE Processed
  BY <1>9 DEF Processed, conn, setup, InOrder
<1>10. CASE Refused
  BY <1>10 DEF Refused, conn, setup, InOrder
<1>11. CASE ReceiverSetsDead
  BY <1>11 DEF ReceiverSetsDead, SetDead, conn, setup, InOrder
<1>12. CASE ReceiverDone
  BY <1>12 DEF ReceiverDone, conn, setup, InOrder
<1>13. CASE ReceiverCloses
  BY <1>13 DEF ReceiverCloses, SetDead, conn, setup, InOrder
<1>14. CASE Queues
  BY <1>14 DEF Queues, Drain, HandOver, Sending, CheckerLeaves, DirEvent,
     Scanned, WatcherEnds, conn, setup, InOrder
<1>15. CASE Ticks
  BY <1>15 DEF Ticks, Deadline, SetDead, PeriodicEnds, conn, setup, InOrder
<1>16. CASE Ends
  BY <1>16 DEF Ends, Wait, Now, PanicBadMagic, Abort, PanicMapRace, Collect,
     conn, setup, InOrder
<1>17. ASSUME NEW g \in Dones, CheckerDone(g) PROVE InOrder'
  BY <1>17 DEF CheckerDone, Starting, conn, setup, InOrder
<1>18. ASSUME NEW k \in 1..MaxPings, PingTick(k) PROVE InOrder'
  BY <1>18 DEF PingTick, conn, setup, InOrder
<1>19. CASE UNCHANGED vars
  BY <1>19 DEF vars, conn, setup, InOrder
<1> QED
  BY <1>1, <1>2, <1>3, <1>4, <1>5, <1>6, <1>7, <1>8, <1>9, <1>10, <1>11,
     <1>12, <1>13, <1>14, <1>15, <1>16, <1>17, <1>18, <1>19 DEF Next,
     Receives

LEMMA Numbers ==
    ASSUME TypeStream, InOrder
    PROVE  Len(handled) \in 0..Msgs
<1>1. Len(handled) \in Nat /\ handled \in Seq(1..Msgs)
  BY DEF TypeStream
<1>2. CASE Len(handled) > 0
  <2>1. handled[Len(handled)] = Len(handled)
    BY <1>1, <1>2 DEF InOrder
  <2>2. handled[Len(handled)] \in 1..Msgs
    BY <1>1, <1>2
  <2> QED BY <2>1, <2>2
<1> QED
  BY <1>1, <1>2

\* The goroutine that answers a message is not there before ProcessSP was
\* given it.
Replies ==
    phase.role # "aborted" =>
        \A m \in 0..Msgs :
            \/ m > Len(handled)
            \/ m = Len(handled) /\ pc[Receiver] = "processing"
            => pc[Replier(m)] = "off"

LEMMA RepliesStep ==
    ASSUME TypeSetup, TypePlaces, TypeStream, Replies, [Next]_vars
    PROVE  Replies'
<1>1. CASE Lock("lockrx", "rx")
  BY <1>1, Kinds, Distinct, Numbered, ScriptSteps, Apart DEF Lock, NextStep,
     Starting, conn, setup, Replies, TypePlaces, TypeSetup, Phases
<1>2. CASE Lock("locktx", "tx")
  BY <1>2, Kinds, Distinct, Numbered, ScriptSteps, Apart DEF Lock, NextStep,
     Starting, conn, setup, Replies, TypePlaces, TypeSetup, Phases
<1>3. CASE LockFails("lockrx", "rx")
  BY <1>3, Kinds, Distinct, Numbered, ScriptSteps, Apart DEF LockFails, Now,
     Starting, conn, setup, Replies, TypePlaces, TypeSetup, Phases
<1>4. CASE LockFails("locktx", "tx")
  BY <1>4, Kinds, Distinct, Numbered, ScriptSteps, Apart DEF LockFails, Now,
     Starting, conn, setup, Replies, TypePlaces, TypeSetup, Phases
<1>5. ASSUME NEW s \in {"read", "write"}, Shake(s) PROVE Replies'
  BY <1>5, Kinds, Distinct, Numbered, ScriptSteps, Apart DEF Shake,
     NextStep, Starting, conn, setup, Replies, TypePlaces, TypeSetup, Phases
<1>6. ASSUME NEW s \in {"read", "write"}, ShakeFails(s) PROVE Replies'
  BY <1>6, Kinds, Distinct, Numbered, ScriptSteps, Apart DEF ShakeFails,
     Now, Starting, conn, setup, Replies, TypePlaces, TypeSetup, Phases
<1>7. CASE StartRest
  BY <1>7, Kinds, Distinct, Numbered, ScriptSteps, Apart DEF StartRest,
     NextStep, Starting, conn, setup, Replies, TypePlaces, TypeSetup, Phases
<1>8. CASE FirstBad
  BY <1>8, Kinds, Distinct, Numbered, ScriptSteps, Apart DEF FirstBad, Now,
     Starting, conn, setup, Replies, TypePlaces, TypeSetup, Phases
<1>9. CASE StartWorkers
  <2>1. handled' = handled /\ phase.role # "aborted"
    BY <1>9, ScriptSteps DEF StartWorkers, conn
  <2>2. \A m \in 0..Msgs : m > 0 => pc'[Replier(m)] = pc[Replier(m)]
    BY <1>9, Kinds, Distinct, Numbered DEF StartWorkers, TypePlaces
  <2>3. Len(handled) \in Nat
    BY DEF TypeStream
  <2>4. pc'[Receiver] = "top"
    BY <1>9, Kinds, Distinct DEF StartWorkers
  <2> QED BY <2>1, <2>2, <2>3, <2>4 DEF Replies
<1>10. CASE Sends
  BY <1>10, Kinds, Distinct, Numbered, ScriptSteps, Apart DEF Sends,
     SenderTakes, HandOver, Sending, Starting, SenderReadsFile,
     SenderFileFails, SenderSeesDead, Write, WriteFails, SenderDone,
     SenderCloses, SetDead, conn, setup, Replies, TypePlaces, TypeSetup,
     Phases
<1>11. CASE ReadSP
  BY <1>11, Kinds, Distinct, Numbered, ScriptSteps, Apart DEF ReadSP,
     Starting, conn, setup, Replies, TypePlaces, TypeSetup, Phases
<1>12. CASE ReceiverSeesDead
  BY <1>12, Kinds, Distinct, Numbered, ScriptSteps, Apart DEF
     ReceiverSeesDead, Starting, conn, setup, Replies, TypePlaces,
     TypeSetup, Phases
<1>13. CASE Got
  <2>1. Len(handled') = Len(handled) + 1 /\ Len(handled) \in Nat
    BY <1>13 DEF Got, TypeStream
  <2>2. \A m \in 0..Msgs : m >= Len(handled') => m > Len(handled)
    BY <2>1
  <2>3. \A m \in 0..Msgs : pc'[Replier(m)] = pc[Replier(m)]
    BY <1>13, Kinds, Distinct DEF Got, TypePlaces
  <2> QED BY <1>13, <2>1, <2>2, <2>3 DEF Got, Replies
<1>14. CASE Timeout
  BY <1>14, Kinds, Distinct, Numbered, ScriptSteps, Apart DEF Timeout,
     Starting, conn, setup, Replies, TypePlaces, TypeSetup, Phases
<1>15. CASE Skewed
  BY <1>15, Kinds, Distinct, Numbered, ScriptSteps, Apart DEF Skewed,
     Starting, conn, setup, Replies, TypePlaces, TypeSetup, Phases
<1>16. CASE ReadFails
  BY <1>16, Kinds, Distinct, Numbered, ScriptSteps, Apart DEF ReadFails,
     Starting, conn, setup, Replies, TypePlaces, TypeSetup, Phases
<1>17. CASE Processed
  <2>1. pc'[Receiver] = "top" /\ handled' = handled /\ phase' = phase
    BY <1>17, Kinds, Distinct DEF Processed, conn, TypePlaces
  <2>2. \A m \in 0..Msgs : m # Len(handled) => pc'[Replier(m)] = pc[Replier(m)]
    BY <1>17, Kinds, Distinct, Numbered DEF Processed, TypePlaces
  <2>3. Len(handled) \in Nat
    BY DEF TypeStream
  <2> QED BY <2>1, <2>2, <2>3 DEF Replies
<1>18. CASE Refused
  BY <1>18, Kinds, Distinct, Numbered, ScriptSteps, Apart DEF Refused,
     Starting, conn, setup, Replies, TypePlaces, TypeSetup, Phases
<1>19. CASE ReceiverSetsDead
  BY <1>19, Kinds, Distinct, Numbered, ScriptSteps, Apart DEF
     ReceiverSetsDead, SetDead, Starting, conn, setup, Replies, TypePlaces,
     TypeSetup, Phases
<1>20. CASE ReceiverDone
  BY <1>20, Kinds, Distinct, Numbered, ScriptSteps, Apart DEF ReceiverDone,
     Starting, conn, setup, Replies, TypePlaces, TypeSetup, Phases
<1>21. CASE ReceiverCloses
  BY <1>21, Kinds, Distinct, Numbered, ScriptSteps, Apart DEF
     ReceiverCloses, SetDead, Starting, conn, setup, Replies, TypePlaces,
     TypeSetup, Phases
<1>22. CASE Queues
  BY <1>22, Kinds, Distinct, Numbered, ScriptSteps, Apart DEF Queues, Drain,
     HandOver, Sending, Starting, CheckerLeaves, DirEvent, Scanned,
     WatcherEnds, conn, setup, Replies, TypePlaces, TypeSetup, Phases
<1>23. CASE Ticks
  BY <1>23, Kinds, Distinct, Numbered, ScriptSteps, Apart DEF Ticks,
     Deadline, SetDead, Starting, PeriodicEnds, conn, setup, Replies,
     TypePlaces, TypeSetup, Phases
<1>24. CASE Ends
  BY <1>24, Kinds, Distinct, Numbered, ScriptSteps, Apart DEF Ends, Wait,
     Now, Starting, PanicBadMagic, Abort, PanicMapRace, Collect, conn,
     setup, Replies, TypePlaces, TypeSetup, Phases
<1>25. ASSUME NEW g \in Dones, CheckerDone(g) PROVE Replies'
  BY <1>25, Kinds, Distinct, Numbered, ScriptSteps, Apart DEF CheckerDone,
     Starting, conn, setup, Replies, TypePlaces, TypeSetup, Phases
<1>26. ASSUME NEW k \in 1..MaxPings, PingTick(k) PROVE Replies'
  BY <1>26, Kinds, Distinct, Numbered, ScriptSteps, Apart DEF PingTick,
     Starting, conn, setup, Replies, TypePlaces, TypeSetup, Phases
<1>27. CASE UNCHANGED vars
  BY <1>27, Kinds, Distinct, Numbered, ScriptSteps, Apart DEF vars,
     Starting, conn, setup, Replies, TypePlaces, TypeSetup, Phases
<1> QED
  BY <1>1, <1>2, <1>3, <1>4, <1>5, <1>6, <1>7, <1>8, <1>9, <1>10, <1>11,
     <1>12, <1>13, <1>14, <1>15, <1>16, <1>17, <1>18, <1>19, <1>20, <1>21,
     <1>22, <1>23, <1>24, <1>25, <1>26, <1>27 DEF Next, Starts, Receives

-----------------------------------------------------------------------------
(* The wait group counts the goroutines at work *)

LEMMA MembersFinite == IsFiniteSet(Members)
  BY CountedFinite, FS_Subset DEF Members

\* The three ways a step changes the goroutines at work and wg.
LEMMA Keeps ==
    ASSUME Counting, wg' = wg,
           phase'.role # "aborted" => phase.role # "aborted",
           \A g \in Counted : pc'[g] \in Working <=> pc[g] \in Working
    PROVE  Counting'
<1>1. Members' = Members
  BY DEF Members
<1> QED
  BY <1>1 DEF Counting

LEMMA Joins ==
    ASSUME Counting, wg' = wg + 1,
           phase'.role # "aborted" => phase.role # "aborted",
           NEW h \in Counted, pc[h] \notin Working, pc'[h] \in Working,
           \A g \in Counted \ {h} : pc'[g] \in Working <=> pc[g] \in Working
    PROVE  Counting'
<1>1. Members' = Members \cup {h} /\ h \notin Members
  BY DEF Members
<1>2. Cardinality(Members \cup {h}) = Cardinality(Members) + 1
  BY <1>1, MembersFinite, FS_AddElement
<1> QED
  BY <1>1, <1>2 DEF Counting

LEMMA Leaves ==
    ASSUME Counting, wg' = wg - 1,
           phase'.role # "aborted" => phase.role # "aborted",
           NEW h \in Counted, pc[h] \in Working, pc'[h] \notin Working,
           \A g \in Counted \ {h} : pc'[g] \in Working <=> pc[g] \in Working
    PROVE  Counting'
<1>1. Members' = Members \ {h} /\ h \in Members
  BY DEF Members
<1>2. Cardinality(Members \ {h}) = Cardinality(Members) - 1
  BY <1>1, MembersFinite, FS_RemoveElement
<1> QED
  BY <1>1, <1>2 DEF Counting

LEMMA HandOverCounts ==
    ASSUME TypePlaces, Counting, NEW g \in Producers, Sending(g),
           NEW at, pc[Sender] \in Working <=> at \in Working,
           HandOver(g, at), phase' = phase
    PROVE  Counting'
<1>1. pc[g] = "on" /\ "on" \in Working /\ g # Sender
  BY Apart DEF Sending, Working, Running
<1>2. pc' = [pc EXCEPT ![Sender] = at,
                       ![g] = IF todo[g] = 1 /\ g # Watcher
                              THEN IF g \in Dones THEN "done" ELSE "off" ELSE @]
  BY DEF HandOver
<1>3. pc'[g] = (IF todo[g] = 1 /\ g # Watcher
                THEN IF g \in Dones THEN "done" ELSE "off" ELSE pc[g])
  BY <1>1, <1>2, Kinds DEF TypePlaces
<1>4. \A h \in Counted \ {g} : pc'[h] \in Working <=> pc[h] \in Working
  BY <1>1, <1>2, Kinds DEF TypePlaces
<1>5. CASE todo[g] = 1 /\ g # Watcher /\ g \in Counted
  <2>1. wg' = wg - 1
    BY <1>5 DEF HandOver
  <2>2. pc'[g] = "off"
    BY <1>3, <1>5, Apart
  <2>3. "off" \notin Working
    BY DEF Working, Running
  <2> QED BY <1>1, <1>4, <1>5, <2>1, <2>2, <2>3, Leaves
<1>6. CASE ~(todo[g] = 1 /\ g # Watcher /\ g \in Counted)
  <2>1. wg' = wg
    BY <1>6 DEF HandOver
  <2>2. \A h \in Counted : pc'[h] \in Working <=> pc[h] \in Working
    BY <1>3, <1>4, <1>6
  <2> QED BY <2>1, <2>2, Keeps
<1> QED
  BY <1>5, <1>6

LEMMA CountingStep ==
    ASSUME TypeSetup, TypePlaces, TypeStream, InOrder, Before, Gone,
       Replies, Counting, [Next]_vars
    PROVE  Counting'
<1>1. CASE \/ Lock("lockrx", "rx") \/ Lock("locktx", "tx")
           \/ LockFails("lockrx", "rx") \/ LockFails("locktx", "tx")
           \/ (\E s \in {"read", "write"} : Shake(s))
           \/ (\E s \in {"read", "write"} : ShakeFails(s)) \/ FirstBad
  <2>1. \A g \in Counted : pc'[g] \in Working <=> pc[g] \in Working
    BY <1>1, Kinds, Distinct, Apart DEF Lock, NextStep, LockFails, Now,
       Shake, ShakeFails, FirstBad, conn, setup, Working, Running,
       TypePlaces
  <2>2. wg' = wg /\ (phase'.role # "aborted" => phase.role # "aborted")
    BY <1>1, ScriptSteps DEF Lock, NextStep, LockFails, Now, Shake,
       ShakeFails, FirstBad, conn, setup, TypeSetup, Phases
  <2> QED BY <2>1, <2>2, Keeps
<1>2. CASE StartRest
  <2>1. pc[Rest] = "off" /\ phase.role # "aborted"
    BY <1>2, ScriptSteps, Kinds DEF StartRest, Before
  <2>2. PICK n \in 0..(IF "tx" \in want THEN MaxRest ELSE 0) :
              /\ pc' = [pc EXCEPT ![Rest] = IF n > 0 THEN "on" ELSE "off"]
              /\ wg' = IF n > 0 THEN wg + 1 ELSE wg
    BY <1>2 DEF StartRest
  <2>3. \A g \in Counted \ {Rest} : pc'[g] = pc[g]
    BY <2>2, Kinds DEF TypePlaces
  <2>4. pc'[Rest] = IF n > 0 THEN "on" ELSE "off"
    BY <2>2, Kinds DEF TypePlaces
  <2>5. "on" \in Working /\ "off" \notin Working
    BY DEF Working, Running
  <2>6. CASE n > 0
    <3>1. wg' = wg + 1 /\ pc'[Rest] = "on"
      BY <2>2, <2>4, <2>6
    <3> QED BY <2>1, <2>3, <2>5, <3>1, Kinds, Joins
  <2>7. CASE ~(n > 0)
    <3>1. wg' = wg /\ pc'[Rest] = "off"
      BY <2>2, <2>4, <2>7
    <3> QED BY <2>1, <2>3, <3>1, Keeps
  <2> QED BY <2>6, <2>7
<1>3. CASE StartWorkers
  <2>1. phase.role # "aborted" /\ \A g \in Goroutines : g # Rest => pc[g] = "off"
    BY <1>3, ScriptSteps DEF StartWorkers, Before
  <2>2. PICK n \in 0..MaxReplies :
           LET started == {Periodic, Sender, Receiver}
                          \cup {g \in {Watcher} : "tx" \in want}
                          \cup {g \in {Replier(0)} : n > 0}
           IN /\ pc' = [g \in Goroutines |->
                          IF g = Sender THEN "select"
                          ELSE IF g = Receiver THEN "top"
                          ELSE IF g \in started THEN "on" ELSE pc[g]]
              /\ wg' = wg + Cardinality(started)
    BY <1>3 DEF StartWorkers
  <2> DEFINE started == {Periodic, Sender, Receiver}
                        \cup {g \in {Watcher} : "tx" \in want}
                        \cup {g \in {Replier(0)} : n > 0}
  <2>3. started \subseteq Counted /\ Rest \notin started
        /\ Sender \in started /\ Receiver \in started
    <3>1. 0 \in 0..Msgs
      OBVIOUS
    <3>2. Replier(0) \in Counted /\ Replier(0) # Rest
      BY <3>1, Kinds, Distinct
    <3> QED BY <3>2, Kinds, Distinct
  <2>4. wg' = wg + Cardinality(started)
    BY <2>2
  <2>5. \A g \in Counted : pc'[g] = IF g = Sender THEN "select"
                                    ELSE IF g = Receiver THEN "top"
                                    ELSE IF g \in started THEN "on" ELSE pc[g]
    BY <2>2, Kinds
  <2> HIDE DEF started
  <2>6. {"on", "top", "select"} \subseteq Working /\ "off" \notin Working
    BY DEF Working, Running
  <2>7. started \cap Members = {}
    BY <2>1, <2>3, <2>6, Kinds DEF Members
  <2>8. Members' = Members \cup started
    BY <2>3, <2>5, <2>6 DEF Members
  <2>9. IsFiniteSet(started)
    BY <2>3, CountedFinite, FS_Subset
  <2>10. Cardinality(Members \cup started)
           = Cardinality(Members) + Cardinality(started) - Cardinality(Members \cap started)
    BY <2>9, MembersFinite, FS_Union
  <2>11. Cardinality(Members \cap started) = 0
    BY <2>7, FS_EmptySet
  <2>12. Cardinality(Members) \in Nat /\ Cardinality(started) \in Nat
    BY <2>9, MembersFinite, FS_CardinalityType
  <2> QED BY <2>1, <2>4, <2>8, <2>10, <2>11, <2>12 DEF Counting
<1>4. CASE \/ SenderReadsFile \/ SenderFileFails \/ SenderSeesDead
           \/ Write \/ WriteFails \/ SenderCloses
  <2>1. \A g \in Counted : pc'[g] \in Working <=> pc[g] \in Working
    BY <1>4, Kinds, Distinct, Apart DEF SenderReadsFile, SenderFileFails,
       SenderSeesDead, Write, WriteFails, SenderCloses, SetDead, conn,
       setup, Working, Running, TypePlaces
  <2>2. wg' = wg /\ (phase'.role # "aborted" => phase.role # "aborted")
    BY <1>4, ScriptSteps DEF SenderReadsFile, SenderFileFails,
       SenderSeesDead, Write, WriteFails, SenderCloses, SetDead, conn,
       setup, TypeSetup, Phases
  <2> QED BY <2>1, <2>2, Keeps
<1>5. ASSUME NEW g \in Producers, SenderTakes(g) PROVE Counting'
  <2>1. pc[Sender] \in Working /\ "writing" \in Working
    BY <1>5 DEF SenderTakes, Working, Running
  <2> QED BY <1>5, <2>1, HandOverCounts DEF SenderTakes
<1>6. CASE SenderDone
  <2>1. /\ pc[Sender] \in Working /\ pc'[Sender] \notin Working
        /\ \A g \in Counted \ {Sender} : pc'[g] \in Working <=> pc[g] \in Working
    BY <1>6, Kinds, Distinct, Apart DEF SenderDone, Working, Running, TypePlaces
  <2>2. wg' = wg - 1 /\ phase' = phase
    BY <1>6 DEF SenderDone
  <2> QED BY <2>1, <2>2, Kinds, Leaves
<1>7. CASE \/ ReadSP \/ ReceiverSeesDead \/ Got \/ Timeout \/ Skewed
           \/ ReadFails \/ Refused \/ ReceiverSetsDead \/ ReceiverCloses
  <2>1. \A g \in Counted : pc'[g] \in Working <=> pc[g] \in Working
    BY <1>7, Kinds, Distinct, Apart DEF ReadSP, ReceiverSeesDead, Got,
       Timeout, Skewed, ReadFails, Refused, ReceiverSetsDead, SetDead,
       ReceiverCloses, conn, setup, Working, Running, TypePlaces
  <2>2. wg' = wg /\ (phase'.role # "aborted" => phase.role # "aborted")
    BY <1>7, ScriptSteps DEF ReadSP, ReceiverSeesDead, Got, Timeout,
       Skewed, ReadFails, Refused, ReceiverSetsDead, SetDead,
       ReceiverCloses, conn, setup, TypeSetup, Phases
  <2> QED BY <2>1, <2>2, Keeps
<1>8. CASE Processed
  <2> DEFINE r == Replier(Len(handled))
  <2>1. r \in Counted /\ r # Receiver
    BY Numbers, Kinds, Distinct
  <2>2. pc[Receiver] = "processing" /\ phase' = phase
    BY <1>8 DEF Processed
  <2>3. phase.role # "aborted"
    BY <2>2, Kinds DEF Gone
  <2>4. pc[r] = "off"
    BY <2>2, <2>3, Numbers DEF Replies
  <2>5. PICK n \in 0..MaxReplies : /\ pc' = [pc EXCEPT ![Receiver] = "top",
                                                       ![r] = IF n > 0 THEN "on" ELSE "off"]
                                   /\ wg' = IF n > 0 THEN wg + 1 ELSE wg
    BY <1>8 DEF Processed
  <2>6. {"on", "top", "processing"} \subseteq Working /\ "off" \notin Working
    BY DEF Working, Running
  <2> HIDE DEF r
  <2>7. pc'[r] = IF n > 0 THEN "on" ELSE "off"
    BY <2>1, <2>5, Kinds DEF TypePlaces
  <2>8. \A g \in Counted \ {r} : pc'[g] = IF g = Receiver THEN "top" ELSE pc[g]
    BY <2>1, <2>5, Kinds DEF TypePlaces
  <2>9. \A g \in Counted \ {r} : pc'[g] \in Working <=> pc[g] \in Working
    BY <2>2, <2>6, <2>8
  <2>10. CASE n > 0
    <3>1. wg' = wg + 1 /\ pc'[r] = "on"
      BY <2>5, <2>7, <2>10
    <3> QED BY <2>1, <2>2, <2>4, <2>6, <2>9, <3>1, Joins
  <2>11. CASE ~(n > 0)
    <3>1. wg' = wg /\ pc'[r] = "off"
      BY <2>5, <2>7, <2>11
    <3>2. \A g \in Counted : pc'[g] \in Working <=> pc[g] \in Working
      BY <2>4, <2>6, <2>9, <3>1
    <3> QED BY <2>2, <3>1, <3>2, Keeps
  <2> QED BY <2>10, <2>11
<1>9. CASE ReceiverDone
  <2>1. /\ pc[Receiver] \in Working /\ pc'[Receiver] \notin Working
        /\ \A g \in Counted \ {Receiver} : pc'[g] \in Working <=> pc[g] \in Working
    BY <1>9, Kinds, Distinct, Apart DEF ReceiverDone, Working, Running, TypePlaces
  <2>2. wg' = wg - 1 /\ phase' = phase
    BY <1>9 DEF ReceiverDone
  <2> QED BY <2>1, <2>2, Kinds, Leaves
<1>10. CASE \/ (\E g \in Dones : CheckerLeaves(g)) \/ DirEvent \/ Scanned
  <2>1. \A g \in Counted : pc'[g] \in Working <=> pc[g] \in Working
    BY <1>10, Kinds, Distinct, Apart DEF CheckerLeaves, DirEvent, Scanned,
       conn, setup, Working, Running, TypePlaces
  <2>2. wg' = wg /\ (phase'.role # "aborted" => phase.role # "aborted")
    BY <1>10, ScriptSteps DEF CheckerLeaves, DirEvent, Scanned, conn,
       setup, TypeSetup, Phases
  <2> QED BY <2>1, <2>2, Keeps
<1>11. ASSUME NEW g \in Producers, Drain(g) PROVE Counting'
  BY <1>11, HandOverCounts DEF Drain
<1>12. CASE WatcherEnds
  <2>1. /\ pc[Watcher] \in Working /\ pc'[Watcher] \notin Working
        /\ \A g \in Counted \ {Watcher} : pc'[g] \in Working <=> pc[g] \in Working
    BY <1>12, Kinds, Distinct, Apart DEF WatcherEnds, Working, Running, TypePlaces
  <2>2. wg' = wg - 1 /\ phase' = phase
    BY <1>12 DEF WatcherEnds
  <2> QED BY <2>1, <2>2, Kinds, Leaves
<1>13. CASE Deadline
  <2>1. \A g \in Counted : pc'[g] \in Working <=> pc[g] \in Working
    BY <1>13, Kinds, Distinct, Apart DEF Deadline, SetDead, conn, setup,
       Working, Running, TypePlaces
  <2>2. wg' = wg /\ (phase'.role # "aborted" => phase.role # "aborted")
    BY <1>13, ScriptSteps DEF Deadline, SetDead, conn, setup, TypeSetup,
       Phases
  <2> QED BY <2>1, <2>2, Keeps
<1>14. CASE PeriodicEnds
  <2>1. /\ pc[Periodic] \in Working /\ pc'[Periodic] \notin Working
        /\ \A g \in Counted \ {Periodic} : pc'[g] \in Working <=> pc[g] \in Working
    BY <1>14, Kinds, Distinct, Apart DEF PeriodicEnds, Working, Running, TypePlaces
  <2>2. wg' = wg - 1 /\ phase' = phase
    BY <1>14 DEF PeriodicEnds
  <2> QED BY <2>1, <2>2, Kinds, Leaves
<1>15. CASE \/ Wait \/ Collect
  <2>1. \A g \in Counted : pc'[g] \in Working <=> pc[g] \in Working
    BY <1>15, Kinds, Distinct, Apart DEF Wait, Now, Collect, conn, setup,
       Working, Running, TypePlaces
  <2>2. wg' = wg /\ (phase'.role # "aborted" => phase.role # "aborted")
    BY <1>15, ScriptSteps DEF Wait, Now, Collect, conn, setup, TypeSetup,
       Phases
  <2> QED BY <2>1, <2>2, Keeps
<1>16. CASE PanicBadMagic
  BY <1>16 DEF PanicBadMagic, Abort, Now, Counting
<1>17. CASE PanicMapRace
  BY <1>17 DEF PanicMapRace, Abort, Now, Counting
<1>18. CASE \/ (\E g \in Dones : CheckerDone(g)) \/ UNCHANGED vars
  <2>1. \A g \in Counted : pc'[g] \in Working <=> pc[g] \in Working
    BY <1>18, Kinds, Distinct, Apart DEF CheckerDone, Starting, vars,
       conn, setup, Working, Running, TypePlaces
  <2>2. wg' = wg /\ (phase'.role # "aborted" => phase.role # "aborted")
    BY <1>18, ScriptSteps DEF CheckerDone, Starting, vars, conn, setup,
       TypeSetup, Phases
  <2> QED BY <2>1, <2>2, Keeps
<1>19. ASSUME NEW k \in 1..MaxPings, PingTick(k) PROVE Counting'
  <2>1. /\ pc[Pinger(k)] \notin Working /\ pc'[Pinger(k)] \in Working
        /\ \A g \in Counted \ {Pinger(k)} : pc'[g] \in Working <=> pc[g] \in Working
    BY <1>19, Kinds, Distinct, Apart DEF PingTick, Working, Running, TypePlaces
  <2>2. wg' = wg + 1 /\ phase' = phase
    BY <1>19 DEF PingTick
  <2> QED BY <2>1, <2>2, Kinds, Joins
<1> QED
  BY <1>1, <1>2, <1>3, <1>4, <1>5, <1>6, <1>7, <1>8, <1>9, <1>10, <1>11,
     <1>12, <1>13, <1>14, <1>15, <1>16, <1>17, <1>18, <1>19 DEF Next,
     Starts, Sends, Receives, Queues, Ticks, Ends

LEMMA EndedStep ==
    ASSUME TypeSetup, TypePlaces, Counting, Ended, [Next]_vars
    PROVE  Ended'
<1>1. CASE Starts
  BY <1>1, Kinds, Distinct, Apart, ScriptSteps DEF Starts, Lock, NextStep,
     Starting, LockFails, Now, Shake, ShakeFails, StartRest, FirstBad,
     StartWorkers, conn, setup, Ended, Quiet, TypePlaces, TypeSetup, Phases
<1>2. CASE Sends
  BY <1>2, Kinds, Distinct, Apart, ScriptSteps DEF Sends, SenderTakes,
     HandOver, Sending, Starting, SenderReadsFile, SenderFileFails,
     SenderSeesDead, Write, WriteFails, SenderDone, SenderCloses, SetDead,
     conn, setup, Ended, Quiet, TypePlaces, TypeSetup, Phases
<1>3. CASE Receives
  BY <1>3, Kinds, Distinct, Apart, ScriptSteps DEF Receives, ReadSP,
     Starting, ReceiverSeesDead, Got, Timeout, Skewed, ReadFails, Processed,
     Refused, ReceiverSetsDead, SetDead, ReceiverDone, ReceiverCloses, conn,
     setup, Ended, Quiet, TypePlaces, TypeSetup, Phases
<1>4. CASE Queues
  BY <1>4, Kinds, Distinct, Apart, ScriptSteps DEF Queues, Drain, HandOver,
     Sending, Starting, CheckerLeaves, DirEvent, Scanned, WatcherEnds, conn,
     setup, Ended, Quiet, TypePlaces, TypeSetup, Phases
<1>5. CASE Ticks
  BY <1>5, Kinds, Distinct, Apart, ScriptSteps DEF Ticks, Deadline, SetDead,
     Starting, PeriodicEnds, conn, setup, Ended, Quiet, TypePlaces,
     TypeSetup, Phases
<1>6. CASE Wait
  <2>1. wg = 0 /\ pc' = pc /\ phase.role = "waiting"
    BY <1>6 DEF Wait
  <2>2. Members = {}
    BY <2>1, MembersFinite, FS_EmptySet DEF Counting
  <2>3. \A g \in Counted : pc[g] \in Places \ Working
    BY <2>2, Kinds DEF Members, TypePlaces, Places, Working
  <2> QED BY <2>1, <2>3 DEF Ended, Quiet, Places, Working
<1>7. CASE PanicBadMagic
  BY <1>7, Kinds, Distinct, Apart, ScriptSteps DEF PanicBadMagic, Abort,
     Now, Starting, conn, setup, Ended, Quiet, TypePlaces, TypeSetup, Phases
<1>8. CASE PanicMapRace
  BY <1>8, Kinds, Distinct, Apart, ScriptSteps DEF PanicMapRace, Abort, Now,
     Starting, conn, setup, Ended, Quiet, TypePlaces, TypeSetup, Phases
<1>9. CASE Collect
  BY <1>9, Kinds, Distinct, Apart, ScriptSteps DEF Collect, Starting, conn,
     setup, Ended, Quiet, TypePlaces, TypeSetup, Phases
<1>10. ASSUME NEW g \in Dones, CheckerDone(g) PROVE Ended'
  BY <1>10, Kinds, Distinct, Apart, ScriptSteps DEF CheckerDone, Starting,
     conn, setup, Ended, Quiet, TypePlaces, TypeSetup, Phases
<1>11. ASSUME NEW k \in 1..MaxPings, PingTick(k) PROVE Ended'
  BY <1>11, Kinds, Distinct, Apart, ScriptSteps DEF PingTick, Starting,
     conn, setup, Ended, Quiet, TypePlaces, TypeSetup, Phases
<1>12. CASE UNCHANGED vars
  BY <1>12, Kinds, Distinct, Apart, ScriptSteps DEF vars, Starting, conn,
     setup, Ended, Quiet, TypePlaces, TypeSetup, Phases
<1> QED
  BY <1>1, <1>2, <1>3, <1>4, <1>5, <1>6, <1>7, <1>8, <1>9, <1>10, <1>11,
     <1>12 DEF Next, Ends

LEMMA WgKept ==
    ASSUME TypeSetup, Gone, [Next]_vars
    PROVE  phase'.role = "aborted" => wg' = wg
<1>1. CASE Starts
  BY <1>1, Kinds, ScriptSteps DEF Starts, Lock, NextStep, Starting,
     LockFails, Now, Shake, ShakeFails, StartRest, FirstBad, StartWorkers,
     conn, setup, Gone, TypeSetup, Phases
<1>2. CASE Sends
  BY <1>2, Kinds, ScriptSteps DEF Sends, SenderTakes, HandOver, Sending,
     Starting, SenderReadsFile, SenderFileFails, SenderSeesDead, Write,
     WriteFails, SenderDone, SenderCloses, SetDead, conn, setup, Gone,
     TypeSetup, Phases
<1>3. CASE Receives
  BY <1>3, Kinds, ScriptSteps DEF Receives, ReadSP, Starting,
     ReceiverSeesDead, Got, Timeout, Skewed, ReadFails, Processed, Refused,
     ReceiverSetsDead, SetDead, ReceiverDone, ReceiverCloses, conn, setup,
     Gone, TypeSetup, Phases
<1>4. CASE Queues
  BY <1>4, Kinds, ScriptSteps DEF Queues, Drain, HandOver, Sending,
     Starting, CheckerLeaves, DirEvent, Scanned, WatcherEnds, conn, setup,
     Gone, TypeSetup, Phases
<1>5. CASE Ticks
  BY <1>5, Kinds, ScriptSteps DEF Ticks, Deadline, SetDead, Starting,
     PeriodicEnds, conn, setup, Gone, TypeSetup, Phases
<1>6. CASE Ends
  BY <1>6, Kinds, ScriptSteps DEF Ends, Wait, Now, Starting, PanicBadMagic,
     Abort, PanicMapRace, Collect, conn, setup, Gone, TypeSetup, Phases
<1>7. ASSUME NEW g \in Dones, CheckerDone(g) PROVE phase'.role = "aborted" => wg' = wg
  BY <1>7, Kinds, ScriptSteps DEF CheckerDone, Starting, conn, setup, Gone,
     TypeSetup, Phases
<1>8. ASSUME NEW k \in 1..MaxPings, PingTick(k) PROVE phase'.role = "aborted" => wg' = wg
  BY <1>8, Kinds, ScriptSteps DEF PingTick, Starting, conn, setup, Gone,
     TypeSetup, Phases
<1>9. CASE UNCHANGED vars
  BY <1>9, Kinds, ScriptSteps DEF vars, Starting, conn, setup, Gone,
     TypeSetup, Phases
<1> QED
  BY <1>1, <1>2, <1>3, <1>4, <1>5, <1>6, <1>7, <1>8, <1>9 DEF Next

LEMMA CountBound ==
    ASSUME NEW S \in SUBSET Counted
    PROVE  Cardinality(S) \in 0..Cardinality(Counted)
<1>1. IsFiniteSet(S) /\ Cardinality(S) <= Cardinality(Counted)
  BY CountedFinite, FS_Subset
<1> QED
  BY <1>1, CountedFinite, FS_CardinalityType

-----------------------------------------------------------------------------
(* The inductive invariant *)

IInv ==
    /\ TypeSetup /\ TypePlaces /\ TypeTodo /\ TypeFlags /\ TypeStream /\ TypeCount
    /\ Before /\ Failed /\ Ended /\ Gone /\ ClosedLate /\ Locked
    /\ Reading /\ InOrder /\ Replies /\ Counting

LEMMA InitIInv == ASSUME Init PROVE IInv
<1>1. TypeSetup
  BY WantsAreDirs DEF Init, TypeSetup, Phases
<1>2. TypePlaces /\ TypeTodo /\ TypeFlags /\ TypeStream
  <2>1. TypePlaces /\ TypeFlags
    BY DEF Init, TypePlaces, Places, TypeFlags
  <2>2. TypeTodo
    BY DEF Init, TypeTodo
  <2>3. 0 \in 0..(2 * Msgs) /\ <<>> \in Seq(1..Msgs)
    OBVIOUS
  <2>4. TypeStream
    BY <2>3 DEF Init, TypeStream
  <2> QED BY <2>1, <2>2, <2>4
<1>3. Members = {} /\ Cardinality(Counted) \in Nat
  BY Kinds, CountedFinite, FS_CardinalityType DEF Init, Members, Working, Running
<1>4. Counting /\ TypeCount
  BY <1>3, FS_EmptySet DEF Init, Counting, TypeCount
<1>5. phase.role \in {"I", "R"} /\ phase.step = 1 /\ closed = FALSE
      /\ handled = <<>> /\ taken = 0
  BY DEF Init
<1>6. \A g \in Goroutines : pc[g] = "off"
  BY DEF Init
<1>7. Before /\ Failed /\ Ended /\ Gone /\ ClosedLate /\ Locked
  BY <1>5, <1>6 DEF Before, Failed, Ended, Gone, ClosedLate, Locked, Starting
<1>8. Reading /\ InOrder
  BY <1>5 DEF Reading, InOrder
<1>9. Replies
  BY <1>6, Kinds DEF Replies
<1> QED
  BY <1>1, <1>2, <1>4, <1>7, <1>8, <1>9 DEF IInv

LEMMA StepIInv == ASSUME IInv, [Next]_vars PROVE IInv'
<1> USE DEF IInv
<1>1. TypeSetup' /\ TypePlaces' /\ TypeTodo' /\ TypeFlags' /\ TypeStream'
  BY SetupStep, PlacesStep, TodoStep, FlagsStep, StreamStep
<1>2. Before' /\ Failed' /\ Gone' /\ ClosedLate' /\ Locked'
  BY BeforeStep, FailedStep, GoneStep, ClosedLateStep, LockedStep
<1>3. Reading' /\ InOrder' /\ Replies'
  BY ReadingStep, InOrderStep, RepliesStep
<1>4. Counting' /\ Ended'
  BY CountingStep, EndedStep
<1>5. TypeCount'
  <2>1. CASE phase'.role = "aborted"
    BY <2>1, WgKept DEF TypeCount
  <2>2. CASE phase'.role # "aborted"
    <3>1. Members' \in SUBSET Counted
      BY DEF Members
    <3> QED BY <2>2, <3>1, <1>4, CountBound DEF Counting, TypeCount
  <2> QED BY <2>1, <2>2
<1> QED
  BY <1>1, <1>2, <1>3, <1>4, <1>5

LEMMA SessionFacts == ASSUME IInv PROVE SessionOK /\ InOrder
<1> USE DEF IInv
<1>1. TypeOK
  BY TypeParts
<1>2. NoSendOnClosed
  BY Kinds DEF NoSendOnClosed, ClosedLate, Ended, Quiet, Gone
<1>3. LockedWhileWorking
  <2> SUFFICES ASSUME NEW g \in {Sender, Receiver, Watcher}, pc[g] \in Running
               PROVE  locks = want
    BY DEF LockedWhileWorking
  <2>1. g \in Counted /\ g \in Goroutines /\ g # Rest
    BY Kinds, Distinct
  <2>2. pc[g] \notin {"off", "done", "close"}
    BY DEF Running
  <2>3. phase.role = "waiting"
    BY <2>1, <2>2 DEF Before, Failed, Ended, Quiet, Gone, Starting, TypeSetup, Phases
  <2> QED BY <2>3 DEF Locked
<1> QED
  BY <1>1, <1>2, <1>3 DEF SessionOK

-----------------------------------------------------------------------------
(* The theorems *)

LEMMA Invariant == Spec => []IInv
<1>1. Init => IInv
  BY InitIInv
<1>2. IInv /\ [Next]_vars => IInv'
  BY StepIInv
<1> QED
  BY <1>1, <1>2, PTL DEF Spec

\* Whatever fails and whoever is blocked when: the wait group never goes
\* negative, Wait closes the channels only when no goroutine of the session
\* can send on them any more, and whatever works in rx/ and tx/ does so under
\* the session's locks (StartWorkers, Wait, SetDead).
THEOREM SessionCorrect == Spec => []SessionOK
<1>1. IInv => SessionOK
  BY SessionFacts
<1> QED
  BY <1>1, Invariant, PTL

\* Whichever read deadlines pass in the middle of messages, ProcessSP is
\* given the peer's messages in the order they were sent, none skipped.
THEOREM HandledInOrder == Spec => []InOrder
<1>1. IInv => InOrder
  BY SessionFacts
<1> QED
  BY <1>1, Invariant, PTL
=============================================================================
