-------------------------- MODULE SPTransferProofs --------------------------
(***************************************************************************)
(* SPTransfer for every number of packets, sizes, checkers, cuts, kills    *)
(* and crashes, in three parts, each of which relies on those before it:   *)
(* types and the streams of FILEs; no packet is lost on its way (CopyKept, *)
(* OnlyIntact), and the protocol implements PacketCustody; hashers keep up *)
(* with the .part file, and while no process is killed and no call fails,  *)
(* a deleted packet is one the tosser or a checker will find.              *)
(***************************************************************************)
EXTENDS SPTransfer, SequenceTheorems, TLAPS

-----------------------------------------------------------------------------
(* Type correctness, one group of variables at a time *)

LEMMA TypeInit == Init => TypeOK
<1> SUFFICES ASSUME Init PROVE TypeOK
  OBVIOUS
<1> USE ConstantsAssumption DEF Init, Absent
<1>0. TypeFlags
  BY DEF TypeFlags
<1>1. TypeSender /\ TypeBudget /\ TypeToss
  BY DEF TypeSender, TypeBudget, TypeToss
<1>2. TypeSession
  BY DEF TypeSession, Nowhere
<1>3. TypeChannels
  BY DEF TypeChannels, Nowhere, Nothing
<1>4. TypeReceiver
  BY DEF TypeReceiver, Unhashed, NoHash
<1>5. TypeSpool
  BY DEF TypeSpool, Nowhere
<1>6. TypeChecking
  BY DEF TypeChecking, NoCheck
<1> QED
  BY <1>0, <1>1, <1>2, <1>3, <1>4, <1>5, <1>6 DEF TypeOK

\* A group whose variables do not change keeps its type.
LEMMA TypeUnchanged ==
    /\ TypeSender /\ UNCHANGED sender => TypeSender'
    /\ TypeSession /\ UNCHANGED session => TypeSession'
    /\ TypeChannels /\ UNCHANGED channels => TypeChannels'
    /\ TypeReceiver /\ UNCHANGED receiver => TypeReceiver'
    /\ TypeSpool /\ UNCHANGED spool => TypeSpool'
    /\ TypeChecking /\ UNCHANGED checking => TypeChecking'
    /\ TypeToss /\ UNCHANGED toss => TypeToss'
    /\ TypeBudget /\ UNCHANGED budget => TypeBudget'
<1>1. TypeSender /\ UNCHANGED sender => TypeSender'
  BY DEF TypeSender, sender
<1>2. TypeSession /\ UNCHANGED session => TypeSession'
  BY DEF TypeSession, session
<1>3. TypeChannels /\ UNCHANGED channels => TypeChannels'
  BY DEF TypeChannels, channels
<1>4. TypeReceiver /\ UNCHANGED receiver => TypeReceiver'
  BY DEF TypeReceiver, receiver
<1>5. TypeSpool /\ UNCHANGED spool => TypeSpool'
  BY DEF TypeSpool, spool
<1>6. TypeChecking /\ UNCHANGED checking => TypeChecking'
  BY DEF TypeChecking, checking
<1>7. TypeToss /\ UNCHANGED toss => TypeToss'
  BY DEF TypeToss, toss
<1>8. TypeBudget /\ UNCHANGED budget => TypeBudget'
  BY DEF TypeBudget, budget
<1> QED
  BY <1>1, <1>2, <1>3, <1>4, <1>5, <1>6, <1>7, <1>8

LEMMA TypeStep == TypeOK /\ [Next]_vars => TypeOK'
<1> SUFFICES ASSUME TypeOK, [Next]_vars PROVE TypeOK'
  OBVIOUS
<1> USE ConstantsAssumption DEF Absent
<1>0. /\ TypeFlags /\ TypeSender /\ TypeSession /\ TypeChannels /\ TypeReceiver
      /\ TypeSpool /\ TypeChecking /\ TypeToss /\ TypeBudget
  BY DEF TypeOK
<1>1. ASSUME NEW p \in Pkts, Submit(p) PROVE TypeOK'
  <2>1. TypeFlags'
    BY <1>0, <1>1 DEF Submit, TypeFlags, session, checking, mode
  <2>2. TypeSender'
    BY <1>0, <1>1 DEF Submit, TypeSender
  <2>3. UNCHANGED <<session, channels, receiver, spool, checking, toss, budget>>
    BY <1>1 DEF Submit, session, channels, receiver, spool, checking, toss, budget
  <2> QED
    BY <1>0, <2>1, <2>2, <2>3, TypeUnchanged DEF TypeOK
<1>2. ASSUME Connect PROVE TypeOK'
  <2>1. TypeFlags'
    BY <1>0, <1>2 DEF Connect, TypeFlags, session, checking, mode
  <2>2. TypeSession'
    BY <1>0, <1>2 DEF Connect, Offerable, TypeSession, TypeSender
  <2>3. TypeChannels'
    BY <1>0, <1>2 DEF Connect, Offerable, TypeChannels, TypeSession, TypeSender
  <2>4. TypeChecking'
    BY <1>0, <1>2 DEF Connect, TypeChecking
  <2>5. UNCHANGED <<sender, receiver, spool, toss, budget>>
    BY <1>2 DEF Connect, sender, receiver, spool, toss, budget
  <2> QED
    BY <1>0, <2>1, <2>2, <2>3, <2>4, <2>5, TypeUnchanged DEF TypeOK
<1>3. ASSUME Offer PROVE TypeOK'
  <2>1. TypeFlags'
    BY <1>0, <1>3 DEF Offer, TypeFlags, session, checking, mode
  <2>2. TypeSession'
    BY <1>0, <1>3 DEF Offer, Offerable, TypeSession, TypeSender
  <2>3. TypeChannels'
    BY <1>0, <1>3 DEF Offer, Offerable, TypeChannels, TypeSender
  <2>4. UNCHANGED <<sender, receiver, spool, checking, toss, budget>>
    BY <1>3 DEF Offer, sender, receiver, spool, checking, toss, budget
  <2> QED
    BY <1>0, <2>1, <2>2, <2>3, <2>4, TypeUnchanged DEF TypeOK
<1>4. ASSUME NEW p \in Pkts, RecvFreq(p) PROVE TypeOK'
  <2>1. TypeFlags'
    BY <1>0, <1>4 DEF RecvFreq, TypeFlags, session, checking, mode
  <2>2. TypeSession'
    BY <1>0, <1>4 DEF RecvFreq, TypeSession, TypeChannels
  <2>3. TypeChannels'
    BY <1>0, <1>4 DEF RecvFreq, TypeChannels
  <2>4. UNCHANGED <<sender, receiver, spool, checking, toss, budget>>
    BY <1>4 DEF RecvFreq, sender, receiver, spool, checking, toss, budget
  <2> QED
    BY <1>0, <2>1, <2>2, <2>3, <2>4, TypeUnchanged DEF TypeOK
<1>5. ASSUME NEW p \in Pkts, SendFile(p) PROVE TypeOK'
  <2>1. TypeFlags'
    BY <1>0, <1>5 DEF SendFile, TypeFlags, session, checking, mode
  <2>2. TypeSession'
    <3>1. queue[p] \in 0..Size[p] /\ ChunkLen(p, queue[p]) \in {0, 1}
      BY <1>0, <1>5 DEF SendFile, ChunkLen, TypeSession
    <3>2. queue[p] + ChunkLen(p, queue[p]) \in 0..Size[p]
      BY <1>0, <1>5, <3>1 DEF ChunkLen
    <3>3. \E n \in Absent..Size[p] : queue' = [queue EXCEPT ![p] = n]
      <4>1. \/ queue' = [queue EXCEPT ![p] = Absent]
            \/ queue' = [queue EXCEPT ![p] = queue[p] + ChunkLen(p, queue[p])]
        BY <1>5 DEF SendFile
      <4> QED
        BY <3>2, <4>1
    <3>4. offered' \subseteq Pkts /\ txfd' \subseteq Pkts
      BY <1>0, <1>5 DEF SendFile, TypeSession
    <3> QED
      BY <1>0, <3>3, <3>4 DEF TypeSession
  <2>3. TypeChannels'
    BY <1>0, <1>5 DEF SendFile, ChunkLen, TypeChannels, TypeSession
  <2>4. UNCHANGED <<sender, receiver, spool, checking, toss, budget>>
    BY <1>5 DEF SendFile, sender, receiver, spool, checking, toss, budget
  <2> QED
    BY <1>0, <2>1, <2>2, <2>3, <2>4, TypeUnchanged DEF TypeOK
<1>6. ASSUME NEW p \in Pkts, RecvDone(p) PROVE TypeOK'
  <2>1. TypeFlags'
    BY <1>0, <1>6 DEF RecvDone, TypeFlags, session, checking, mode
  <2>2. TypeSender'
    BY <1>0, <1>6 DEF RecvDone, TypeSender
  <2>3. TypeChannels'
    BY <1>0, <1>6 DEF RecvDone, TypeChannels
  <2>4. UNCHANGED <<session, receiver, spool, checking, toss, budget>>
    BY <1>6 DEF RecvDone, session, receiver, spool, checking, toss, budget
  <2> QED
    BY <1>0, <2>1, <2>2, <2>3, <2>4, TypeUnchanged DEF TypeOK
<1>7. ASSUME NEW p \in Pkts, RecvInfo(p) PROVE TypeOK'
  <2>1. TypeFlags'
    BY <1>0, <1>7 DEF RecvInfo, TypeFlags, session, checking, mode
  <2>2. TypeChannels'
    BY <1>0, <1>7 DEF RecvInfo, TypeChannels
  <2>3. TypeReceiver'
    BY <1>0, <1>7 DEF RecvInfo, At, InfoStages, TypeReceiver
  <2>4. UNCHANGED <<sender, session, spool, checking, toss, budget>>
    BY <1>7 DEF RecvInfo, sender, session, spool, checking, toss, budget
  <2> QED
    BY <1>0, <2>1, <2>2, <2>3, <2>4, TypeUnchanged DEF TypeOK
<1>8. ASSUME StatSeen PROVE TypeOK'
  <2>1. TypeFlags'
    BY <1>0, <1>8 DEF StatSeen, TypeFlags, session, checking, mode
  <2>2. TypeChannels'
    BY <1>0, <1>8 DEF StatSeen, Idle, InfoStages, FileStages, TypeChannels, TypeReceiver
  <2>3. TypeReceiver'
    BY <1>0, <1>8 DEF StatSeen, At, Idle, InfoStages, FileStages, TypeReceiver
  <2>4. UNCHANGED <<sender, session, spool, checking, toss, budget>>
    BY <1>8 DEF StatSeen, sender, session, spool, checking, toss, budget
  <2> QED
    BY <1>0, <2>1, <2>2, <2>3, <2>4, TypeUnchanged DEF TypeOK
<1>9. ASSUME StatNock PROVE TypeOK'
  <2>1. TypeFlags'
    BY <1>0, <1>9 DEF StatNock, TypeFlags, session, checking, mode
  <2>2. TypeReceiver'
    BY <1>0, <1>9 DEF StatNock, At, Idle, InfoStages, FileStages, TypeReceiver
  <2>3. UNCHANGED <<sender, session, channels, spool, checking, toss, budget>>
    BY <1>9 DEF StatNock, sender, session, channels, spool, checking, toss, budget
  <2> QED
    BY <1>0, <2>1, <2>2, <2>3, TypeUnchanged DEF TypeOK
<1>10. ASSUME StatPart PROVE TypeOK'
  <2>1. TypeFlags'
    BY <1>0, <1>10 DEF StatPart, TypeFlags, session, checking, mode
  <2>2. TypeChannels'
    <3>1. handler.pkt \in Pkts
      BY <1>0, <1>10 DEF StatPart, Idle, TypeReceiver
    <3>2. PartLen(handler.pkt) \in 0..Size[handler.pkt]
      BY <1>0, <3>1 DEF PartLen, TypeSpool
    <3>3. \/ freqs' = freqs
          \/ \E n \in 0..Size[handler.pkt] :
                freqs' = [freqs EXCEPT ![handler.pkt] = n]
      <4>1. \/ freqs' = freqs
            \/ freqs' = [freqs EXCEPT ![handler.pkt] = PartLen(handler.pkt)]
        BY <1>10 DEF StatPart
      <4> QED
        BY <3>2, <4>1
    <3>4. infos' = infos /\ dones' = dones /\ wire' = wire
      BY <1>10 DEF StatPart
    <3>5. /\ freqs' \in [Pkts -> Int]
          /\ \A q \in Pkts : freqs'[q] \in Absent..Size[q]
      <4> DEFINE r == handler.pkt
      <4>1. r \in Pkts /\ freqs \in [Pkts -> Int]
        BY <1>0, <3>1 DEF TypeChannels
      <4>2. \A q \in Pkts : freqs[q] \in Absent..Size[q]
        BY <1>0 DEF TypeChannels
      <4>3. freqs' = freqs \/ \E n \in 0..Size[r] : freqs' = [freqs EXCEPT ![r] = n]
        BY <3>3
      <4> HIDE DEF r
      <4> QED
        BY <4>1, <4>2, <4>3
    <3> QED
      BY <1>0, <3>4, <3>5 DEF TypeChannels
  <2>3. TypeReceiver'
    BY <1>0, <1>10 DEF StatPart, TypeReceiver
  <2>4. TypeBudget'
    BY <1>0, <1>10 DEF StatPart, Fault, TypeBudget
  <2>5. UNCHANGED <<sender, session, spool, checking, toss>>
    BY <1>10 DEF StatPart, sender, session, spool, checking, toss
  <2> QED
    BY <1>0, <2>1, <2>2, <2>3, <2>4, <2>5, TypeUnchanged DEF TypeOK
<1>11. ASSUME NEW p \in Pkts, RecvFile(p) PROVE TypeOK'
  <2>1. TypeFlags'
    BY <1>0, <1>11 DEF RecvFile, TypeFlags, session, checking, mode
  <2>2. TypeChannels'
    BY <1>0, <1>11 DEF RecvFile, TypeChannels
  <2> DEFINE off == Head(wire[p])
             end == off + ChunkLen(p, off)
  <2>a. off \in 0..Size[p] /\ ChunkLen(p, off) \in {0, 1} /\ end \in 0..Size[p]
    <3>1. off = wire[p][1] /\ 1 \in 1..Len(wire[p])
      BY <1>0, <1>11 DEF RecvFile, TypeChannels
    <3>2. off \in Nat /\ off <= Size[p]
      BY <1>0, <3>1 DEF TypeChannels
    <3> QED
      BY <1>0, <3>2 DEF ChunkLen
  <2>3. TypeReceiver'
    <3>1. HasherAt(p, off) \in [start : Int, next : Int]
      BY <1>0, <2>a DEF HasherAt, NoHash, TypeReceiver
    <3>2. Hashed(HasherAt(p, off), off, ChunkLen(p, off)) \in [start : Int, next : Int]
      BY <2>a, <3>1 DEF Hashed, NoHash
    <3> HIDE DEF off, end
    <3>3. /\ rxfd' \subseteq Pkts /\ infosTheir' \subseteq Pkts
          /\ hasher' \in [Pkts -> [start : Int, next : Int]]
      <4>1. infosTheir' = infosTheir /\ rxfd' \subseteq rxfd \cup {p}
        BY <1>11 DEF RecvFile
      <4>2. \/ hasher' = hasher
            \/ hasher' = [hasher EXCEPT ![p] =
                 Hashed(HasherAt(p, Head(wire[p])), Head(wire[p]),
                        ChunkLen(p, Head(wire[p])))]
        BY <1>11 DEF RecvFile
      <4>3. \/ hasher' = hasher
            \/ \E h \in [start : Int, next : Int] :
                  hasher' = [hasher EXCEPT ![p] = h]
        BY <3>2, <4>2 DEF off
      <4> QED
        BY <1>0, <4>1, <4>3 DEF TypeReceiver
    <3>4. handler' = Idle \/ handler' = At("sync", p)
      BY <1>0, <1>11 DEF RecvFile
    <3> QED
      BY <3>3, <3>4 DEF TypeReceiver, At, FileStages
  <2>4. TypeSpool'
    <3>1. PartLen(p) \in 0..Size[p]
      BY <1>0 DEF PartLen, TypeSpool
    <3>2. part' = part \/ \E n \in 0..Size[p] : part' = [part EXCEPT ![p] = n]
      BY <1>11, <2>a, <3>1 DEF RecvFile
    <3>3. /\ synced' \subseteq synced /\ nock' = nock /\ rx' = rx
          /\ solid' = solid /\ undo' = undo
      BY <1>11 DEF RecvFile
    <3> QED
      BY <1>0, <3>2, <3>3 DEF TypeSpool
  <2>5. UNCHANGED <<sender, session, checking, toss, budget>>
    BY <1>11 DEF RecvFile, sender, session, checking, toss, budget
  <2> QED
    BY <1>0, <2>1, <2>2, <2>3, <2>4, <2>5, TypeUnchanged DEF TypeOK
<1>12. ASSUME SyncFile PROVE TypeOK'
  <2>1. TypeFlags'
    BY <1>0, <1>12 DEF SyncFile, TypeFlags, session, checking, mode
  <2>2. TypeReceiver'
    BY <1>0, <1>12 DEF SyncFile, At, Idle, NoHash, FileStages, InfoStages, TypeReceiver
  <2>3. TypeSpool'
    BY <1>0, <1>12 DEF SyncFile, Idle, TypeSpool, TypeReceiver
  <2>4. TypeBudget'
    BY <1>0, <1>12 DEF SyncFile, Fault, TypeBudget
  <2>5. UNCHANGED <<sender, session, channels, checking, toss>>
    BY <1>12 DEF SyncFile, sender, session, channels, checking, toss
  <2> QED
    BY <1>0, <2>1, <2>2, <2>3, <2>4, <2>5, TypeUnchanged DEF TypeOK
<1>13. ASSUME RenameRx PROVE TypeOK'
  <2>1. TypeFlags'
    BY <1>0, <1>13 DEF RenameRx, Rename, TypeFlags, session, checking, mode
  <2>2. TypeReceiver'
    BY <1>0, <1>13 DEF RenameRx, Rename, At, Idle, FileStages, InfoStages, TypeReceiver
  <2>3. TypeSpool'
    BY <1>0, <1>13 DEF RenameRx, Rename, UndoRename, Idle, Absent, TypeSpool, TypeReceiver
  <2>4. TypeBudget'
    BY <1>0, <1>13 DEF RenameRx, Rename, Fault, TypeBudget
  <2>5. UNCHANGED <<sender, session, channels, checking, toss>>
    BY <1>13 DEF RenameRx, Rename, sender, session, channels, checking, toss
  <2> QED
    BY <1>0, <2>1, <2>2, <2>3, <2>4, <2>5, TypeUnchanged DEF TypeOK
<1>14. ASSUME RenameNock PROVE TypeOK'
  <2>1. TypeFlags'
    BY <1>0, <1>14 DEF RenameNock, Rename, TypeFlags, session, checking, mode
  <2>2. TypeReceiver'
    BY <1>0, <1>14 DEF RenameNock, Rename, At, Idle, FileStages, InfoStages, TypeReceiver
  <2>3. TypeSpool'
    <3>1. handler.pkt \in Pkts
      BY <1>0, <1>14 DEF RenameNock, Rename, Idle, TypeReceiver
    <3> QED
      BY <1>0, <1>14, <3>1 DEF RenameNock, Rename, UndoRename, TypeSpool
  <2>4. TypeBudget'
    BY <1>0, <1>14 DEF RenameNock, Rename, Fault, TypeBudget
  <2>5. UNCHANGED <<sender, session, channels, checking, toss>>
    BY <1>14 DEF RenameNock, Rename, sender, session, channels, checking, toss
  <2> QED
    BY <1>0, <2>1, <2>2, <2>3, <2>4, <2>5, TypeUnchanged DEF TypeOK
<1>15. ASSUME DirSyncRx PROVE TypeOK'
  <2>1. TypeFlags'
    BY <1>0, <1>15 DEF DirSyncRx, TypeFlags, session, checking, mode
  <2>2. TypeChannels'
    BY <1>0, <1>15 DEF DirSyncRx, Idle, TypeChannels, TypeReceiver
  <2>3. TypeReceiver'
    BY <1>0, <1>15 DEF DirSyncRx, TypeReceiver
  <2>4. TypeSpool'
    BY <1>0, <1>15 DEF DirSyncRx, Durable, TypeSpool
  <2>5. TypeBudget'
    BY <1>0, <1>15 DEF DirSyncRx, Fault, TypeBudget
  <2>6. UNCHANGED <<sender, session, checking, toss>>
    BY <1>15 DEF DirSyncRx, sender, session, checking, toss
  <2> QED
    BY <1>0, <2>1, <2>2, <2>3, <2>4, <2>5, <2>6, TypeUnchanged DEF TypeOK
<1>16. ASSUME DirSyncNock PROVE TypeOK'
  <2>1. TypeFlags'
    BY <1>0, <1>16 DEF DirSyncNock, TypeFlags, session, checking, mode
  <2>2. TypeReceiver'
    BY <1>0, <1>16 DEF DirSyncNock, TypeReceiver
  <2>3. TypeSpool'
    BY <1>0, <1>16 DEF DirSyncNock, Durable, TypeSpool
  <2>4. TypeChecking'
    BY <1>0, <1>16 DEF DirSyncNock, Idle, TypeChecking, TypeReceiver
  <2>5. TypeBudget'
    BY <1>0, <1>16 DEF DirSyncNock, Fault, TypeBudget
  <2>6. UNCHANGED <<sender, session, channels, toss>>
    BY <1>16 DEF DirSyncNock, sender, session, channels, toss
  <2> QED
    BY <1>0, <2>1, <2>2, <2>3, <2>4, <2>5, <2>6, TypeUnchanged DEF TypeOK
<1>17. ASSUME Scan PROVE TypeOK'
  <2>1. TypeFlags'
    BY <1>0, <1>17 DEF Scan, TypeFlags, session, checking, mode
  <2>2. TypeChecking'
    BY <1>0, <1>17 DEF Scan, TypeChecking, TypeSpool
  <2>3. UNCHANGED <<sender, session, channels, receiver, spool, toss, budget>>
    BY <1>17 DEF Scan, sender, session, channels, receiver, spool, toss, budget
  <2> QED
    BY <1>0, <2>1, <2>2, <2>3, TypeUnchanged DEF TypeOK
<1>18. ASSUME NEW c \in Checkers, NEW p \in Pkts,
              NEW done \in {"open", "closed"}, CheckOpen(c, p, done) PROVE TypeOK'
  <2>1. TypeFlags'
    BY <1>0, <1>18 DEF CheckOpen, TypeFlags, session, checking, mode
  <2>2. TypeChecking'
    BY <1>0, <1>18 DEF CheckOpen, TypeChecking
  <2>3. UNCHANGED <<sender, session, channels, receiver, spool, toss, budget>>
    BY <1>18 DEF CheckOpen, sender, session, channels, receiver, spool, toss, budget
  <2> QED
    BY <1>0, <2>1, <2>2, <2>3, TypeUnchanged DEF TypeOK
<1>19. ASSUME NEW c \in Checkers, CheckRename(c) PROVE TypeOK'
  <2>1. TypeFlags'
    BY <1>0, <1>19 DEF CheckRename, TypeFlags, session, checking, mode
  <2>2. TypeSpool'
    BY <1>0, <1>19 DEF CheckRename, TypeSpool, TypeChecking
  <2>3. TypeChecking'
    BY <1>0, <1>19 DEF CheckRename, NoCheck, TypeChecking
  <2>4. UNCHANGED <<sender, session, channels, receiver, toss, budget>>
    BY <1>19 DEF CheckRename, sender, session, channels, receiver, toss, budget
  <2> QED
    BY <1>0, <2>1, <2>2, <2>3, <2>4, TypeUnchanged DEF TypeOK
<1>20. ASSUME NEW c \in Checkers, CheckSync(c) PROVE TypeOK'
  <2>1. TypeFlags'
    BY <1>0, <1>20 DEF CheckSync, TypeFlags, session, checking, mode
  <2>2. TypeChannels'
    BY <1>0, <1>20 DEF CheckSync, TypeChannels, TypeChecking
  <2>3. TypeSpool'
    BY <1>0, <1>20 DEF CheckSync, Durable, TypeSpool
  <2>4. TypeChecking'
    BY <1>0, <1>20 DEF CheckSync, NoCheck, TypeChecking
  <2>5. TypeBudget'
    BY <1>0, <1>20 DEF CheckSync, Fault, TypeBudget
  <2>6. UNCHANGED <<sender, session, receiver, toss>>
    BY <1>20 DEF CheckSync, sender, session, receiver, toss
  <2> QED
    BY <1>0, <2>1, <2>2, <2>3, <2>4, <2>5, <2>6, TypeUnchanged DEF TypeOK
<1>21. ASSUME NEW p \in Pkts, TossDeliver(p) PROVE TypeOK'
  <2>1. TypeFlags'
    BY <1>0, <1>21 DEF TossDeliver, TypeFlags, session, checking, mode
  <2>2. TypeToss'
    BY <1>0, <1>21 DEF TossDeliver, Counted, TypeToss
  <2>3. UNCHANGED <<sender, session, channels, receiver, spool, checking, budget>>
    BY <1>21 DEF TossDeliver, sender, session, channels, receiver, spool, checking, budget
  <2> QED
    BY <1>0, <2>1, <2>2, <2>3, TypeUnchanged DEF TypeOK
<1>22. ASSUME NEW p \in Pkts, TossSeen(p) PROVE TypeOK'
  <2>1. TypeFlags'
    BY <1>0, <1>22 DEF TossSeen, TypeFlags, session, checking, mode
  <2>2. TypeSpool'
    BY <1>0, <1>22 DEF TossSeen, Durable, TypeSpool
  <2>3. TypeToss'
    BY <1>0, <1>22 DEF TossSeen, TypeToss
  <2>4. UNCHANGED <<sender, session, channels, receiver, checking, budget>>
    BY <1>22 DEF TossSeen, sender, session, channels, receiver, checking, budget
  <2> QED
    BY <1>0, <2>1, <2>2, <2>3, <2>4, TypeUnchanged DEF TypeOK
<1>23. ASSUME NEW p \in Pkts, TossRemove(p) PROVE TypeOK'
  <2>1. TypeFlags'
    BY <1>0, <1>23 DEF TossRemove, TypeFlags, session, checking, mode
  <2>2. TypeSpool'
    BY <1>0, <1>23 DEF TossRemove, TypeSpool
  <2>3. TypeToss'
    BY <1>0, <1>23 DEF TossRemove, TypeToss
  <2>4. UNCHANGED <<sender, session, channels, receiver, checking, budget>>
    BY <1>23 DEF TossRemove, sender, session, channels, receiver, checking, budget
  <2> QED
    BY <1>0, <2>1, <2>2, <2>3, <2>4, TypeUnchanged DEF TypeOK
<1>24. ASSUME cuts' \in 0..MaxCuts, Hang PROVE TypeOK'
  <2>1. TypeFlags'
    BY <1>0, <1>24 DEF Hang, SessionOver, TypeFlags, session, checking, mode
  <2>2. TypeSession'
    BY <1>0, <1>24 DEF Hang, SessionOver, Nowhere, Absent, TypeSession
  <2>3. TypeChannels'
    BY <1>0, <1>24 DEF Hang, SessionOver, Nowhere, Nothing, Absent, TypeChannels
  <2>4. TypeReceiver'
    BY <1>0, <1>24 DEF Hang, SessionOver, Unhashed, NoHash, Absent, TypeReceiver
  <2>5. TypeChecking'
    BY <1>0, <1>24 DEF Hang, Orphaned, Deaf, TypeChecking
  <2>6. TypeBudget'
    BY <1>0, <1>24 DEF Hang, TypeBudget
  <2>7. UNCHANGED <<sender, spool, toss>>
    BY <1>24 DEF Hang, sender, spool, toss
  <2> QED
    BY <1>0, <2>1, <2>2, <2>3, <2>4, <2>5, <2>6, <2>7, TypeUnchanged DEF TypeOK
<1>25. ASSUME Kill PROVE TypeOK'
  <2>1. TypeFlags'
    BY <1>0, <1>25 DEF Kill, SessionOver, TypeFlags, session, checking, mode
  <2>2. TypeSession'
    BY <1>0, <1>25 DEF Kill, SessionOver, Nowhere, Absent, TypeSession
  <2>3. TypeChannels'
    BY <1>0, <1>25 DEF Kill, SessionOver, Nowhere, Nothing, Absent, TypeChannels
  <2>4. TypeReceiver'
    BY <1>0, <1>25 DEF Kill, SessionOver, Unhashed, NoHash, Absent, TypeReceiver
  <2>5. TypeChecking'
    BY <1>0, <1>25 DEF Kill, NoCheck, TypeChecking
  <2>6. TypeBudget'
    BY <1>0, <1>25 DEF Kill, TypeBudget
  <2>7. UNCHANGED <<sender, spool, toss>>
    BY <1>25 DEF Kill, sender, spool, toss
  <2> QED
    BY <1>0, <2>1, <2>2, <2>3, <2>4, <2>5, <2>6, <2>7, TypeUnchanged DEF TypeOK
<1>26. ASSUME Crash PROVE TypeOK'
  <2>1. TypeFlags'
    BY <1>0, <1>26 DEF Crash, SessionOver, TypeFlags, session, checking, mode
  <2>2. TypeSession'
    BY <1>0, <1>26 DEF Crash, SessionOver, Nowhere, Absent, TypeSession
  <2>3. TypeChannels'
    BY <1>0, <1>26 DEF Crash, SessionOver, Nowhere, Nothing, Absent, TypeChannels
  <2>4. TypeReceiver'
    BY <1>0, <1>26 DEF Crash, SessionOver, Unhashed, NoHash, Absent, TypeReceiver
  <2>5. TypeSpool'
    BY <1>0, <1>26 DEF Crash, Durable, Remains, Lengths, Absent, TypeSpool
  <2>6. TypeChecking'
    BY <1>0, <1>26 DEF Crash, NoCheck, TypeChecking
  <2>7. TypeToss'
    BY <1>0, <1>26 DEF Crash, TypeToss
  <2>8. TypeBudget'
    BY <1>0, <1>26 DEF Crash, TypeBudget
  <2>9. UNCHANGED <<sender>>
    BY <1>26 DEF Crash, sender
  <2> QED
    BY <1>0, <2>1, <2>2, <2>3, <2>4, <2>5, <2>6, <2>7, <2>8, <2>9, TypeUnchanged DEF TypeOK
<1>27. CASE UNCHANGED vars
  <2>1. TypeFlags'
    BY <1>0, <1>27 DEF vars, session, checking, mode, TypeFlags
  <2> QED
    BY <1>0, <1>27, <2>1, TypeUnchanged DEF vars, TypeOK
<1>28. CASE Hang /\ UNCHANGED cuts
  BY <1>0, <1>24, <1>28 DEF TypeBudget
<1>29. CASE Cut
  BY <1>0, <1>24, <1>29 DEF Cut, TypeBudget
<1> QED
  BY <1>1, <1>2, <1>3, <1>4, <1>5, <1>6, <1>7, <1>8, <1>9, <1>10, <1>11, <1>12, <1>13, <1>14, <1>15, <1>16, <1>17, <1>18, <1>19, <1>20, <1>21, <1>22, <1>23, <1>24, <1>25, <1>26, <1>27, <1>28, <1>29
     DEF Next, Receive, Checker, Tosser, OnlineDeadline, SendMissing

THEOREM TypeCorrect == Spec => []TypeOK
BY TypeInit, TypeStep, PTL DEF Spec

-----------------------------------------------------------------------------
(* Requests, transfers and .part files stay in step *)

LEMMA Types ==
    TypeOK => /\ TypeFlags /\ TypeSender /\ TypeSession /\ TypeChannels
              /\ TypeReceiver /\ TypeSpool /\ TypeChecking /\ TypeToss
              /\ TypeBudget
  BY DEF TypeOK

\* A packet nothing of which is under way continues its .part file.
LEMMA QuietContinues ==
    ASSUME NEW p \in Pkts, ~Streaming(p) PROVE Continues(p)
  BY DEF Streaming, Continues

LEMMA StreamFrame ==
    /\ OneStream
    /\ UNCHANGED <<up, offered, infos, freqs, queue, wire, infosTheir, handler, part>>
    => OneStream'
  BY DEF OneStream, Continues, Streaming, PartLen

\* Between sessions nothing is under way.
LEMMA StreamReset == ASSUME SessionOver PROVE OneStream'
<1>1. ASSUME NEW p \in Pkts PROVE /\ freqs'[p] = Absent /\ queue'[p] = Absent
                                  /\ wire'[p] = <<>>
  BY DEF SessionOver, Nowhere, Nothing
<1>2. \A p \in Pkts : Continues(p)'
  BY <1>1 DEF Continues, Absent
<1>3. \A p \in Pkts : ~Streaming(p)'
  BY <1>1 DEF Streaming
<1> QED
  BY <1>2, <1>3 DEF OneStream, SessionOver

LEMMA StreamInit == Init => OneStream
<1> SUFFICES ASSUME Init PROVE OneStream
  OBVIOUS
<1>1. ASSUME NEW p \in Pkts PROVE /\ freqs[p] = Absent /\ queue[p] = Absent
                                  /\ wire[p] = <<>>
  BY DEF Init, Nowhere, Nothing
<1>2. \A p \in Pkts : Continues(p)
  BY <1>1, QuietContinues DEF Streaming
<1>3. \A p \in Pkts : ~Streaming(p)
  BY <1>1 DEF Streaming
<1> QED
  BY <1>2, <1>3 DEF OneStream, Init

\* A step that concerns one packet only has to keep its own stream.
LEMMA StreamOne ==
    ASSUME OneStream, NEW p \in Pkts,
           UNCHANGED <<up, offered>>, infos' \subseteq infos,
           \A q \in Pkts \ {p} :
              /\ freqs'[q] = freqs[q] /\ queue'[q] = queue[q]
              /\ wire'[q] = wire[q] /\ part'[q] = part[q],
           infosTheir \ {p} \subseteq infosTheir',
           Continues(p)',
           Streaming(p)' => /\ p \in offered /\ p \in infosTheir'
                            /\ p \notin infos' /\ handler'.pkt # p,
           \/ handler' = Idle
           \/ handler' = handler /\ handler.pkt # p
           \/ /\ handler'.pkt = p /\ p \in offered
              /\ p \in infosTheir' /\ p \notin infos'
    PROVE  OneStream'
<1> USE ConstantsAssumption
<1>1. \A q \in Pkts : Continues(q)'
  <2> SUFFICES ASSUME NEW q \in Pkts, q # p PROVE Continues(q)'
    OBVIOUS
  <2>1. Continues(q)
    BY DEF OneStream
  <2> QED
    BY <2>1 DEF Continues, PartLen
<1>2. ASSUME NEW q \in Pkts, Streaming(q)'
      PROVE  /\ q \in offered' /\ q \in infosTheir'
             /\ q \notin infos' /\ handler'.pkt # q
  <2>1. CASE q = p
    BY <1>2, <2>1
  <2>2. CASE q # p
    <3>1. Streaming(q)
      BY <1>2, <2>2 DEF Streaming
    <3>2. /\ q \in offered /\ q \in infosTheir /\ q \notin infos
          /\ handler.pkt # q
      BY <3>1 DEF OneStream
    <3>3. handler'.pkt # q
      BY <2>2, <3>2 DEF Idle
    <3> QED
      BY <2>2, <3>2, <3>3
  <2> QED
    BY <2>1, <2>2
<1>3. infos' \subseteq offered' /\ (~up' => offered' = {})
  BY DEF OneStream
<1>4. handler' # Idle => /\ handler'.pkt \in offered' /\ handler'.pkt \in infosTheir'
                        /\ handler'.pkt \notin infos'
  <2>1. CASE handler' = handler /\ handler.pkt # p /\ handler # Idle
    <3>1. /\ handler.pkt \in offered /\ handler.pkt \in infosTheir
          /\ handler.pkt \notin infos
      BY <2>1 DEF OneStream
    <3> QED
      BY <2>1, <3>1
  <2> QED
    BY <2>1
<1> QED
  BY <1>1, <1>2, <1>3, <1>4 DEF OneStream

LEMMA StreamStep == TypeOK /\ OneStream /\ [Next]_vars => OneStream'
<1> SUFFICES ASSUME TypeOK, OneStream, [Next]_vars PROVE OneStream'
  OBVIOUS
<1> USE ConstantsAssumption
<1>0. /\ TypeSession /\ TypeChannels /\ TypeReceiver /\ TypeSpool
  BY Types
<1>1. ASSUME NEW p \in Pkts, Submit(p) \/ RecvDone(p) \/ Tosser(p)
      PROVE  OneStream'
  <2>1. UNCHANGED <<up, offered, infos, freqs, queue, wire, infosTheir, handler, part>>
    BY <1>1 DEF Submit, RecvDone, Tosser, TossDeliver, TossSeen, TossRemove,
       session, channels, receiver, spool
  <2> QED
    BY <2>1, StreamFrame
<1>2. ASSUME Scan \/ \E c \in Checkers : Checker(c) PROVE OneStream'
  <2>1. UNCHANGED <<up, offered, infos, freqs, queue, wire, infosTheir, handler, part>>
    BY <1>2 DEF Scan, Checker, CheckOpen, CheckRename, CheckSync,
       session, channels, receiver, spool
  <2> QED
    BY <2>1, StreamFrame
<1>3. ASSUME Hang \/ Kill \/ Crash PROVE OneStream'
  BY <1>3, StreamReset DEF Hang, Kill, Crash
<1>4. CASE UNCHANGED vars
  BY <1>4, StreamFrame DEF vars, session, channels, receiver, spool
<1>5. ASSUME Connect \/ Offer PROVE OneStream'
  <2>1. /\ UNCHANGED <<freqs, queue, wire, infosTheir, handler, part>>
        /\ up'
        /\ infos' = infos \cup Offerable
        /\ offered' = offered \cup Offerable
    <3>1. CASE Offer
      BY <3>1 DEF Offer, receiver, spool
    <3>2. CASE Connect
      BY <3>2 DEF Connect, receiver, spool, OneStream
    <3> QED
      BY <1>5, <3>1, <3>2
  <2> QED
    BY <2>1 DEF OneStream, Continues, Streaming, PartLen, Offerable
<1>6. ASSUME NEW p \in Pkts, RecvInfo(p) PROVE OneStream'
  <2>1. /\ UNCHANGED <<up, offered, freqs, queue, wire, part>>
        /\ handler = Idle /\ p \in infos /\ infos' = infos \ {p}
        /\ infosTheir \subseteq infosTheir'
        /\ \/ handler' = Idle
           \/ handler' = At("seen", p) /\ p \in infosTheir'
    BY <1>6 DEF RecvInfo, session, spool
  <2>2. ~Streaming(p) /\ p \in offered
    BY <2>1 DEF OneStream
  <2>3. ~Streaming(p)'
    BY <2>1, <2>2 DEF Streaming
  <2>4. Continues(p)'
    BY <2>3 DEF Streaming, Continues
  <2> QED
    BY <2>1, <2>2, <2>3, <2>4, StreamOne DEF At
<1>7. ASSUME NEW p \in Pkts, handler.pkt = p, StatSeen \/ StatNock PROVE OneStream'
  <2>1. /\ UNCHANGED <<up, offered, infos, freqs, queue, wire, infosTheir, part>>
        /\ handler.at \in {"seen", "nock"}
        /\ handler' = Idle \/ handler' = At("nock", p) \/ handler' = At("part", p)
    BY <1>7 DEF StatSeen, StatNock, sender, session, channels, spool
  <2>2. /\ ~Streaming(p)
        /\ p \in offered /\ p \in infosTheir /\ p \notin infos
    BY <1>7, <2>1 DEF OneStream, Idle
  <2>3. ~Streaming(p)'
    BY <2>1, <2>2 DEF Streaming
  <2>4. Continues(p)'
    BY <2>3 DEF Streaming, Continues
  <2>5. handler' = Idle \/ handler'.pkt = p
    BY <2>1 DEF At
  <2> QED
    BY <2>1, <2>2, <2>3, <2>4, <2>5, StreamOne
<1>8. ASSUME NEW p \in Pkts, handler.pkt = p, StatPart PROVE OneStream'
  <2>1. /\ UNCHANGED <<up, offered, infos, queue, wire, infosTheir, part>>
        /\ handler.at = "part" /\ handler' = Idle
        /\ freqs' = [freqs EXCEPT ![p] = PartLen(p)] \/ freqs' = freqs
    BY <1>8 DEF StatPart, session, spool
  <2>2. /\ ~Streaming(p)
        /\ p \in offered /\ p \in infosTheir /\ p \notin infos
    BY <1>8, <2>1 DEF OneStream, Idle
  <2>3. handler'.pkt # p
    BY <2>1 DEF Idle
  <2>4. Continues(p)'
    <3>1. queue'[p] = Absent /\ wire'[p] = <<>>
      BY <2>1, <2>2 DEF Streaming
    <3>2. CASE freqs' = [freqs EXCEPT ![p] = PartLen(p)]
      <4>1. freqs'[p] = PartLen(p)'
        BY <1>0, <2>1, <3>2 DEF TypeChannels, PartLen
      <4> QED
        BY <3>1, <4>1 DEF Continues
    <3>3. CASE freqs' = freqs
      BY <2>2, <3>1, <3>3 DEF Continues, Streaming
    <3> QED
      BY <2>1, <3>2, <3>3
  <2>5. \A q \in Pkts \ {p} : freqs'[q] = freqs[q]
    BY <1>0, <2>1 DEF TypeChannels
  <2> QED
    BY <2>1, <2>2, <2>3, <2>4, <2>5, StreamOne
<1>9. ASSUME NEW p \in Pkts, RecvFreq(p) PROVE OneStream'
  <2>1. /\ UNCHANGED <<up, offered, infos, wire, infosTheir, part, handler>>
        /\ freqs[p] # Absent /\ freqs' = [freqs EXCEPT ![p] = Absent]
        /\ queue' = [queue EXCEPT ![p] = freqs[p]] \/ queue' = queue
    BY <1>9 DEF RecvFreq, receiver, spool
  <2>2. Streaming(p)
    BY <2>1 DEF Streaming
  <2>3. /\ p \in offered /\ p \in infosTheir /\ p \notin infos
        /\ handler.pkt # p
        /\ freqs[p] = PartLen(p) /\ queue[p] = Absent /\ wire[p] = <<>>
    BY <2>1, <2>2 DEF OneStream, Continues
  <2>4. freqs'[p] = Absent /\ (queue'[p] = PartLen(p)' \/ queue'[p] = Absent)
    BY <1>0, <2>1, <2>3 DEF TypeChannels, TypeSession, PartLen
  <2>5. Continues(p)'
    <3>1. Len(wire'[p]) = 0
      BY <2>1, <2>3
    <3>2. PartLen(p)' \in Int
      BY <1>0, <2>1 DEF TypeSpool, PartLen
    <3> QED
      BY <3>1, <3>2, <2>4 DEF Continues
  <2>6. \A q \in Pkts \ {p} : freqs'[q] = freqs[q] /\ queue'[q] = queue[q]
    BY <1>0, <2>1 DEF TypeChannels, TypeSession
  <2> QED
    BY <2>1, <2>3, <2>5, <2>6, StreamOne
<1>10. ASSUME NEW p \in Pkts, SendFile(p) PROVE OneStream'
  <2> DEFINE off == queue[p]
             end == off + ChunkLen(p, off)
  <2>1. /\ UNCHANGED <<up, offered, infos, freqs, infosTheir, part, handler>>
        /\ off # Absent
        /\ wire' = [wire EXCEPT ![p] = Append(@, off)]
        /\ \/ end = Size[p] /\ queue' = [queue EXCEPT ![p] = Absent]
           \/ end # Size[p] /\ queue' = [queue EXCEPT ![p] = end]
    BY <1>10 DEF SendFile, receiver, spool
  <2>2. Streaming(p) /\ Continues(p)
    BY <2>1 DEF Streaming, OneStream
  <2>3. /\ p \in offered /\ p \in infosTheir /\ p \notin infos
        /\ handler.pkt # p /\ freqs[p] = Absent
        /\ off = PartLen(p) + Len(wire[p])
        /\ Len(wire[p]) > 0 => off < Size[p]
    BY <2>1, <2>2 DEF OneStream, Continues
  <2>4. /\ off \in Nat /\ off <= Size[p] /\ Size[p] \in Nat
        /\ PartLen(p) \in Nat /\ Len(wire[p]) \in Nat
        /\ wire[p] \in Seq(Nat)
    BY <1>0, <2>1 DEF TypeSession, TypeSpool, TypeChannels, PartLen, Absent
  <2>5. /\ wire'[p] = Append(wire[p], off)
        /\ Len(wire'[p]) = Len(wire[p]) + 1
        /\ \A i \in 1..Len(wire[p]) : wire'[p][i] = wire[p][i]
        /\ wire'[p][Len(wire[p]) + 1] = off
    BY <1>0, <2>1, <2>4 DEF TypeChannels
  <2>6. queue'[p] = Absent \/ (queue'[p] = off + 1 /\ off + 1 < Size[p])
    BY <1>0, <2>1, <2>4 DEF TypeSession, ChunkLen
  <2> HIDE DEF off, end
  <2>7. UNCHANGED PartLen(p)
    BY <2>1 DEF PartLen
  <2>8. Continues(p)'
    <3>1. ASSUME NEW i \in 1..Len(wire'[p]) PROVE wire'[p][i] = PartLen(p)' + i - 1
      <4>1. CASE i = Len(wire[p]) + 1
        BY <4>1, <2>3, <2>4, <2>5, <2>7
      <4>2. CASE i \in 1..Len(wire[p])
        BY <4>2, <2>2, <2>5, <2>7 DEF Continues
      <4> QED
        BY <2>4, <2>5, <4>1, <4>2
    <3>2. Len(wire'[p]) > 1 => PartLen(p)' + Len(wire'[p]) <= Size[p]
      BY <2>3, <2>4, <2>5, <2>7
    <3>3. queue'[p] # Absent =>
            /\ queue'[p] = PartLen(p)' + Len(wire'[p])
            /\ queue'[p] < Size[p]
      BY <2>3, <2>4, <2>5, <2>6, <2>7
    <3>4. freqs'[p] = Absent
      BY <2>1, <2>3
    <3> QED
      BY <3>1, <3>2, <3>3, <3>4 DEF Continues
  <2>9. \A q \in Pkts \ {p} : wire'[q] = wire[q] /\ queue'[q] = queue[q]
    BY <1>0, <2>1 DEF TypeChannels, TypeSession
  <2> QED
    BY <2>1, <2>3, <2>8, <2>9, StreamOne
<1>11. ASSUME NEW p \in Pkts, RecvFile(p) PROVE OneStream'
  <2> DEFINE off == Head(wire[p])
             len == ChunkLen(p, off)
             end == off + len
  <2>1. /\ UNCHANGED <<up, offered, infos, freqs, queue, infosTheir>>
        /\ handler = Idle /\ wire[p] # <<>>
        /\ wire' = [wire EXCEPT ![p] = Tail(@)]
    BY <1>11 DEF RecvFile, sender, session
  <2>2. Streaming(p) /\ Continues(p)
    BY <2>1 DEF Streaming, OneStream
  <2>3. /\ p \in offered /\ p \in infosTheir /\ p \notin infos
        /\ freqs[p] = Absent
    BY <2>1, <2>2 DEF OneStream, Continues
  <2>4. /\ part' = [part EXCEPT ![p] = IF len > 0 /\ end > PartLen(p)
                                      THEN end ELSE PartLen(p)]
        /\ handler' = IF end = Size[p] THEN At("sync", p) ELSE Idle
    BY <1>11, <2>3 DEF RecvFile
  <2>5. /\ Size[p] \in Nat /\ PartLen(p) \in Nat /\ PartLen(p) <= Size[p]
        /\ wire[p] \in Seq(Nat) /\ Len(wire[p]) \in Nat /\ Len(wire[p]) > 0
        /\ queue[p] \in Int
    BY <1>0, <2>1 DEF TypeSession, TypeSpool, TypeChannels, PartLen, Absent
  <2>6. off = PartLen(p)
    BY <2>2, <2>5 DEF Continues
  <2>7. /\ wire'[p] = Tail(wire[p]) /\ Len(wire'[p]) = Len(wire[p]) - 1
        /\ \A i \in 1..Len(wire'[p]) : wire'[p][i] = wire[p][i + 1]
    BY <1>0, <2>1, <2>5 DEF TypeChannels
  <2>8. \/ /\ off < Size[p] /\ end = off + 1 /\ part'[p] = off + 1
           /\ PartLen(p)' = PartLen(p) + 1
        \/ /\ off = Size[p] /\ end = Size[p] /\ PartLen(p)' = PartLen(p)
    BY <1>0, <2>4, <2>5, <2>6 DEF ChunkLen, TypeSpool, PartLen, Absent
  <2> HIDE DEF off, len, end
  <2>14. /\ Len(wire[p]) > 1 => off + Len(wire[p]) <= Size[p]
         /\ queue[p] # Absent => queue[p] = off + Len(wire[p]) /\ queue[p] < Size[p]
    BY <2>2, <2>5, <2>6 DEF Continues
  <2>9. ASSUME off = Size[p] \/ end = Size[p]
        PROVE  Len(wire'[p]) = 0 /\ queue'[p] = Absent
    <3>1. off + 1 >= Size[p]
      BY <2>5, <2>6, <2>8, <2>9
    <3>2. Len(wire[p]) = 1
      <4> DEFINE n == Len(wire[p])
      <4>1. n \in Nat /\ n > 0
        BY <2>5
      <4>2. ASSUME n > 1 PROVE FALSE
        BY <2>5, <2>6, <2>14, <3>1, <4>2
      <4> HIDE DEF n
      <4>3. n = 1
        BY <4>1, <4>2
      <4> QED
        BY <4>3 DEF n
    <3> QED
      BY <2>1, <2>5, <2>6, <2>7, <2>14, <3>1, <3>2
  <2>10. Continues(p)'
    <3>1. CASE off < Size[p] /\ PartLen(p)' = PartLen(p) + 1
      <4>1. ASSUME NEW i \in 1..Len(wire'[p]) PROVE wire'[p][i] = PartLen(p)' + i - 1
        BY <2>2, <2>5, <2>7, <3>1 DEF Continues
      <4>2. /\ Len(wire'[p]) > 1 => PartLen(p)' + Len(wire'[p]) <= Size[p]
            /\ queue'[p] # Absent =>
                 /\ queue'[p] = PartLen(p)' + Len(wire'[p])
                 /\ Len(wire'[p]) > 0 => queue'[p] < Size[p]
        BY <2>1, <2>5, <2>6, <2>7, <2>14, <3>1
      <4> QED
        BY <2>1, <2>3, <4>1, <4>2 DEF Continues
    <3>2. CASE off = Size[p]
      <4>1. freqs'[p] = Absent /\ queue'[p] = Absent /\ Len(wire'[p]) = 0
        BY <2>1, <2>3, <2>9, <3>2
      <4> QED
        BY <4>1 DEF Continues
    <3> QED
      BY <2>8, <3>1, <3>2
  <2>11. handler' = Idle \/ (handler'.pkt = p /\ end = Size[p])
    BY <2>4 DEF At
  <2>12. ~Streaming(p)' \/ handler'.pkt # p
    <3>1. CASE end = Size[p]
      <4>1. wire'[p] = <<>>
        <5>1. wire'[p] \in Seq(Nat) /\ Len(wire'[p]) = 0
          BY <2>5, <2>7, <2>9, <3>1
        <5> QED
          BY <5>1, EmptySeq
      <4> QED
        BY <2>1, <2>3, <2>9, <3>1, <4>1 DEF Streaming
    <3>2. CASE end # Size[p]
      BY <2>4, <3>2 DEF Idle
    <3> QED
      BY <3>1, <3>2
  <2>13. \A q \in Pkts \ {p} : wire'[q] = wire[q] /\ part'[q] = part[q]
    BY <1>0, <2>1, <2>4 DEF TypeChannels, TypeSpool
  <2> QED
    BY <2>1, <2>3, <2>10, <2>11, <2>12, <2>13, StreamOne
<1>12. ASSUME NEW p \in Pkts, handler.pkt = p,
              SyncFile \/ RenameRx \/ RenameNock \/ DirSyncRx \/ DirSyncNock
       PROVE  OneStream'
  <2>1. /\ UNCHANGED <<up, offered, infos, freqs, queue, wire>>
        /\ handler.at \in FileStages
        /\ handler' = Idle \/ (handler'.pkt = p /\ UNCHANGED infosTheir)
        /\ infosTheir' = infosTheir \/ infosTheir' = infosTheir \ {p}
        /\ part' = part \/ part' = [part EXCEPT ![p] = Absent]
    BY <1>12 DEF SyncFile, RenameRx, RenameNock, Rename, DirSyncRx, DirSyncNock,
       At, FileStages, session, channels
  <2>2. /\ ~Streaming(p)
        /\ p \in offered /\ p \in infosTheir /\ p \notin infos
    BY <1>12, <2>1 DEF OneStream, Idle, FileStages
  <2>3. ~Streaming(p)'
    BY <2>1, <2>2 DEF Streaming
  <2>4. Continues(p)'
    BY <2>3 DEF Streaming, Continues
  <2>5. \A q \in Pkts \ {p} : part'[q] = part[q]
    BY <1>0, <2>1 DEF TypeSpool
  <2> QED
    BY <2>1, <2>2, <2>3, <2>4, <2>5, StreamOne
<1>13. ASSUME handler.at \in InfoStages \cup FileStages PROVE handler.pkt \in Pkts
  BY <1>0, <1>13 DEF TypeReceiver, Idle, InfoStages, FileStages
<1>14. CASE Receive
  <2>1. CASE \E p \in Pkts : RecvInfo(p) \/ RecvFile(p)
    BY <2>1, <1>6, <1>11
  <2>2. CASE StatSeen \/ StatNock \/ StatPart
    <3>1. handler.at \in InfoStages
      BY <2>2 DEF StatSeen, StatNock, StatPart, InfoStages
    <3> QED
      BY <2>2, <3>1, <1>7, <1>8, <1>13
  <2>3. CASE SyncFile \/ RenameRx \/ RenameNock \/ DirSyncRx \/ DirSyncNock
    <3>1. handler.at \in FileStages
      BY <2>3 DEF SyncFile, RenameRx, RenameNock, Rename, DirSyncRx, DirSyncNock,
         FileStages
    <3> QED
      BY <2>3, <3>1, <1>12, <1>13
  <2> QED
    BY <1>14, <2>1, <2>2, <2>3 DEF Receive
<1> QED
  BY <1>1, <1>2, <1>3, <1>4, <1>5, <1>9, <1>10, <1>14
     DEF Next, OnlineDeadline, Cut, SendMissing

\* In every session each packet is requested at most once at a time, and what
\* is under way continues its .part file without gap or overlap: INFO, FREQ
\* and FILE of ProcessSP and the sender goroutine, for any packets and sizes.
THEOREM StreamCorrect == Spec => []OneStream
BY TypeCorrect, StreamInit, StreamStep, PTL DEF Spec

LEMMA HeadIsEnd ==
    ASSUME TypeOK, OneStream, NEW p \in Pkts, RecvFile(p)
    PROVE  Head(wire[p]) = PartLen(p)
<1>1. wire[p] # <<>> /\ wire[p] \in Seq(Nat)
  BY Types DEF RecvFile, TypeChannels
<1>2. Continues(p) /\ PartLen(p) \in Int
  BY Types DEF OneStream, TypeSpool, PartLen
<1> QED
  BY <1>1, <1>2 DEF Continues

\* FILE chunks extend the .part file where it ends, for any packets and sizes.
THEOREM AppendsOnly == Spec => AppendOnly
<1>1. TypeOK /\ OneStream /\ [Next]_vars =>
        [\A p \in Pkts : RecvFile(p) /\ p \in infosTheir
                          => Head(wire[p]) = PartLen(p)]_vars
  BY HeadIsEnd
<1> QED
  BY <1>1, TypeCorrect, StreamCorrect, PTL DEF Spec, AppendOnly

-----------------------------------------------------------------------------
(***************************************************************************)
(* Custody.  Keeping is inductive relative to TypeOK and OneStream.  Each  *)
(* of its conjuncts has a lemma of its own, with a case for every action   *)
(* that writes the variables it is about; the first lemmas say which.      *)
(***************************************************************************)
-----------------------------------------------------------------------------
(* Which actions write what *)

LEMMA DiskWriters ==
    [Next]_vars =>
        \/ UNCHANGED <<part, synced, nock, rx, solid, delivered>>
        \/ \E p \in Pkts : RecvFile(p) \/ TossDeliver(p) \/ TossRemove(p)
        \/ SyncFile \/ RenameRx \/ RenameNock
        \/ \E c \in Checkers : CheckRename(c)
        \/ Crash
<1> USE DEF spool, toss
<1> SUFFICES ASSUME [Next]_vars PROVE DiskWriters!2
  OBVIOUS
<1>1. ASSUME NEW p \in Pkts,
             Submit(p) \/ RecvFreq(p) \/ SendFile(p) \/ RecvDone(p) \/ RecvInfo(p) \/ TossSeen(p)
      PROVE  UNCHANGED <<part, synced, nock, rx, solid, delivered>>
  BY <1>1 DEF Submit, RecvFreq, SendFile, RecvDone, RecvInfo, TossSeen
<1>2. ASSUME \/ Connect \/ Offer \/ Scan \/ StatSeen \/ StatNock \/ StatPart
             \/ DirSyncRx \/ DirSyncNock \/ Hang \/ Kill
      PROVE  UNCHANGED <<part, synced, nock, rx, solid, delivered>>
  BY <1>2 DEF Connect, Offer, Scan, StatSeen, StatNock, StatPart, DirSyncRx,
     DirSyncNock, Hang, Kill
<1>3. ASSUME NEW c \in Checkers,
             (\E p \in Pkts, done \in {"open", "closed"} : CheckOpen(c, p, done)) \/ CheckSync(c)
      PROVE  UNCHANGED <<part, synced, nock, rx, solid, delivered>>
  BY <1>3 DEF CheckOpen, CheckSync
<1>4. CASE UNCHANGED vars
  BY <1>4 DEF vars
<1> QED
  BY <1>1, <1>2, <1>3, <1>4
     DEF Next, Receive, Checker, Tosser, OnlineDeadline, Cut, SendMissing

LEMMA SenderWriters ==
    [Next]_vars =>
        \/ UNCHANGED <<born, tx, offered>>
        \/ \E p \in Pkts : Submit(p) \/ RecvDone(p)
        \/ Connect \/ Offer
        \/ UNCHANGED <<born, tx>> /\ offered' = {}
<1> USE DEF sender, session, SessionOver
<1> SUFFICES ASSUME [Next]_vars PROVE SenderWriters!2
  OBVIOUS
<1>1. ASSUME NEW p \in Pkts, RecvFreq(p) \/ SendFile(p) \/ Tosser(p)
      PROVE  UNCHANGED <<born, tx, offered>>
  BY <1>1 DEF RecvFreq, SendFile, Tosser, TossDeliver, TossSeen, TossRemove
<1>2. ASSUME Receive PROVE UNCHANGED <<born, tx, offered>>
  BY <1>2 DEF Receive, RecvInfo, RecvFile, StatSeen, StatNock, StatPart, SyncFile,
     RenameRx, RenameNock, Rename, DirSyncRx, DirSyncNock
<1>3. ASSUME Scan \/ \E c \in Checkers : Checker(c) PROVE UNCHANGED <<born, tx, offered>>
  BY <1>3 DEF Scan, Checker, CheckOpen, CheckRename, CheckSync
<1>4. ASSUME Hang \/ Kill \/ Crash PROVE UNCHANGED <<born, tx>> /\ offered' = {}
  BY <1>4 DEF Hang, Kill, Crash
<1>5. CASE UNCHANGED vars
  BY <1>5 DEF vars
<1> QED
  BY <1>1, <1>2, <1>3, <1>4, <1>5 DEF Next, OnlineDeadline, Cut, SendMissing

LEMMA DonesWriters ==
    [Next]_vars =>
        \/ dones' \subseteq dones
        \/ \E p \in Pkts : RecvInfo(p)
        \/ StatSeen \/ DirSyncRx
        \/ \E c \in Checkers : CheckSync(c)
<1> USE DEF channels, SessionOver
<1> SUFFICES ASSUME [Next]_vars PROVE DonesWriters!2
  OBVIOUS
<1>1. ASSUME NEW p \in Pkts,
             Submit(p) \/ RecvFreq(p) \/ SendFile(p) \/ RecvDone(p) \/ RecvFile(p) \/ Tosser(p)
      PROVE  dones' \subseteq dones
  BY <1>1 DEF Submit, RecvFreq, SendFile, RecvDone, RecvFile, Tosser, TossDeliver,
     TossSeen, TossRemove
<1>2. ASSUME \/ Connect \/ Offer \/ Scan \/ StatNock \/ StatPart \/ SyncFile
             \/ RenameRx \/ RenameNock \/ DirSyncNock
      PROVE  dones' \subseteq dones
  BY <1>2 DEF Connect, Offer, Scan, StatNock, StatPart, SyncFile, RenameRx,
     RenameNock, Rename, DirSyncNock
<1>3. ASSUME NEW c \in Checkers,
             (\E p \in Pkts, done \in {"open", "closed"} : CheckOpen(c, p, done)) \/ CheckRename(c)
      PROVE  dones' \subseteq dones
  BY <1>3 DEF CheckOpen, CheckRename
<1>4. ASSUME Hang \/ Kill \/ Crash PROVE dones' \subseteq dones
  BY <1>4 DEF Hang, Kill, Crash
<1>5. CASE UNCHANGED vars
  BY <1>5 DEF vars
<1> QED
  BY <1>1, <1>2, <1>3, <1>4, <1>5
     DEF Next, Receive, Checker, OnlineDeadline, Cut, SendMissing

LEMMA TossWriters ==
    [Next]_vars =>
        \/ UNCHANGED <<seen, tossing, delivered>>
        \/ \E p \in Pkts : Tosser(p)
        \/ Crash
<1> USE DEF toss
<1> SUFFICES ASSUME [Next]_vars PROVE TossWriters!2
  OBVIOUS
<1>1. ASSUME NEW p \in Pkts, Submit(p) \/ RecvFreq(p) \/ SendFile(p) \/ RecvDone(p)
      PROVE  UNCHANGED <<seen, tossing, delivered>>
  BY <1>1 DEF Submit, RecvFreq, SendFile, RecvDone
<1>2. ASSUME Receive PROVE UNCHANGED <<seen, tossing, delivered>>
  BY <1>2 DEF Receive, RecvInfo, RecvFile, StatSeen, StatNock, StatPart, SyncFile,
     RenameRx, RenameNock, Rename, DirSyncRx, DirSyncNock
<1>3. ASSUME Scan \/ \E c \in Checkers : Checker(c) PROVE UNCHANGED <<seen, tossing, delivered>>
  BY <1>3 DEF Scan, Checker, CheckOpen, CheckRename, CheckSync
<1>4. ASSUME Connect \/ Offer \/ Hang \/ Kill PROVE UNCHANGED <<seen, tossing, delivered>>
  BY <1>4 DEF Connect, Offer, Hang, Kill
<1>5. CASE UNCHANGED vars
  BY <1>5 DEF vars
<1> QED
  BY <1>1, <1>2, <1>3, <1>4, <1>5 DEF Next, OnlineDeadline, Cut, SendMissing

\* Outside of the receiver goroutine's own steps the handler only goes idle,
\* and each checker only stays as it is, is cut off from its session or ends.
LEMMA HandlerWriters ==
    [Next]_vars => Receive \/ handler' = Idle \/ handler' = handler
<1> USE DEF receiver, SessionOver
<1> SUFFICES ASSUME [Next]_vars PROVE HandlerWriters!2
  OBVIOUS
<1>1. ASSUME NEW p \in Pkts,
             Submit(p) \/ RecvFreq(p) \/ SendFile(p) \/ RecvDone(p) \/ Tosser(p)
      PROVE  handler' = handler
  BY <1>1 DEF Submit, RecvFreq, SendFile, RecvDone, Tosser, TossDeliver, TossSeen,
     TossRemove
<1>2. ASSUME Connect \/ Offer \/ Scan \/ \E c \in Checkers : Checker(c)
      PROVE  handler' = handler
  BY <1>2 DEF Connect, Offer, Scan, Checker, CheckOpen, CheckRename, CheckSync
<1>3. ASSUME Hang \/ Kill \/ Crash PROVE handler' = Idle
  BY <1>3 DEF Hang, Kill, Crash
<1>4. CASE UNCHANGED vars
  BY <1>4 DEF vars
<1> QED
  BY <1>1, <1>2, <1>3, <1>4 DEF Next, OnlineDeadline, Cut, SendMissing

LEMMA CheckWriters ==
    ASSUME TypeChecking, [Next]_vars, NEW c \in Checkers
    PROVE  \/ UNCHANGED <<check[c].at, check[c].pkt>>
           \/ check'[c] = NoCheck
           \/ (\E p \in Pkts, done \in {"open", "closed"} : CheckOpen(c, p, done))
           \/ CheckRename(c) \/ CheckSync(c)
<1> USE DEF checking
<1>1. ASSUME NEW p \in Pkts,
             Submit(p) \/ RecvFreq(p) \/ SendFile(p) \/ RecvDone(p) \/ Tosser(p)
      PROVE  check' = check
  BY <1>1 DEF Submit, RecvFreq, SendFile, RecvDone, Tosser, TossDeliver, TossSeen,
     TossRemove
<1>2. ASSUME Receive PROVE check' = check
  BY <1>2 DEF Receive, RecvInfo, RecvFile, StatSeen, StatNock, StatPart, SyncFile,
     RenameRx, RenameNock, Rename, DirSyncRx, DirSyncNock
<1>3. ASSUME Connect \/ Offer \/ Scan PROVE check' = check
  BY <1>3 DEF Connect, Offer, Scan
<1>4. ASSUME Kill \/ Crash PROVE check'[c] = check[c] \/ check'[c] = NoCheck
  BY <1>4 DEF Kill, Crash
<1>5. ASSUME Hang PROVE UNCHANGED <<check[c].at, check[c].pkt>>
  BY <1>5 DEF Hang, Deaf
<1>6. ASSUME NEW d \in Checkers, Checker(d), d # c PROVE check'[c] = check[c]
  BY <1>6 DEF TypeChecking, Checker, CheckOpen, CheckRename, CheckSync
<1>7. CASE UNCHANGED vars
  BY <1>7 DEF vars
<1> QED
  BY <1>1, <1>2, <1>3, <1>4, <1>5, <1>6, <1>7
     DEF Next, Checker, OnlineDeadline, Cut, SendMissing

-----------------------------------------------------------------------------
(* A complete copy stays *)

LEMMA FileStep ==
    ASSUME TypeOK, OneStream, NEW p \in Pkts, RecvFile(p)
    PROVE  /\ UNCHANGED <<nock, rx, solid, delivered, born>>
           /\ \A q \in Pkts \ {p} : part'[q] = part[q] /\ (q \in synced => q \in synced')
           /\ p \in offered
           /\ part[p] = Size[p] => part'[p] = part[p] /\ (p \in synced => p \in synced')
           /\ handler' # Idle => handler' = At("sync", p) /\ part'[p] = Size[p]
<1> USE ConstantsAssumption
<1> DEFINE off == Head(wire[p])
           len == ChunkLen(p, off)
           end == off + len
<1>0. TypeSpool
  BY Types
<1>1. UNCHANGED <<nock, rx, solid, delivered, born>>
  BY DEF RecvFile, toss, sender
<1>2. Streaming(p)
  BY DEF RecvFile, Streaming
<1>3. p \in offered /\ p \in infosTheir
  BY <1>2 DEF OneStream
<1>4. /\ part' = [part EXCEPT ![p] = IF len > 0 /\ end > PartLen(p)
                                   THEN end ELSE PartLen(p)]
      /\ synced' = IF len > 0 THEN synced \ {p} ELSE synced
      /\ handler' = IF end = Size[p] THEN At("sync", p) ELSE Idle
  BY <1>3 DEF RecvFile
<1>5. off = PartLen(p)
  BY HeadIsEnd
<1>6. \/ off < Size[p] /\ len = 1 /\ end = off + 1 /\ part'[p] = off + 1
      \/ off = Size[p] /\ len = 0 /\ end = Size[p] /\ part'[p] = Size[p]
  BY <1>0, <1>4, <1>5 DEF TypeSpool, PartLen, ChunkLen, Absent
<1>7. part[p] = Size[p] => off = Size[p]
  BY <1>5 DEF PartLen, Absent
<1> HIDE DEF off, len, end
<1>8. part[p] = Size[p] => part'[p] = part[p] /\ synced' = synced
  BY <1>4, <1>6, <1>7
<1>9. \A q \in Pkts \ {p} : part'[q] = part[q] /\ (q \in synced => q \in synced')
  BY <1>0, <1>4 DEF TypeSpool
<1>10. handler' # Idle => handler' = At("sync", p) /\ part'[p] = Size[p]
  BY <1>4, <1>6
<1> QED
  BY <1>1, <1>3, <1>8, <1>9, <1>10

LEMMA RenameStep ==
    ASSUME TypeOK, Keeping, RenameRx \/ RenameNock
    PROVE  /\ handler.pkt \in Pkts /\ handler.pkt \in born
           /\ UNCHANGED <<delivered, born>>
           /\ \/ UNCHANGED <<part, synced, nock, rx, solid>> /\ handler' = Idle
              \/ /\ part' = [part EXCEPT ![handler.pkt] = Absent]
                 /\ synced' = synced \ {handler.pkt}
                 /\ solid' = solid \cup {handler.pkt}
                 /\ \/ /\ RenameRx /\ rx' = rx \cup {handler.pkt} /\ nock' = nock
                       /\ handler.pkt \notin Rotten
                       /\ handler' = At("dirsyncRx", handler.pkt)
                    \/ /\ RenameNock /\ nock' = nock \cup {handler.pkt} /\ rx' = rx
                       /\ handler' = At("dirsyncNock", handler.pkt)
<1>1. handler.at \in {"renameRx", "renameNock"}
  BY DEF RenameRx, RenameNock, Rename
<1>2. handler.pkt \in Pkts
  BY <1>1, Types DEF TypeReceiver, Idle
<1>3. /\ part[handler.pkt] = Size[handler.pkt] /\ handler.pkt \in synced
      /\ handler.at = "renameRx" => handler.pkt \notin Rotten
  BY <1>1 DEF Keeping, KeepHandler
<1>4. handler.pkt \in born
  BY <1>2, <1>3, ConstantsAssumption DEF Keeping, KeepBorn, Absent
<1>5. CASE RenameRx
  BY <1>2, <1>3, <1>4, <1>5 DEF RenameRx, Rename, sender, toss
<1>6. CASE RenameNock
  BY <1>2, <1>3, <1>4, <1>6 DEF RenameNock, Rename, sender, toss
<1> QED
  BY <1>5, <1>6

\* A crash moves files back but destroys none that was synced.
LEMMA CrashStep ==
    ASSUME TypeOK, Keeping, Crash, NEW p \in Pkts
    PROVE  /\ UNCHANGED <<born, delivered, solid>>
           /\ p \in rx \cup nock => p \in rx' \cup nock' \/ (part'[p] = Size[p] /\ p \in synced')
           /\ part[p] = Size[p] /\ p \in synced
                => p \in rx' \cup nock' \/ (part'[p] = Size[p] /\ p \in synced')
           /\ p \in rx' => p \in rx
           /\ p \in rx' \cup nock' => p \in rx \cup nock
           /\ part'[p] # Absent => part[p] # Absent \/ p \in rx \cup nock
<1> USE ConstantsAssumption
<1>0. TypeSpool
  BY Types
<1>1. UNCHANGED <<born, delivered, solid>>
  BY DEF Crash, sender
<1>2. PICK undone \in SUBSET {q \in Pkts : undo[q] # "none"},
           torn \in SUBSET ((rx \cup nock) \ solid) :
        LET toPart == {q \in undone : undo[q] = "part" /\ q \in rx \cup nock}
            toNock == {q \in undone : undo[q] = "nock" /\ q \in rx}
        IN  /\ rx' = rx \ (toPart \cup toNock \cup torn)
            /\ nock' = ((nock \ toPart) \cup toNock) \ torn
            /\ \A q \in Pkts :
                 part'[q] \in IF q \in toPart
                              THEN Remains(q, Size[q], q \in solid)
                              ELSE Remains(q, part[q], q \in synced)
            /\ synced' = {q \in Pkts : part'[q] # Absent}
  BY DEF Crash
<1> DEFINE toPart == {q \in undone : undo[q] = "part" /\ q \in rx \cup nock}
           toNock == {q \in undone : undo[q] = "nock" /\ q \in rx}
<1>3. torn = {}
  BY DEF Keeping, KeepSolid
<1>4. toPart \subseteq rx \cup nock /\ toNock \subseteq rx /\ toPart \cap toNock = {}
  OBVIOUS
<1>5. /\ rx' = rx \ (toPart \cup toNock) /\ nock' = (nock \ toPart) \cup toNock
      /\ part'[p] \in IF p \in toPart THEN Remains(p, Size[p], p \in solid)
                                     ELSE Remains(p, part[p], p \in synced)
      /\ p \in synced' <=> part'[p] # Absent
  BY <1>2, <1>3
<1> HIDE DEF toPart, toNock
<1>6. ASSUME p \in toPart PROVE part'[p] = Size[p]
  <2>1. p \in solid
    BY <1>4, <1>6 DEF Keeping, KeepSolid
  <2> QED
    BY <1>5, <1>6, <2>1 DEF Remains
<1>7. Size[p] # Absent
  BY DEF Absent
<1>8. ASSUME p \notin toPart, p \in synced PROVE part'[p] = part[p]
  BY <1>5, <1>8 DEF Remains
<1>9. ASSUME p \notin toPart, part'[p] # Absent PROVE part[p] # Absent
  BY <1>0, <1>5, <1>9 DEF TypeSpool, Remains, Absent
<1> QED
  BY <1>1, <1>4, <1>5, <1>6, <1>7, <1>8, <1>9

LEMMA CopyStable ==
    ASSUME TypeOK, OneStream, Keeping, [Next]_vars, NEW p \in Pkts, Copy(p)
    PROVE  Copy(p)'
<1> USE ConstantsAssumption
<1>0. TypeSpool /\ TypeToss
  BY Types
<1>1. CASE UNCHANGED <<part, synced, nock, rx, solid, delivered>>
  BY <1>1 DEF Copy
<1>2. ASSUME NEW q \in Pkts, RecvFile(q) PROVE Copy(p)'
  BY <1>2, FileStep DEF Copy
<1>3. CASE SyncFile
  BY <1>3 DEF SyncFile, toss, Copy
<1>4. CASE RenameRx \/ RenameNock
  <2>1. p # handler.pkt =>
          part'[p] = part[p] \/ part' = [part EXCEPT ![handler.pkt] = Absent]
    BY <1>4, RenameStep
  <2> QED
    BY <1>0, <1>4, RenameStep DEF Copy, TypeSpool
<1>5. ASSUME NEW c \in Checkers, CheckRename(c) PROVE Copy(p)'
  BY <1>5 DEF CheckRename, toss, Copy
<1>6. ASSUME NEW q \in Pkts, TossDeliver(q) PROVE Copy(p)'
  BY <1>0, <1>6 DEF TossDeliver, Counted, TypeToss, spool, Copy
<1>7. ASSUME NEW q \in Pkts, TossRemove(q) PROVE Copy(p)'
  <2>1. delivered[q] > 0
    BY <1>7 DEF TossRemove, Keeping, KeepToss
  <2> QED
    BY <1>7, <2>1 DEF TossRemove, Copy
<1>8. CASE Crash
  BY <1>8, CrashStep DEF Copy
<1> QED
  BY <1>1, <1>2, <1>3, <1>4, <1>5, <1>6, <1>7, <1>8, DiskWriters

-----------------------------------------------------------------------------
(* Keeping, one conjunct at a time *)

LEMMA KeepingInit == Init => Keeping
<1> SUFFICES ASSUME Init PROVE Keeping
  OBVIOUS
<1>1. KeepBorn
  BY DEF Init, KeepBorn, Nowhere
<1>2. CopyKept /\ OnlyIntact /\ KeepSolid /\ KeepDones
  BY DEF Init, CopyKept, Released, OnlyIntact, KeepSolid, KeepDones
<1>3. KeepToss
  BY DEF Init, KeepToss
<1>4. KeepHandler
  BY DEF Init, KeepHandler, Idle
<1>5. KeepChecks
  BY DEF Init, KeepChecks, NoCheck
<1> QED
  BY <1>1, <1>2, <1>3, <1>4, <1>5 DEF Keeping

LEMMA KeepBornStep ==
    ASSUME TypeOK, OneStream, Keeping, [Next]_vars PROVE KeepBorn'
<1>0. TypeSpool /\ KeepBorn
  BY Types DEF Keeping
<1>1. /\ tx' \subseteq born' /\ offered' \subseteq born' /\ born \subseteq born'
  <2>1. ASSUME NEW p \in Pkts, Submit(p) \/ RecvDone(p)
        PROVE  tx' \subseteq born' /\ offered' \subseteq born' /\ born \subseteq born'
    BY <1>0, <2>1 DEF Submit, RecvDone, session, KeepBorn
  <2>2. ASSUME Connect \/ Offer
        PROVE  tx' \subseteq born' /\ offered' \subseteq born' /\ born \subseteq born'
    BY <1>0, <2>2 DEF Connect, Offer, Offerable, sender, KeepBorn
  <2> QED
    BY <1>0, <2>1, <2>2, SenderWriters DEF KeepBorn
<1>2. ASSUME NEW p \in Pkts
      PROVE  (p \in rx' \cup nock' \/ part'[p] # Absent) => p \in born'
  <2>1. CASE UNCHANGED <<part, synced, nock, rx, solid, delivered>>
    BY <1>0, <1>1, <2>1 DEF KeepBorn
  <2>2. ASSUME NEW q \in Pkts, RecvFile(q)
        PROVE  (p \in rx' \cup nock' \/ part'[p] # Absent) => p \in born'
    BY <1>0, <2>2, FileStep DEF KeepBorn
  <2>3. CASE SyncFile
    BY <1>0, <1>1, <2>3 DEF SyncFile, KeepBorn
  <2>4. CASE RenameRx \/ RenameNock
    BY <1>0, <2>4, RenameStep DEF KeepBorn, TypeSpool
  <2>5. ASSUME NEW c \in Checkers, CheckRename(c)
        PROVE  (p \in rx' \cup nock' \/ part'[p] # Absent) => p \in born'
    BY <1>0, <1>1, <2>5 DEF CheckRename, KeepBorn
  <2>6. ASSUME NEW q \in Pkts, TossDeliver(q) \/ TossRemove(q)
        PROVE  (p \in rx' \cup nock' \/ part'[p] # Absent) => p \in born'
    BY <1>0, <1>1, <2>6 DEF TossDeliver, TossRemove, spool, KeepBorn
  <2>7. CASE Crash
    BY <1>0, <2>7, CrashStep DEF KeepBorn
  <2> QED
    BY <2>1, <2>2, <2>3, <2>4, <2>5, <2>6, <2>7, DiskWriters
<1>3. rx' \cup nock' \subseteq Pkts
  <2>1. TypeSpool'
    BY TypeStep DEF TypeOK
  <2> QED
    BY <2>1 DEF TypeSpool
<1> QED
  BY <1>1, <1>2, <1>3 DEF KeepBorn

LEMMA CopyKeptStep ==
    ASSUME TypeOK, OneStream, Keeping, [Next]_vars PROVE CopyKept'
<1>1. ASSUME NEW p \in Pkts, Released(p)' PROVE Released(p) \/ p \in dones
  <2>1. ASSUME NEW q \in Pkts, Submit(q) \/ RecvDone(q)
        PROVE  Released(p) \/ p \in dones
    BY <1>1, <2>1 DEF Submit, RecvDone, Released
  <2>2. ASSUME Connect \/ Offer PROVE Released(p) \/ p \in dones
    BY <1>1, <2>2 DEF Connect, Offer, sender, Released
  <2> QED
    BY <1>1, <2>1, <2>2, SenderWriters DEF Released
<1>2. \A p \in Pkts : Released(p) \/ p \in dones => p \notin Rotten /\ Copy(p)
  BY DEF Keeping, CopyKept, KeepDones
<1> QED
  BY <1>1, <1>2, CopyStable DEF CopyKept

LEMMA OnlyIntactStep ==
    ASSUME TypeOK, OneStream, Keeping, [Next]_vars PROVE OnlyIntact'
<1>0. OnlyIntact /\ TypeSpool
  BY Types DEF Keeping
<1>1. CASE rx' \subseteq rx
  BY <1>0, <1>1 DEF OnlyIntact
<1>2. ASSUME NEW q \in Pkts, RecvFile(q) PROVE rx' \subseteq rx
  BY <1>2, FileStep
<1>3. ASSUME SyncFile PROVE rx' \subseteq rx
  BY <1>3 DEF SyncFile
<1>4. CASE RenameRx \/ RenameNock
  BY <1>0, <1>4, RenameStep DEF OnlyIntact
<1>5. ASSUME NEW c \in Checkers, CheckRename(c) PROVE OnlyIntact'
  BY <1>0, <1>5 DEF CheckRename, OnlyIntact, Keeping, KeepChecks
<1>6. ASSUME NEW q \in Pkts, TossDeliver(q) \/ TossRemove(q) PROVE rx' \subseteq rx
  BY <1>6 DEF TossDeliver, TossRemove, spool
<1>7. ASSUME Crash PROVE rx' \subseteq rx
  BY <1>7 DEF Crash
<1> QED
  BY <1>1, <1>2, <1>3, <1>4, <1>5, <1>6, <1>7, DiskWriters

LEMMA KeepSolidStep ==
    ASSUME TypeOK, OneStream, Keeping, [Next]_vars PROVE KeepSolid'
<1>0. KeepSolid /\ TypeSpool
  BY Types DEF Keeping
<1>1. CASE UNCHANGED <<part, synced, nock, rx, solid, delivered>>
  BY <1>0, <1>1 DEF KeepSolid
<1>2. ASSUME NEW q \in Pkts, RecvFile(q) PROVE KeepSolid'
  BY <1>0, <1>2, FileStep DEF KeepSolid
<1>3. CASE SyncFile
  BY <1>0, <1>3 DEF SyncFile, KeepSolid
<1>4. CASE RenameRx \/ RenameNock
  BY <1>0, <1>4, RenameStep DEF KeepSolid
<1>5. ASSUME NEW c \in Checkers, CheckRename(c) PROVE KeepSolid'
  BY <1>0, <1>5 DEF CheckRename, KeepSolid
<1>6. ASSUME NEW q \in Pkts, TossDeliver(q) \/ TossRemove(q) PROVE KeepSolid'
  BY <1>0, <1>6 DEF TossDeliver, TossRemove, spool, KeepSolid
<1>7. CASE Crash
  <2>1. TypeSpool'
    BY TypeStep DEF TypeOK
  <2> QED
    BY <1>0, <1>7, <2>1, CrashStep DEF KeepSolid, TypeSpool
<1> QED
  BY <1>1, <1>2, <1>3, <1>4, <1>5, <1>6, <1>7, DiskWriters

LEMMA KeepDonesStep ==
    ASSUME TypeOK, OneStream, Keeping, [Next]_vars PROVE KeepDones'
<1> USE ConstantsAssumption
<1>0. /\ TypeChannels /\ TypeReceiver /\ TypeChecking
      /\ KeepDones /\ OnlyIntact /\ KeepToss /\ KeepHandler /\ KeepChecks
  BY Types DEF Keeping
<1>1. ASSUME NEW p \in Pkts, p \in dones' PROVE p \notin Rotten /\ Copy(p)
  <2>1. CASE p \in dones
    BY <1>0, <2>1 DEF KeepDones
  <2>2. ASSUME NEW q \in Pkts, RecvInfo(q) PROVE p \notin Rotten /\ Copy(p)
    BY <1>0, <1>1, <2>1, <2>2 DEF RecvInfo, Copy, OnlyIntact
  <2>3. CASE StatSeen
    <3>1. p \in dones \/ p \in seen
      BY <1>1, <2>3 DEF StatSeen
    <3> QED
      BY <1>0, <2>1, <3>1 DEF KeepToss, Copy
  <2>4. CASE DirSyncRx
    BY <1>0, <1>1, <2>1, <2>4 DEF DirSyncRx, KeepHandler
  <2>5. ASSUME NEW c \in Checkers, CheckSync(c) PROVE p \notin Rotten /\ Copy(p)
    BY <1>0, <1>1, <2>1, <2>5 DEF CheckSync, KeepChecks
  <2> QED
    BY <1>1, <2>1, <2>2, <2>3, <2>4, <2>5, DonesWriters
<1>2. dones' \subseteq Pkts
  <2>1. TypeChannels'
    BY TypeStep DEF TypeOK
  <2> QED
    BY <2>1 DEF TypeChannels
<1> QED
  BY <1>1, <1>2, CopyStable DEF KeepDones

LEMMA KeepTossStep ==
    ASSUME TypeOK, OneStream, Keeping, [Next]_vars PROVE KeepToss'
<1> USE ConstantsAssumption
<1>0. TypeToss /\ OnlyIntact /\ KeepToss
  BY Types DEF Keeping
<1>1. CASE UNCHANGED <<seen, tossing, delivered>>
  BY <1>0, <1>1 DEF KeepToss
<1>2. ASSUME NEW p \in Pkts, TossDeliver(p) PROVE KeepToss'
  <2>1. p \notin Rotten
    BY <1>0, <1>2 DEF TossDeliver, OnlyIntact
  <2>2. delivered'[p] > 0
    BY <1>0, <1>2 DEF TossDeliver, Counted, TypeToss
  <2>3. /\ seen' = seen
        /\ \A q \in Pkts \ {p} : delivered'[q] = delivered[q] /\ tossing'[q] = tossing[q]
    BY <1>0, <1>2 DEF TossDeliver, TypeToss
  <2> QED
    BY <1>0, <2>1, <2>2, <2>3 DEF KeepToss
<1>3. ASSUME NEW p \in Pkts, TossSeen(p) \/ TossRemove(p) PROVE KeepToss'
  <2>1. delivered[p] > 0
    BY <1>0, <1>3 DEF TossSeen, TossRemove, KeepToss
  <2>2. /\ delivered' = delivered /\ seen' \subseteq seen \cup {p}
        /\ \A q \in Pkts \ {p} : tossing'[q] = tossing[q]
    BY <1>0, <1>3 DEF TossSeen, TossRemove, TypeToss
  <2> QED
    BY <1>0, <2>1, <2>2 DEF KeepToss
<1>4. CASE Crash
  BY <1>0, <1>4 DEF Crash, KeepToss
<1> QED
  BY <1>1, <1>2, <1>3, <1>4, TossWriters DEF Tosser

LEMMA KeepChecksStep ==
    ASSUME TypeOK, OneStream, Keeping, [Next]_vars PROVE KeepChecks'
<1>0. TypeChecking /\ KeepChecks /\ TypeSpool
  BY Types DEF Keeping
<1> SUFFICES ASSUME NEW c \in Checkers
             PROVE  /\ check'[c].at # "idle" => check'[c].pkt \notin Rotten
                    /\ check'[c].at = "renamed" => Copy(check[c].pkt)'
  BY DEF KeepChecks
<1>1. CASE UNCHANGED <<check[c].at, check[c].pkt>>
  <2>1. check[c].at = "renamed" => check[c].pkt \in Pkts /\ Copy(check[c].pkt)
    BY <1>0 DEF TypeChecking, KeepChecks
  <2>2. check[c].at = "renamed" => Copy(check[c].pkt)'
    <3> SUFFICES ASSUME NEW p \in Pkts, check[c].pkt = p, Copy(p) PROVE Copy(check[c].pkt)'
      BY <2>1
    <3> QED
      <4>1. Copy(p)'
        BY CopyStable
      <4> QED
        BY <1>1, <4>1 DEF Copy
  <2> QED
    BY <1>0, <1>1, <2>2 DEF KeepChecks
<1>2. CASE check'[c] = NoCheck
  BY <1>2 DEF NoCheck
<1>3. ASSUME NEW p \in Pkts, NEW done \in {"open", "closed"}, CheckOpen(c, p, done)
      PROVE  /\ check'[c].at \in {"idle", "good"}
             /\ check'[c].at # "idle" => check'[c].pkt \notin Rotten
  BY <1>0, <1>3 DEF CheckOpen, NoCheck, TypeChecking
<1>4. CASE CheckRename(c)
  <2>1. CASE check'[c] = NoCheck
    BY <1>2, <2>1
  <2>2. CASE /\ check'[c] = [at |-> "renamed", pkt |-> check[c].pkt, done |-> check[c].done]
             /\ rx' = rx \cup {check[c].pkt}
    BY <1>0, <1>4, <2>2 DEF CheckRename, KeepChecks, Copy
  <2> QED
    BY <1>0, <1>4, <2>1, <2>2 DEF CheckRename, TypeChecking
<1>5. CASE CheckSync(c)
  BY <1>0, <1>2, <1>5 DEF CheckSync, TypeChecking
<1> QED
  BY <1>0, <1>1, <1>2, <1>3, <1>4, <1>5, CheckWriters

LEMMA KeepHandlerStep ==
    ASSUME TypeOK, OneStream, Keeping, [Next]_vars PROVE KeepHandler'
<1> USE ConstantsAssumption
<1>0. TypeReceiver /\ TypeSpool /\ KeepHandler
  BY Types DEF Keeping
<1>1. CASE handler' = Idle
  BY <1>1 DEF KeepHandler, Idle
<1>2. CASE handler' = handler /\ ~Receive
  <2>1. CASE handler.at \notin FileStages
    BY <1>2, <2>1 DEF KeepHandler, FileStages
  <2>2. CASE handler.at \in FileStages
    <3>1. handler.pkt \in Pkts
      BY <1>0, <2>2 DEF TypeReceiver, Idle, FileStages
    <3>2. handler.at = "dirsyncRx" => Copy(handler.pkt)
      BY <1>0 DEF KeepHandler
    <3>3. ASSUME NEW p \in Pkts, p = handler.pkt, Copy(p) PROVE Copy(handler.pkt)'
      <4>1. Copy(p)'
        BY <3>3, CopyStable
      <4> QED
        BY <1>2, <3>3, <4>1 DEF Copy
    <3>4. (part' = part /\ synced' = synced) \/ Crash
      <4>1. ASSUME NEW p \in Pkts, TossDeliver(p) \/ TossRemove(p)
            PROVE  part' = part /\ synced' = synced
        BY <4>1 DEF TossDeliver, TossRemove, spool
      <4>2. ASSUME NEW c \in Checkers, CheckRename(c)
            PROVE  part' = part /\ synced' = synced
        BY <4>2 DEF CheckRename
      <4> QED
        BY <1>2, <4>1, <4>2, DiskWriters DEF Receive
    <3>5. Crash => handler' = Idle
      BY DEF Crash, SessionOver
    <3> QED
      BY <1>0, <1>1, <1>2, <3>1, <3>2, <3>3, <3>4, <3>5 DEF KeepHandler
  <2> QED
    BY <2>1, <2>2
<1>3. ASSUME NEW p \in Pkts, RecvInfo(p) PROVE KeepHandler'
  BY <1>3 DEF RecvInfo, At, KeepHandler, Idle
<1>4. ASSUME NEW p \in Pkts, RecvFile(p) PROVE KeepHandler'
  <2>1. handler' # Idle => handler' = At("sync", p) /\ part'[p] = Size[p]
    BY <1>4, FileStep
  <2> QED
    BY <1>1, <2>1 DEF At, KeepHandler
<1>5. CASE StatSeen \/ StatNock \/ StatPart
  <2>1. handler' = Idle \/ handler'.at \in {"nock", "part"}
    BY <1>5 DEF StatSeen, StatNock, StatPart, At
  <2> QED
    BY <1>1, <2>1 DEF KeepHandler
<1>6. CASE SyncFile
  <2>1. handler.at = "sync" /\ part' = part
    BY <1>6 DEF SyncFile
  <2>2. part[handler.pkt] = Size[handler.pkt]
    BY <1>0, <2>1 DEF KeepHandler
  <2>3. \/ handler' = Idle
        \/ /\ synced' = synced \cup {handler.pkt}
           /\ \/ handler' = At("renameNock", handler.pkt)
              \/ handler' = At("renameRx", handler.pkt) /\ handler.pkt \notin Rotten
    BY <1>6 DEF SyncFile
  <2> QED
    BY <1>1, <2>1, <2>2, <2>3 DEF KeepHandler, At
<1>7. CASE RenameRx \/ RenameNock
  <2>1. \/ handler' = Idle
        \/ /\ handler' = At("dirsyncRx", handler.pkt)
           /\ handler.pkt \notin Rotten /\ handler.pkt \in rx'
        \/ handler' = At("dirsyncNock", handler.pkt)
    BY <1>7, RenameStep
  <2> QED
    BY <1>1, <2>1 DEF KeepHandler, At, Copy
<1>8. ASSUME DirSyncRx \/ DirSyncNock PROVE handler' = Idle
  BY <1>8 DEF DirSyncRx, DirSyncNock
<1> QED
  BY <1>1, <1>2, <1>3, <1>4, <1>5, <1>6, <1>7, <1>8, HandlerWriters DEF Receive

LEMMA KeepingStep == TypeOK /\ OneStream /\ Keeping /\ [Next]_vars => Keeping'
  BY KeepBornStep, CopyKeptStep, OnlyIntactStep, KeepSolidStep, KeepDonesStep,
     KeepTossStep, KeepHandlerStep, KeepChecksStep DEF Keeping

LEMMA KeepingCorrect == Spec => []Keeping
  BY TypeCorrect, StreamCorrect, KeepingInit, KeepingStep, PTL DEF Spec

\* The sender deletes a packet only when the receiver keeps a complete and
\* intact copy of it for good: for any number of packets, sizes, sessions,
\* checkers, kills, crashes and failing calls.
THEOREM CopiesKept == Spec => []CopyKept
<1>1. Keeping => CopyKept
  BY DEF Keeping
<1> QED
  BY <1>1, KeepingCorrect, PTL

\* A packet that does not match its hash never gets its final name.
THEOREM IntactOnly == Spec => []OnlyIntact
<1>1. Keeping => OnlyIntact
  BY DEF Keeping
<1> QED
  BY <1>1, KeepingCorrect, PTL

-----------------------------------------------------------------------------
(* The protocol implements PacketCustody *)

held == {p \in Pkts : p \notin Rotten /\ Copy(p)}
given == {p \in Pkts : delivered[p] > 0}

LEMMA CustodyInit == Init => Custody!Init
  BY ConstantsAssumption DEF Init, Custody!Init, Copy, Nowhere, Absent

\* What the receiver comes to hold it takes over from the sender.
LEMMA HeldGrows ==
    ASSUME TypeOK, OneStream, Keeping, [Next]_vars
    PROVE  held \subseteq held' /\ held' \ held \subseteq tx
<1> USE ConstantsAssumption
<1>0. TypeSpool /\ KeepBorn
  BY Types DEF Keeping
<1>1. held \subseteq held'
  BY CopyStable DEF held
<1>2. ASSUME NEW p \in Pkts, Copy(p)', ~Copy(p) PROVE p \in born
  <2>1. p \in rx \cup nock \/ part[p] # Absent => p \in born
    BY <1>0 DEF KeepBorn
  <2>2. CASE UNCHANGED <<part, synced, nock, rx, solid, delivered>>
    BY <1>2, <2>2 DEF Copy
  <2>3. ASSUME NEW q \in Pkts, RecvFile(q) PROVE p \in born
    <3>1. CASE p = q
      BY <1>0, <2>3, <3>1, FileStep DEF KeepBorn
    <3>2. CASE p # q
      BY <1>2, <2>1, <2>3, <3>2, FileStep DEF Copy, Absent
    <3> QED
      BY <3>1, <3>2
  <2>4. CASE SyncFile
    BY <1>2, <2>1, <2>4 DEF SyncFile, toss, Copy, Absent
  <2>5. CASE RenameRx \/ RenameNock
    <3>1. p # handler.pkt => Copy(p)
      BY <1>0, <1>2, <2>5, RenameStep DEF Copy, TypeSpool
    <3> QED
      BY <1>2, <2>5, <3>1, RenameStep
  <2>6. ASSUME NEW c \in Checkers, CheckRename(c) PROVE Copy(p)
    BY <1>2, <2>6 DEF CheckRename, toss, Copy
  <2>7. ASSUME NEW q \in Pkts, TossDeliver(q) \/ TossRemove(q) PROVE Copy(p)
    BY <1>2, <2>7, Types DEF TossDeliver, TossRemove, spool, TypeToss, Copy
  <2>8. CASE Crash
    BY <1>2, <2>1, <2>8, CrashStep DEF Copy, Absent
  <2> QED
    BY <1>2, <2>2, <2>3, <2>4, <2>5, <2>6, <2>7, <2>8, DiskWriters
<1>3. ASSUME NEW p \in Pkts, p \notin Rotten, p \in born, ~Copy(p) PROVE p \in tx
  BY <1>3 DEF Keeping, CopyKept, Released
<1> QED
  BY <1>1, <1>2, <1>3 DEF held

LEMMA CustodyStep ==
    ASSUME TypeOK, OneStream, Keeping, [Next]_vars
    PROVE  [Custody!Next]_(Custody!vars)
<1>0. TypeToss /\ OnlyIntact /\ KeepDones
  BY Types DEF Keeping
<1>1. ASSUME NEW p \in Pkts, Submit(p) PROVE Custody!Submit(p)
  <2>1. tx' = tx \cup {p} /\ UNCHANGED <<part, synced, nock, rx, delivered>>
    BY <1>1 DEF Submit, spool, toss
  <2> QED
    BY <2>1 DEF Custody!Submit, Copy
<1>2. ASSUME NEW p \in Pkts, RecvDone(p) PROVE Custody!Release(p)
  <2>1. tx' = tx \ {p} /\ UNCHANGED <<part, synced, nock, rx, delivered>>
    BY <1>2 DEF RecvDone, spool, toss
  <2>2. p \notin Rotten /\ Copy(p)
    BY <1>0, <1>2 DEF RecvDone, KeepDones
  <2> QED
    BY <2>1, <2>2 DEF Custody!Release, Copy
<1>3. ASSUME NEW p \in Pkts, TossDeliver(p) PROVE Custody!HandOver(p)
  <2>1. /\ UNCHANGED <<tx, part, synced, nock, rx>>
        /\ p \in rx /\ p \notin Rotten
    BY <1>0, <1>3 DEF TossDeliver, sender, spool, OnlyIntact
  <2>2. /\ delivered'[p] > 0
        /\ \A q \in Pkts \ {p} : delivered'[q] = delivered[q]
    BY <1>0, <1>3, ConstantsAssumption DEF TossDeliver, Counted, TypeToss
  <2>3. \A q \in Pkts : Copy(q)' <=> Copy(q)
    BY <2>1, <2>2 DEF Copy
  <2>4. held' = held /\ given' = given \cup {p} /\ p \in held
    BY <2>1, <2>2, <2>3 DEF held, given, Copy
  <2> QED
    BY <2>1, <2>4 DEF Custody!HandOver, held, given
<1>4. ASSUME tx' = tx, delivered' = delivered PROVE [Custody!Next]_(Custody!vars)
  <2>1. PICK P \in SUBSET Pkts : P = held' \ held
    BY DEF held
  <2>2. P \subseteq tx /\ held' = held \cup P
    BY <2>1, HeldGrows
  <2>3. given' = given
    BY <1>4 DEF given
  <2>4. Custody!Take(P)
    BY <1>4, <2>2, <2>3 DEF Custody!Take, held, given
  <2> QED
    BY <2>4 DEF Custody!Next
<1>5. ASSUME UNCHANGED <<seen, tossing, delivered>> \/ Crash
             \/ \E p \in Pkts : TossSeen(p) \/ TossRemove(p)
      PROVE  delivered' = delivered
  BY <1>5 DEF Crash, TossSeen, TossRemove
<1>6. ASSUME \A p \in Pkts : ~Submit(p) /\ ~RecvDone(p) PROVE tx' = tx
  BY <1>6, SenderWriters DEF Connect, Offer, sender
<1> QED
  BY <1>1, <1>2, <1>3, <1>4, <1>5, <1>6, TossWriters DEF Tosser, Custody!Next

\* Whatever sessions, downloads, checkers and crashes there are on the way,
\* the protocol is a custody transfer as PacketCustody describes it.
THEOREM ImplementsCustody == Spec => CustodyKept
BY TypeCorrect, StreamCorrect, KeepingCorrect, CustodyInit, CustodyStep, PTL
   DEF Spec, CustodyKept, Custody!Spec

-----------------------------------------------------------------------------
(* Hashers *)

\* A closed file needs no hasher: files are closed with the session, and
\* before a .nock file gets its name.
Closed == ~up => rxfd = {}
NockClosed ==
    handler.at \in {"renameNock", "dirsyncNock"} => handler.pkt \notin rxfd
Hashing == Closed /\ NockClosed /\ HashersInStep

LEMMA HashWriters ==
    [Next]_vars =>
        \/ UNCHANGED <<up, rxfd, hasher, handler, part, noCK>>
        \/ Connect \/ Receive
        \/ SessionOver
<1> USE DEF session, receiver, spool, checking, mode
<1> SUFFICES ASSUME [Next]_vars PROVE HashWriters!2
  OBVIOUS
<1>1. ASSUME NEW p \in Pkts,
             Submit(p) \/ RecvFreq(p) \/ SendFile(p) \/ RecvDone(p) \/ Tosser(p)
      PROVE  UNCHANGED <<up, rxfd, hasher, handler, part, noCK>>
  BY <1>1 DEF Submit, RecvFreq, SendFile, RecvDone, Tosser, TossDeliver, TossSeen,
     TossRemove
<1>2. ASSUME Offer \/ Scan \/ \E c \in Checkers : Checker(c)
      PROVE  UNCHANGED <<up, rxfd, hasher, handler, part, noCK>>
  BY <1>2 DEF Offer, Scan, Checker, CheckOpen, CheckRename, CheckSync
<1>3. ASSUME Hang \/ Kill \/ Crash PROVE SessionOver
  BY <1>3 DEF Hang, Kill, Crash
<1>4. CASE UNCHANGED vars
  BY <1>4 DEF vars
<1> QED
  BY <1>1, <1>2, <1>3, <1>4 DEF Next, OnlineDeadline, Cut, SendMissing

\* The steps of the receiver goroutine on one packet leave the others alone.
LEMMA HashedFile ==
    ASSUME TypeOK, OneStream, Hashing, NEW p \in Pkts, RecvFile(p)
    PROVE  Hashing'
<1> USE ConstantsAssumption DEF session, checking, mode
<1>0. TypeReceiver /\ TypeSpool /\ TypeChannels
  BY Types
<1>1. up /\ handler = Idle /\ up' = up /\ noCK' = noCK
  BY DEF RecvFile
<1>2. CASE p \notin infosTheir
  <2>1. UNCHANGED <<rxfd, hasher, part, handler>>
    BY <1>2 DEF RecvFile
  <2> QED
    BY <1>1, <2>1 DEF Hashing, Closed, NockClosed, HashersInStep, PartLen
<1>3. CASE p \in infosTheir
  <2> DEFINE off == Head(wire[p])
             end == off + ChunkLen(p, off)
  <2>1. /\ rxfd' = rxfd \cup {p}
        /\ hasher' = [hasher EXCEPT ![p] = Hashed(HasherAt(p, off), off, ChunkLen(p, off))]
        /\ part' = [part EXCEPT ![p] = IF ChunkLen(p, off) > 0 /\ end > PartLen(p)
                                       THEN end ELSE PartLen(p)]
        /\ handler' = IF end = Size[p] THEN At("sync", p) ELSE Idle
    BY <1>3 DEF RecvFile
  <2>2. off = PartLen(p) /\ off \in Nat
    BY <1>0, HeadIsEnd DEF PartLen, TypeSpool, Absent
  <2>3. ChunkLen(p, off) \in {0, 1} /\ end \in Nat
    BY <2>2 DEF ChunkLen
  <2>4. part'[p] = end
    BY <1>0, <2>1, <2>2, <2>3 DEF TypeSpool
  <2>5. ASSUME ~noCK PROVE hasher'[p].next = end
    <3>1. HasherAt(p, off).next = off
      BY <1>1, <2>2, <2>5 DEF HasherAt, Hashing, HashersInStep, Idle, FileStages
    <3>2. hasher'[p] = Hashed(HasherAt(p, off), off, ChunkLen(p, off))
      BY <1>0, <2>1 DEF TypeReceiver
    <3> QED
      BY <3>1, <3>2 DEF Hashed
  <2>6. ASSUME NEW q \in rxfd \ {p}, ~noCK
        PROVE  hasher'[q].next = hasher[q].next /\ part'[q] = part[q]
               /\ hasher[q].next = PartLen(q)
    <3>1. q \in Pkts
      BY <1>0 DEF TypeReceiver
    <3> QED
      BY <1>0, <1>1, <2>1, <2>6, <3>1
         DEF TypeReceiver, TypeSpool, Hashing, HashersInStep, Idle, FileStages
  <2>7. handler'.at \notin {"renameNock", "dirsyncNock"}
    BY <2>1 DEF At, Idle
  <2> HIDE DEF off, end
  <2>8. HashersInStep'
    <3>1. (PartLen(p))' = end
      BY <2>3, <2>4 DEF PartLen, Absent
    <3>2. \A q \in rxfd \ {p} : ~noCK => hasher'[q].next = (PartLen(q))'
      BY <2>6 DEF PartLen
    <3> QED
      BY <1>1, <2>1, <2>5, <3>1, <3>2 DEF HashersInStep
  <2> QED
    BY <1>1, <2>7, <2>8 DEF Hashing, Closed, NockClosed
<1> QED
  BY <1>2, <1>3

LEMMA HashingStep ==
    ASSUME TypeOK, OneStream, Hashing, [Next]_vars
    PROVE  Hashing'
<1> USE DEF session, receiver, spool, checking, mode
<1>0. TypeReceiver /\ TypeSpool
  BY Types
<1>1. CASE UNCHANGED <<up, rxfd, hasher, handler, part, noCK>>
  BY <1>1 DEF Hashing, Closed, NockClosed, HashersInStep, PartLen
<1>2. CASE Connect
  <2>1. rxfd = {} /\ UNCHANGED <<rxfd, handler>>
    BY <1>2 DEF Connect, Hashing, Closed
  <2> QED
    BY <2>1 DEF Hashing, Closed, NockClosed, HashersInStep
<1>3. CASE SessionOver
  BY <1>3 DEF SessionOver, Idle, Hashing, Closed, NockClosed, HashersInStep
<1>4. ASSUME NEW p \in Pkts, RecvInfo(p) PROVE Hashing'
  <2>1. /\ UNCHANGED <<up, rxfd, hasher, part, noCK>>
        /\ handler = Idle /\ (handler' = Idle \/ handler' = At("seen", p))
    BY <1>4 DEF RecvInfo
  <2> QED
    BY <2>1 DEF Hashing, Closed, NockClosed, HashersInStep, PartLen, Idle, At,
       FileStages
<1>5. ASSUME NEW p \in Pkts, RecvFile(p) PROVE Hashing'
  BY <1>5, HashedFile
<1>6. CASE StatSeen \/ StatNock \/ StatPart
  <2>1. /\ UNCHANGED <<up, rxfd, hasher, part, noCK>>
        /\ handler.at \in InfoStages
        /\ handler' = Idle \/ handler'.at \in InfoStages
    BY <1>6 DEF StatSeen, StatNock, StatPart, At, InfoStages
  <2> QED
    BY <2>1 DEF Hashing, Closed, NockClosed, HashersInStep, PartLen, Idle,
       InfoStages, FileStages
<1>7. CASE SyncFile
  <2> DEFINE p == handler.pkt
  <2>1. /\ UNCHANGED <<up, part, noCK>> /\ handler.at = "sync"
        /\ \A q \in Pkts \ {p} : hasher'[q] = hasher[q]
    BY <1>0, <1>7 DEF SyncFile, TypeReceiver
  <2>2. \/ handler' = Idle /\ rxfd' = rxfd \ {p}
        \/ handler' = At("renameNock", p) /\ rxfd' = rxfd \ {p}
        \/ handler' = At("renameRx", p) /\ rxfd' = rxfd
    BY <1>7 DEF SyncFile
  <2>3. HashersInStep'
    BY <1>0, <2>1, <2>2
       DEF Hashing, HashersInStep, PartLen, At, FileStages, TypeReceiver
  <2> QED
    BY <2>1, <2>2, <2>3 DEF Hashing, Closed, NockClosed, At, Idle
<1>8. CASE RenameRx \/ RenameNock
  <2> DEFINE p == handler.pkt
  <2>1. /\ UNCHANGED <<up, hasher, noCK>>
        /\ handler.at = "renameRx" \/ handler.at = "renameNock"
        /\ \A q \in Pkts \ {p} : part'[q] = part[q]
    BY <1>0, <1>8 DEF RenameRx, RenameNock, Rename, TypeSpool
  <2>2. \/ handler' = Idle /\ rxfd' = rxfd \ {p}
        \/ handler' = At("dirsyncRx", p) /\ rxfd' = rxfd
        \/ handler' = At("dirsyncNock", p) /\ rxfd' = rxfd /\ handler.at = "renameNock"
    BY <1>8 DEF RenameRx, RenameNock, Rename
  <2>3. HashersInStep'
    BY <1>0, <2>1, <2>2
       DEF Hashing, HashersInStep, PartLen, At, FileStages, TypeReceiver
  <2> QED
    BY <2>1, <2>2, <2>3 DEF Hashing, Closed, NockClosed, At, Idle
<1>9. CASE DirSyncRx \/ DirSyncNock
  <2> DEFINE p == handler.pkt
  <2>1. UNCHANGED <<up, part, hasher, noCK>> /\ handler' = Idle /\ rxfd' = rxfd \ {p}
    BY <1>9 DEF DirSyncRx, DirSyncNock, Hashing, NockClosed
  <2>2. HashersInStep'
    BY <2>1 DEF Hashing, HashersInStep, PartLen
  <2> QED
    BY <2>1, <2>2 DEF Hashing, Closed, NockClosed, Idle
<1> QED
  BY <1>1, <1>2, <1>3, <1>4, <1>5, <1>6, <1>7, <1>8, <1>9, HashWriters DEF Receive

\* What a hasher has seen of an open .part file is all that was written since
\* it was opened, for any packets, sizes and failures: ProcessSP's "offset
\* differs" branch is never taken and no checksum skips a chunk.
THEOREM HashersKeepUp == Spec => []HashersInStep
<1>1. Init => Hashing
  BY DEF Init, Idle, Hashing, Closed, NockClosed, HashersInStep
<1>2. TypeOK /\ OneStream /\ Hashing /\ [Next]_vars => Hashing'
  BY HashingStep
<1>3. Hashing => HashersInStep
  BY DEF Hashing
<1> QED
  BY <1>1, <1>2, <1>3, TypeCorrect, StreamCorrect, PTL DEF Spec

-----------------------------------------------------------------------------
(* No orphans *)

Calm == kills = 0 /\ faults = 0

Found(p)   == p \in rx \cup nock \/ delivered[p] > 0
Durably(p) == delivered[p] > 0 \/ (p \in rx \cup nock /\ undo[p] # "part")

\* A name that a crash would turn back to .part is one the receiver
\* goroutine is about to make durable.
Named ==
    Calm => \A p \in Pkts :
              undo[p] = "part" => handler \in {At("dirsyncRx", p), At("dirsyncNock", p)}

\* Whatever answers for a packet has it by a name that outlives a crash, or
\* is going to make that name durable.
Owed ==
    Calm => /\ \A p \in Pkts : Released(p) \/ p \in dones => Durably(p)
            /\ handler.at = "dirsyncRx" => Found(handler.pkt)
            /\ \A c \in Checkers : check[c].at = "renamed" => Found(check[c].pkt)

LEMMA Calms ==
    ASSUME TypeBudget, [Next]_vars, Calm'
    PROVE  Calm /\ ~Kill /\ \A k \in FaultKinds : ~Fault(k)
<1> USE DEF Calm, TypeBudget, budget
<1>1. ~Kill /\ \A k \in FaultKinds : ~Fault(k)
  BY DEF Kill, Fault
<1>2. ASSUME NEW p \in Pkts,
             Submit(p) \/ RecvFreq(p) \/ SendFile(p) \/ RecvDone(p) \/ Tosser(p)
      PROVE  Calm
  BY <1>2 DEF Submit, RecvFreq, SendFile, RecvDone, Tosser, TossDeliver, TossSeen,
     TossRemove
<1>3. ASSUME Connect \/ Offer \/ Scan \/ Hang \/ Crash PROVE Calm
  BY <1>3 DEF Connect, Offer, Scan, Hang, Crash
<1>4. ASSUME Receive PROVE Calm
  <2>1. kills' = kills /\ (faults' = faults \/ faults' = faults + 1)
    BY <1>4 DEF Receive, RecvInfo, RecvFile, StatSeen, StatNock, StatPart, SyncFile,
       RenameRx, RenameNock, Rename, DirSyncRx, DirSyncNock, Fault
  <2> QED
    BY <2>1
<1>5. ASSUME NEW c \in Checkers, Checker(c) PROVE Calm
  <2>1. kills' = kills /\ (faults' = faults \/ faults' = faults + 1)
    BY <1>5 DEF Checker, CheckOpen, CheckRename, CheckSync, Fault
  <2> QED
    BY <2>1
<1>6. ASSUME UNCHANGED vars PROVE Calm
  BY <1>6 DEF vars
<1> QED
  BY <1>1, <1>2, <1>3, <1>4, <1>5, <1>6 DEF Next, OnlineDeadline, Cut, SendMissing

LEMMA UndoWriters ==
    [Next]_vars =>
        \/ undo' = undo \/ undo' = Durable
        \/ RenameRx \/ RenameNock
        \/ \E c \in Checkers : CheckRename(c)
        \/ \E p \in Pkts : TossRemove(p)
<1> USE DEF spool
<1> SUFFICES ASSUME [Next]_vars PROVE UndoWriters!2
  OBVIOUS
<1>1. ASSUME NEW p \in Pkts,
             \/ Submit(p) \/ RecvFreq(p) \/ SendFile(p) \/ RecvDone(p)
             \/ RecvInfo(p) \/ RecvFile(p) \/ TossDeliver(p) \/ TossSeen(p)
      PROVE  undo' = undo \/ undo' = Durable
  BY <1>1 DEF Submit, RecvFreq, SendFile, RecvDone, RecvInfo, RecvFile,
     TossDeliver, TossSeen
<1>2. CASE \/ Connect \/ Offer \/ Scan \/ StatSeen \/ StatNock \/ StatPart
           \/ SyncFile \/ DirSyncRx \/ DirSyncNock \/ Hang \/ Kill \/ Crash
  BY <1>2 DEF Connect, Offer, Scan, StatSeen, StatNock, StatPart, SyncFile,
     DirSyncRx, DirSyncNock, Hang, Kill, Crash
<1>3. ASSUME NEW c \in Checkers,
             (\E p \in Pkts, done \in {"open", "closed"} : CheckOpen(c, p, done)) \/ CheckSync(c)
      PROVE  undo' = undo \/ undo' = Durable
  BY <1>3 DEF CheckOpen, CheckSync
<1>4. CASE UNCHANGED vars
  BY <1>4 DEF vars
<1> QED
  BY <1>1, <1>2, <1>3, <1>4
     DEF Next, Receive, Checker, Tosser, OnlineDeadline, Cut, SendMissing

\* Where nothing is killed and nothing fails, the receiver goroutine comes
\* from the rename to the directory sync, unless the machine crashes.
LEMMA SyncFollows ==
    ASSUME TypeBudget, [Next]_vars, Calm', handler.at \in {"dirsyncRx", "dirsyncNock"}
    PROVE  handler' = handler \/ undo' = Durable
<1>1. ~Kill /\ \A k \in FaultKinds : ~Fault(k)
  BY Calms
<1>2. handler # Idle
  BY DEF Idle
<1>3. CASE Receive
  BY <1>1, <1>2, <1>3 DEF Receive, RecvInfo, RecvFile, StatSeen, StatNock, StatPart,
     SyncFile, RenameRx, RenameNock, Rename, DirSyncRx, DirSyncNock, Fault
<1>4. ASSUME NEW p \in Pkts,
             Submit(p) \/ RecvFreq(p) \/ SendFile(p) \/ RecvDone(p) \/ Tosser(p)
      PROVE  handler' = handler
  BY <1>4 DEF Submit, RecvFreq, SendFile, RecvDone, Tosser, TossDeliver, TossSeen,
     TossRemove, receiver
<1>5. CASE Connect \/ Offer \/ Scan \/ \E c \in Checkers : Checker(c)
  BY <1>5 DEF Connect, Offer, Scan, Checker, CheckOpen, CheckRename, CheckSync, receiver
<1>6. CASE Hang \/ Crash
  BY <1>2, <1>6 DEF Hang, Crash
<1>7. CASE UNCHANGED vars
  BY <1>7 DEF vars, receiver
<1> QED
  BY <1>1, <1>3, <1>4, <1>5, <1>6, <1>7 DEF Next, OnlineDeadline, Cut, SendMissing

LEMMA NamedStep ==
    ASSUME TypeOK, Named, [Next]_vars PROVE Named'
<1>0. TypeSpool /\ TypeBudget /\ TypeReceiver /\ TypeChecking
  BY Types
<1> SUFFICES ASSUME Calm', NEW p \in Pkts, undo'[p] = "part"
             PROVE  handler' \in {At("dirsyncRx", p), At("dirsyncNock", p)}
  BY DEF Named
<1>1. undo' # Durable
  BY DEF Durable
<1>2. Calm
  BY <1>0, Calms
<1>3. undo[p] = "part" => handler \in {At("dirsyncRx", p), At("dirsyncNock", p)}
  BY <1>2 DEF Named
<1>4. CASE undo[p] = "part"
  <2>1. handler.at \in {"dirsyncRx", "dirsyncNock"}
    BY <1>3, <1>4 DEF At
  <2> QED
    BY <1>0, <1>1, <1>3, <1>4, <2>1, SyncFollows
<1>5. CASE undo[p] # "part"
  <2>1. CASE RenameRx \/ RenameNock
    <3>1. p = handler.pkt
      BY <1>0, <1>5, <2>1 DEF RenameRx, RenameNock, Rename, UndoRename, TypeSpool
    <3>2. \A k \in FaultKinds : ~Fault(k)
      BY <1>0, Calms
    <3> QED
      BY <2>1, <3>1, <3>2 DEF RenameRx, RenameNock, Rename, Fault
  <2>2. ASSUME NEW c \in Checkers, CheckRename(c) PROVE undo'[p] # "part"
    BY <1>0, <1>5, <2>2 DEF CheckRename, TypeSpool
  <2>3. ASSUME NEW q \in Pkts, TossRemove(q) PROVE undo'[p] # "part"
    BY <1>0, <1>5, <2>3 DEF TossRemove, TypeSpool
  <2> QED
    BY <1>1, <1>5, <2>1, <2>2, <2>3, UndoWriters
<1> QED
  BY <1>4, <1>5

\* What is found stays found until a crash, and after it if it was durable.
LEMMA FoundStable ==
    ASSUME TypeOK, OneStream, Keeping, [Next]_vars, NEW p \in Pkts
    PROVE  /\ Found(p) /\ ~Crash => Found(p)'
           /\ Durably(p) => Durably(p)'
<1>0. TypeSpool /\ TypeToss /\ TypeReceiver
  BY Types
<1> USE DEF Found, Durably
<1>1. CASE Crash
  <2>1. PICK undone \in SUBSET {q \in Pkts : undo[q] # "none"},
             torn \in SUBSET ((rx \cup nock) \ solid) :
          LET toPart == {q \in undone : undo[q] = "part" /\ q \in rx \cup nock}
              toNock == {q \in undone : undo[q] = "nock" /\ q \in rx}
          IN  /\ rx' = rx \ (toPart \cup toNock \cup torn)
              /\ nock' = ((nock \ toPart) \cup toNock) \ torn
    BY <1>1 DEF Crash
  <2>2. torn = {}
    BY DEF Keeping, KeepSolid
  <2>3. p \in rx \cup nock /\ undo[p] # "part" => p \in rx' \cup nock'
    BY <2>1, <2>2
  <2>4. undo' = Durable /\ delivered' = delivered
    BY <1>1 DEF Crash
  <2> QED
    BY <1>1, <2>3, <2>4 DEF Durable
<1>2. ASSUME NEW q \in Pkts, TossRemove(q) PROVE (Found(p) => Found(p)') /\ (Durably(p) => Durably(p)')
  <2>1. delivered[q] > 0
    BY <1>2 DEF TossRemove, Keeping, KeepToss
  <2> QED
    BY <1>0, <1>2, <2>1 DEF TossRemove, TypeSpool
<1>3. ASSUME NEW q \in Pkts, RecvFile(q) \/ TossDeliver(q)
      PROVE  (Found(p) => Found(p)') /\ (Durably(p) => Durably(p)')
  <2>1. UNCHANGED <<rx, nock, undo>>
    BY <1>3 DEF RecvFile, TossDeliver, spool
  <2>2. \/ delivered' = delivered
        \/ delivered' = [delivered EXCEPT ![q] = Counted(@)]
    BY <1>3 DEF RecvFile, TossDeliver, toss
  <2>3. delivered[p] > 0 => delivered'[p] > 0
    BY <1>0, <2>2, ConstantsAssumption DEF TypeToss, Counted
  <2> QED
    BY <2>1, <2>3
<1>4. CASE SyncFile
  BY <1>4 DEF SyncFile, toss
<1>5. CASE RenameRx \/ RenameNock
  <2>1. /\ rx \subseteq rx' /\ nock \subseteq nock' /\ delivered' = delivered
        /\ undo' = undo \/ undo' = UndoRename(handler.pkt)
    BY <1>5 DEF RenameRx, RenameNock, Rename, toss
  <2>2. p \in rx \cup nock => undo'[p] = undo[p]
    BY <1>0, <2>1 DEF UndoRename, TypeSpool
  <2> QED
    BY <2>1, <2>2
<1>6. ASSUME NEW c \in Checkers, CheckRename(c)
      PROVE  (Found(p) => Found(p)') /\ (Durably(p) => Durably(p)')
  <2>1. /\ rx \cup nock \subseteq rx' \cup nock' /\ delivered' = delivered
        /\ undo[p] # "part" => undo'[p] # "part"
    BY <1>0, <1>6 DEF CheckRename, TypeSpool, toss
  <2> QED
    BY <2>1
<1>7. CASE UNCHANGED <<part, synced, nock, rx, solid, delivered>> /\ (undo' = undo \/ undo' = Durable)
  BY <1>7 DEF Durable
<1>8. CASE UNCHANGED <<part, synced, nock, rx, solid, delivered>>
  BY <1>2, <1>5, <1>6, <1>7, <1>8, UndoWriters
<1> QED
  BY <1>1, <1>2, <1>3, <1>4, <1>5, <1>6, <1>8, DiskWriters

LEMMA OwedStep ==
    ASSUME TypeOK, OneStream, Keeping, Named, Owed, [Next]_vars PROVE Owed'
<1>0. /\ TypeSender /\ TypeChannels /\ TypeReceiver /\ TypeChecking /\ TypeBudget
      /\ KeepToss
  BY Types DEF Keeping
<1> SUFFICES ASSUME Calm'
             PROVE  /\ \A p \in Pkts : (Released(p) \/ p \in dones)' => Durably(p)'
                    /\ handler'.at = "dirsyncRx" => Found(handler.pkt)'
                    /\ \A c \in Checkers :
                         check'[c].at = "renamed" => Found(check[c].pkt)'
  BY DEF Owed
<1>1. Calm /\ \A k \in FaultKinds : ~Fault(k)
  BY <1>0, Calms
<1>2. /\ \A p \in Pkts : Released(p) \/ p \in dones => Durably(p)
      /\ handler.at = "dirsyncRx" => Found(handler.pkt)
      /\ \A c \in Checkers : check[c].at = "renamed" => Found(check[c].pkt)
  BY <1>1 DEF Owed
<1>3. \A p \in Pkts : Durably(p) => Durably(p)'
  BY FoundStable
<1>4. \A p \in Pkts : Found(p) /\ ~Crash => Found(p)'
  BY FoundStable
<1>5. ASSUME NEW p \in Pkts, (p \in dones)' PROVE Durably(p)'
  <2>1. CASE p \in dones
    BY <1>2, <1>3, <2>1
  <2>2. ASSUME NEW q \in Pkts, RecvInfo(q), p \notin dones PROVE Durably(p)'
    <3>1. p \in rx /\ handler = Idle
      BY <1>5, <2>2 DEF RecvInfo
    <3>2. undo[p] # "part"
      BY <1>1, <3>1 DEF Named, At, Idle
    <3> QED
      BY <1>3, <3>1, <3>2 DEF Durably
  <2>3. CASE StatSeen /\ p \notin dones
    <3>1. p \in seen
      BY <1>5, <2>3 DEF StatSeen
    <3> QED
      BY <1>0, <1>3, <3>1 DEF KeepToss, Durably
  <2>4. CASE DirSyncRx /\ p \notin dones
    <3>1. p = handler.pkt /\ handler.at = "dirsyncRx" /\ undo' = Durable
          /\ UNCHANGED <<rx, nock, delivered>>
      BY <1>5, <2>4 DEF DirSyncRx, toss
    <3> QED
      BY <1>2, <3>1 DEF Found, Durably, Durable
  <2>5. ASSUME NEW c \in Checkers, CheckSync(c), p \notin dones PROVE Durably(p)'
    <3>1. p = check[c].pkt /\ check[c].at = "renamed" /\ undo' = Durable
          /\ UNCHANGED <<rx, nock, delivered>>
      BY <1>5, <2>5 DEF CheckSync, toss
    <3> QED
      BY <1>2, <3>1 DEF Found, Durably, Durable
  <2> QED
    BY <1>5, <2>1, <2>2, <2>3, <2>4, <2>5, DonesWriters
<1>6. ASSUME NEW p \in Pkts, Released(p)' PROVE Durably(p)'
  <2>1. Released(p) \/ p \in dones
    <3>1. ASSUME NEW q \in Pkts, Submit(q) PROVE Released(p)
      BY <1>6, <3>1 DEF Submit, Released
    <3>2. ASSUME NEW q \in Pkts, RecvDone(q) PROVE Released(p) \/ p \in dones
      BY <1>6, <3>2 DEF RecvDone, Released
    <3>3. Connect \/ Offer => Released(p)
      BY <1>6 DEF Connect, Offer, sender, Released
    <3>4. UNCHANGED <<born, tx>> => Released(p)
      BY <1>6 DEF Released
    <3> QED
      BY <3>1, <3>2, <3>3, <3>4, SenderWriters
  <2> QED
    BY <1>2, <1>3, <2>1
<1>7. ASSUME handler'.at = "dirsyncRx" PROVE Found(handler.pkt)'
  <2>1. handler' # Idle
    BY <1>7 DEF Idle
  <2>2. ~Crash
    BY <2>1 DEF Crash, SessionOver
  <2>3. CASE RenameRx \/ RenameNock
    <3>1. handler'.pkt \in rx'
      BY <1>7, <2>1, <2>3 DEF RenameRx, RenameNock, Rename, At
    <3> QED
      BY <3>1 DEF Found
  <2>4. CASE handler' = handler
    <3>1. handler.pkt \in Pkts /\ Found(handler.pkt)
      BY <1>0, <1>2, <1>7, <2>4 DEF TypeReceiver, Idle
    <3>2. ASSUME NEW p \in Pkts, p = handler.pkt PROVE Found(handler.pkt)'
      <4>1. Found(p)'
        BY <1>4, <2>2, <3>1, <3>2
      <4> QED
        BY <2>4, <3>2, <4>1 DEF Found
    <3> QED
      BY <3>1, <3>2
  <2>5. ASSUME Receive, ~RenameRx, ~RenameNock PROVE handler' = handler
    BY <1>7, <2>1, <2>5
       DEF Receive, RecvInfo, RecvFile, StatSeen, StatNock, StatPart, SyncFile,
           DirSyncRx, DirSyncNock, At
  <2> QED
    BY <2>1, <2>3, <2>4, <2>5, HandlerWriters
<1>8. ASSUME NEW c \in Checkers, check'[c].at = "renamed" PROVE Found(check[c].pkt)'
  <2>1. check'[c] # NoCheck
    BY <1>8 DEF NoCheck
  <2>2. ~Crash
    BY <2>1 DEF Crash
  <2>3. CASE UNCHANGED <<check[c].at, check[c].pkt>>
    <3>1. check[c].pkt \in Pkts /\ Found(check[c].pkt)
      BY <1>0, <1>2, <1>8, <2>3 DEF TypeChecking
    <3>2. ASSUME NEW p \in Pkts, p = check[c].pkt PROVE Found(check[c].pkt)'
      <4>1. Found(p)'
        BY <1>4, <2>2, <3>1, <3>2
      <4> QED
        BY <2>3, <3>2, <4>1 DEF Found
    <3> QED
      BY <3>1, <3>2
  <2>4. ASSUME NEW p \in Pkts, NEW done \in {"open", "closed"}, CheckOpen(c, p, done)
        PROVE  FALSE
    BY <1>0, <1>8, <2>4 DEF CheckOpen, NoCheck, TypeChecking
  <2>5. CASE CheckRename(c)
    <3>1. /\ check'[c] = [at |-> "renamed", pkt |-> check[c].pkt, done |-> check[c].done]
          /\ rx' = rx \cup {check[c].pkt}
      BY <1>0, <2>1, <2>5 DEF CheckRename, TypeChecking
    <3> QED
      BY <3>1 DEF Found
  <2>6. ~CheckSync(c)
    BY <1>0, <2>1 DEF CheckSync, TypeChecking
  <2> QED
    BY <1>0, <2>1, <2>3, <2>4, <2>5, <2>6, CheckWriters
<1> QED
  BY <1>5, <1>6, <1>7, <1>8

\* A packet the sender has deleted is never left behind as a .part file
\* nobody asks the rest of: where no process is killed and no call fails, it
\* has a finished or .nock name, or was delivered, whatever crashes there are
\* (ProcessSP's and CheckNoCK's renames and directory syncs against DONE).
THEOREM NoneOrphaned == Spec => []NoOrphan
<1>1. Init => Named /\ Owed
  BY DEF Init, Idle, NoCheck, Named, Owed, Released
<1>2. TypeOK /\ OneStream /\ Keeping /\ Named /\ Owed /\ [Next]_vars => Named' /\ Owed'
  BY NamedStep, OwedStep
<1>3. Owed => NoOrphan
  BY DEF Owed, NoOrphan, Calm, Durably
<1> QED
  BY <1>1, <1>2, <1>3, TypeCorrect, StreamCorrect, KeepingCorrect, PTL DEF Spec
-----------------------------------------------------------------------------
(* At most once *)

\* Sessions that hash what they receive, a process that is not killed between
\* two calls of a handler, fsync and rename that do not fail, and a tosser that
\* leaves seen/ files: nothing makes a .part file of one chunk to be resumed.
Uninterrupted ==
    /\ NoCKs = {FALSE} /\ DoSeen
    /\ MaxKills = 0 /\ FaultKinds \subseteq {"space", "dirsync"}

Small == {p \in Pkts \ Rotten : Size[p] = 1}
Working(p, stages) == handler.pkt = p /\ handler.at \in stages

\* Its .part file is there while its only FILE is handled, and it is hashed
\* from the beginning.
OnceHashed(p) ==
    /\ p \notin nock
    /\ part[p] # Absent => Working(p, {"sync", "renameRx"})
    /\ p \in rxfd => Working(p, {"sync", "renameRx", "dirsyncRx"})
    /\ ~Working(p, {"renameNock", "dirsyncNock"})
    /\ Working(p, {"sync"}) => hasher[p] = [start |-> 0, next |-> 1]

\* What is requested has not come yet.
OnceAsked(p) ==
    /\ Streaming(p) \/ Working(p, {"nock", "part", "sync", "renameRx"}) =>
          p \notin rx /\ delivered[p] = 0
    /\ Working(p, {"seen"}) => p \notin rx

\* What has come is in rx/, at the tosser, or seen.
OnceTossed(p) ==
    /\ delivered[p] <= 1
    /\ tossing[p] = "seen" => p \in seen
    /\ p \notin rx => tossing[p] = "idle"
    /\ p \in rx /\ tossing[p] = "idle" => delivered[p] = 0
    /\ p \notin rx /\ delivered[p] > 0 => p \in seen

OnceOnly(p) == OnceHashed(p) /\ OnceAsked(p) /\ OnceTossed(p)
Once == crashes = 0 => ~noCK /\ \A p \in Small : OnceOnly(p)

\* Nothing of p is touched, and nothing of it set under way.
LEMMA OnceFrame ==
    ASSUME NEW p, OnceOnly(p), Streaming(p)' => Streaming(p),
           UNCHANGED <<nock, rx, seen>>, p \in rxfd' => p \in rxfd,
           UNCHANGED <<part[p], hasher[p], delivered[p], tossing[p]>>,
           \/ handler' = handler
           \/ ~Working(p, FileStages \cup InfoStages) /\ ~Working(p, FileStages \cup InfoStages)'
    PROVE  OnceOnly(p)'
<1>1. CASE handler' = handler
  BY <1>1 DEF OnceOnly, OnceHashed, OnceAsked, OnceTossed, Working
<1>2. CASE ~Working(p, FileStages \cup InfoStages) /\ ~Working(p, FileStages \cup InfoStages)'
  BY <1>2 DEF OnceOnly, OnceHashed, OnceAsked, OnceTossed, Working,
     FileStages, InfoStages
<1> QED
  BY <1>1, <1>2

\* The steps that are not the receiver goroutine's, the tosser's or an end.
LEMMA OnceElsewhere ==
    ASSUME TypeOK, NEW p \in Small, OnceOnly(p),
           \/ \E q \in Pkts : Submit(q) \/ RecvFreq(q) \/ SendFile(q) \/ RecvDone(q)
           \/ Connect \/ Offer \/ Scan
           \/ \E c \in Checkers : Checker(c)
           \/ UNCHANGED vars
    PROVE  OnceOnly(p)'
<1> USE DEF session, channels, receiver, spool, checking, mode, toss
<1>0. p \in Pkts /\ TypeSession /\ TypeChannels
  BY Types DEF Small
<1>1. ASSUME NEW q \in Pkts, Submit(q) \/ RecvDone(q) PROVE OnceOnly(p)'
  BY <1>1, OnceFrame DEF Submit, RecvDone, Streaming
<1>2. ASSUME NEW q \in Pkts, RecvFreq(q) PROVE OnceOnly(p)'
  <2>1. Streaming(p)' => Streaming(p)
    BY <1>0, <1>2 DEF RecvFreq, Streaming, TypeSession, TypeChannels
  <2> QED
    BY <1>2, <2>1, OnceFrame DEF RecvFreq
<1>3. ASSUME NEW q \in Pkts, SendFile(q) PROVE OnceOnly(p)'
  <2>1. queue[q] # Absent /\ freqs' = freqs
    BY <1>3 DEF SendFile
  <2>2. p # q => queue'[p] = queue[p] /\ wire'[p] = wire[p]
    BY <1>0, <1>3 DEF SendFile, TypeSession, TypeChannels
  <2>3. Streaming(p)' => Streaming(p)
    BY <2>1, <2>2 DEF Streaming
  <2> QED
    BY <1>3, <2>3, OnceFrame DEF SendFile
<1>4. ASSUME Connect \/ Offer \/ Scan PROVE OnceOnly(p)'
  BY <1>4, OnceFrame DEF Connect, Offer, Scan, Streaming
<1>5. ASSUME NEW c \in Checkers, Checker(c) PROVE OnceOnly(p)'
  <2>1. CASE CheckRename(c)
    <3>1. UNCHANGED <<session, channels, receiver, part, toss>>
      BY <2>1 DEF CheckRename
    <3>2. p \notin nock
      BY DEF OnceOnly, OnceHashed
    <3>3. (p \in nock' <=> p \in nock) /\ (p \in rx' <=> p \in rx)
      BY <2>1, <3>2 DEF CheckRename
    <3> QED
      BY <3>1, <3>3 DEF OnceOnly, OnceHashed, OnceAsked, OnceTossed, Working, Streaming
  <2>2. ASSUME NEW q \in Pkts, NEW done \in {"open", "closed"}, CheckOpen(c, q, done)
        PROVE  OnceOnly(p)'
    BY <2>2, OnceFrame DEF CheckOpen, Streaming
  <2>3. CASE CheckSync(c)
    BY <2>3, OnceFrame DEF CheckSync, Streaming
  <2> QED
    BY <1>5, <2>1, <2>2, <2>3 DEF Checker
<1>6. CASE UNCHANGED vars
  BY <1>6, OnceFrame DEF vars, Streaming
<1> QED
  BY <1>1, <1>2, <1>3, <1>4, <1>5, <1>6

\* The receiver goroutine looks for what an INFO announces.
LEMMA OnceInfo ==
    ASSUME TypeOK, NEW p \in Small, OnceOnly(p),
           \/ \E q \in Pkts : RecvInfo(q)
           \/ StatSeen \/ StatNock \/ StatPart
    PROVE  OnceOnly(p)'
<1> USE DEF session, spool, checking, mode, toss
<1>0. p \in Pkts /\ TypeChannels /\ TypeReceiver /\ TypeToss
  BY Types DEF Small
<1>1. /\ OnceHashed(p) /\ OnceAsked(p) /\ OnceTossed(p)
  BY DEF OnceOnly
<1>2. UNCHANGED <<part, nock, rx, rxfd, hasher, seen, tossing, delivered, queue, wire>>
  BY DEF RecvInfo, StatSeen, StatNock, StatPart, channels
<1>3. part[p] = Absent /\ p \notin rxfd
  <2>1. handler.at \in {"idle", "seen", "nock", "part"}
    BY DEF RecvInfo, StatSeen, StatNock, StatPart, Idle
  <2> QED
    BY <1>1, <2>1 DEF OnceHashed, Working
<1>4. OnceTossed(p)'
  BY <1>1, <1>2 DEF OnceTossed
<1>5. ASSUME NEW q \in Pkts, RecvInfo(q) PROVE OnceOnly(p)'
  <2>1. /\ freqs' = freqs /\ handler = Idle
        /\ handler' = Idle \/ (handler' = At("seen", q) /\ q \notin rx)
    BY <1>5 DEF RecvInfo
  <2> QED
    BY <1>1, <1>2, <1>3, <1>4, <2>1
       DEF OnceOnly, OnceHashed, OnceAsked, Working, Streaming, Idle, At
<1>6. CASE StatSeen
  <2>1. /\ freqs' = freqs /\ handler.at = "seen"
        /\ handler' = Idle \/ (handler' = At("nock", handler.pkt) /\ handler.pkt \notin seen)
    BY <1>6 DEF StatSeen
  <2>2. handler.pkt = p /\ p \notin seen => p \notin rx /\ delivered[p] = 0
    BY <1>0, <1>1, <2>1 DEF OnceAsked, OnceTossed, Working, TypeToss
  <2> QED
    BY <1>0, <1>1, <1>2, <1>3, <1>4, <2>1, <2>2
       DEF OnceOnly, OnceHashed, OnceAsked, Working, Streaming, Idle, At
<1>7. CASE StatNock
  <2>1. /\ freqs' = freqs /\ handler.at = "nock"
        /\ handler' = Idle \/ handler' = At("part", handler.pkt)
    BY <1>7, <1>0 DEF StatNock, channels
  <2> QED
    BY <1>1, <1>2, <1>3, <1>4, <2>1
       DEF OnceOnly, OnceHashed, OnceAsked, Working, Streaming, Idle, At
<1>8. CASE StatPart
  <2>1. /\ handler.at = "part" /\ handler' = Idle
        /\ handler.pkt # p => freqs'[p] = freqs[p]
    BY <1>0, <1>8 DEF StatPart, TypeChannels
  <2>2. Streaming(p)' => Streaming(p) \/ handler.pkt = p
    BY <1>2, <2>1 DEF Streaming
  <2> QED
    BY <1>0, <1>1, <1>2, <1>3, <1>4, <2>1, <2>2
       DEF OnceOnly, OnceHashed, OnceAsked, Working, Idle
<1> QED
  BY <1>5, <1>6, <1>7, <1>8

\* Its only FILE is written and hashed.
LEMMA OnceFile ==
    ASSUME TypeOK, OneStream, ~noCK, NEW p \in Small, OnceOnly(p),
           NEW q \in Pkts, RecvFile(q)
    PROVE  OnceOnly(p)'
<1> USE DEF session, checking, mode, toss
<1>0. /\ p \in Pkts /\ Size[p] = 1
      /\ TypeChannels /\ TypeReceiver /\ TypeSpool
  BY Types DEF Small
<1>1. OnceHashed(p) /\ OnceAsked(p) /\ OnceTossed(p)
  BY DEF OnceOnly
<1>2. /\ UNCHANGED <<nock, rx, seen, tossing, delivered, queue, freqs>>
      /\ handler = Idle /\ wire[q] # <<>>
      /\ wire' = [wire EXCEPT ![q] = Tail(@)]
  BY DEF RecvFile
<1>3. part[p] = Absent /\ p \notin rxfd
  BY <1>1, <1>2 DEF OnceHashed, Working, Idle
<1>4. Streaming(p)' => Streaming(p)
  BY <1>0, <1>2 DEF Streaming, TypeChannels
<1>5. OnceTossed(p)'
  BY <1>1, <1>2 DEF OnceTossed
<1>6. CASE q # p
  <2>1. /\ handler' = Idle \/ handler' = At("sync", q)
        /\ part'[p] = part[p] /\ hasher'[p] = hasher[p]
        /\ p \in rxfd' => p \in rxfd
    BY <1>0, <1>2, <1>6 DEF RecvFile, TypeReceiver, TypeSpool
  <2> QED
    BY <1>1, <1>2, <1>3, <1>4, <1>5, <1>6, <2>1
       DEF OnceOnly, OnceHashed, OnceAsked, Working, Idle, At
<1>7. CASE q = p
  <2>1. Streaming(p) /\ p \in infosTheir
    BY <1>0, <1>2, <1>7 DEF Streaming, OneStream
  <2>2. Head(wire[p]) = 0
    BY <1>3, <1>7, HeadIsEnd DEF PartLen
  <2>3. ChunkLen(p, 0) = 1
    BY <1>0 DEF ChunkLen
  <2>4. /\ handler' = At("sync", p)
        /\ hasher' = [hasher EXCEPT ![p] = Hashed(HasherAt(p, 0), 0, 1)]
    BY <1>0, <1>7, <2>1, <2>2, <2>3 DEF RecvFile
  <2>5. hasher'[p] = [start |-> 0, next |-> 1]
    BY <1>0, <1>3, <2>4 DEF Hashed, HasherAt, TypeReceiver
  <2> QED
    BY <1>1, <1>2, <1>5, <2>1, <2>4, <2>5
       DEF OnceOnly, OnceHashed, OnceAsked, Working, At
<1> QED
  BY <1>6, <1>7

\* It is synced, given its final name, and that name is synced.
LEMMA OnceCompleted ==
    ASSUME TypeOK, OneStream, Uninterrupted, NEW p \in Small, OnceOnly(p),
           SyncFile \/ RenameRx \/ RenameNock \/ DirSyncRx \/ DirSyncNock
    PROVE  OnceOnly(p)'
<1> USE DEF session, channels, checking, mode, toss
<1>0. /\ p \in Pkts \ Rotten /\ TypeReceiver /\ TypeSpool
      /\ ~Fault("sync") /\ ~Fault("rename")
  BY Types DEF Small, Uninterrupted, Fault
<1>1. OnceHashed(p) /\ OnceAsked(p) /\ OnceTossed(p)
  BY DEF OnceOnly
<1>2. /\ UNCHANGED <<seen, tossing, delivered, queue, freqs, wire>>
      /\ Streaming(p)' <=> Streaming(p)
  BY DEF SyncFile, RenameRx, RenameNock, Rename, DirSyncRx, DirSyncNock, Streaming
<1>3. Streaming(p) => handler.pkt # p
  BY <1>0 DEF OneStream
<1>4. CASE SyncFile
  <2>1. UNCHANGED <<part, nock, rx>> /\ handler.at = "sync"
    BY <1>4 DEF SyncFile
  <2>2. CASE handler.pkt = p
    <3>1. hasher[p] = [start |-> 0, next |-> 1]
      BY <1>1, <2>1, <2>2 DEF OnceHashed, Working
    <3>2. hasher[p] # NoHash /\ hasher[p].start = 0
      BY <3>1 DEF NoHash, Absent
    <3>3. handler' = At("renameRx", p) /\ rxfd' = rxfd
      BY <1>0, <1>4, <2>2, <3>2 DEF SyncFile
    <3> QED
      BY <1>1, <1>2, <1>3, <2>1, <2>2, <3>3
         DEF OnceOnly, OnceHashed, OnceAsked, OnceTossed, Working, At
  <2>3. CASE handler.pkt # p
    <3>1. /\ handler' = Idle \/ handler'.pkt = handler.pkt
          /\ p \in rxfd' => p \in rxfd
          /\ hasher'[p] = hasher[p]
      BY <1>0, <1>4, <2>3 DEF SyncFile, At, TypeReceiver
    <3> QED
      BY <1>1, <1>2, <2>1, <2>3, <3>1
         DEF OnceOnly, OnceHashed, OnceAsked, OnceTossed, Working, Idle
  <2> QED
    BY <2>2, <2>3
<1>5. CASE RenameRx /\ handler.pkt = p
  <2>1. /\ handler.at = "renameRx" /\ handler' = At("dirsyncRx", p)
        /\ part' = [part EXCEPT ![p] = Absent] /\ rx' = rx \cup {p} /\ nock' = nock
    BY <1>0, <1>5 DEF RenameRx, Rename
  <2>2. part'[p] = Absent
    BY <1>0, <2>1 DEF TypeSpool
  <2>3. delivered[p] = 0 /\ tossing[p] = "idle"
    BY <1>1, <1>5, <2>1 DEF OnceAsked, OnceTossed, Working
  <2> QED
    BY <1>1, <1>2, <1>3, <1>5, <2>1, <2>2, <2>3
       DEF OnceOnly, OnceHashed, OnceAsked, OnceTossed, Working, At
<1>6. CASE (RenameRx \/ RenameNock) /\ handler.pkt # p
  <2>1. /\ handler' = Idle \/ handler'.pkt = handler.pkt
        /\ p \in rxfd' => p \in rxfd
        /\ part'[p] = part[p] /\ hasher' = hasher
        /\ p \in nock' <=> p \in nock
        /\ p \in rx' <=> p \in rx
    BY <1>0, <1>6 DEF RenameRx, RenameNock, Rename, At, TypeSpool
  <2> QED
    BY <1>1, <1>2, <1>6, <2>1
       DEF OnceOnly, OnceHashed, OnceAsked, OnceTossed, Working, Idle
<1>7. ~(RenameNock /\ handler.pkt = p)
  BY <1>1 DEF RenameNock, Rename, OnceHashed, Working
<1>8. CASE DirSyncRx
  <2>1. /\ UNCHANGED <<part, nock, rx, hasher>> /\ handler.at = "dirsyncRx"
        /\ handler' = Idle /\ rxfd' = rxfd \ {handler.pkt}
    BY <1>8 DEF DirSyncRx
  <2> QED
    BY <1>1, <1>2, <2>1
       DEF OnceOnly, OnceHashed, OnceAsked, OnceTossed, Working, Idle
<1>9. CASE DirSyncNock
  <2>1. /\ UNCHANGED <<part, nock, rx, hasher, rxfd>> /\ handler.at = "dirsyncNock"
        /\ handler' = Idle
    BY <1>9 DEF DirSyncNock
  <2> QED
    BY <1>1, <1>2, <2>1
       DEF OnceOnly, OnceHashed, OnceAsked, OnceTossed, Working, Idle
<1> QED
  BY <1>4, <1>5, <1>6, <1>7, <1>8, <1>9

\* It is handed over, its seen/ file left, and it is removed.
LEMMA OnceToss ==
    ASSUME TypeOK, Uninterrupted, NEW p \in Small, OnceOnly(p),
           NEW q \in Pkts, Tosser(q)
    PROVE  OnceOnly(p)'
<1> USE DEF session, channels, receiver, checking, mode
<1>0. p \in Pkts /\ TypeToss
  BY Types DEF Small
<1>1. OnceHashed(p) /\ OnceAsked(p) /\ OnceTossed(p)
  BY DEF OnceOnly
<1>2. /\ UNCHANGED <<part, nock, handler, rxfd, hasher, queue, freqs, wire>>
      /\ Streaming(p)' <=> Streaming(p)
  BY DEF Tosser, TossDeliver, TossSeen, TossRemove, spool, Streaming
<1>3. OnceHashed(p)'
  BY <1>1, <1>2 DEF OnceHashed, Working
<1>4. CASE q # p
  <2>1. UNCHANGED <<delivered[p], tossing[p]>>
    BY <1>0, <1>4 DEF Tosser, TossDeliver, TossSeen, TossRemove, TypeToss
  <2>2. (p \in rx' <=> p \in rx) /\ (p \in seen => p \in seen')
    BY <1>4 DEF Tosser, TossDeliver, TossSeen, TossRemove, spool
  <2> QED
    BY <1>1, <1>2, <1>3, <2>1, <2>2 DEF OnceOnly, OnceAsked, OnceTossed, Working
<1>5. CASE TossDeliver(p)
  <2>1. p \in rx /\ tossing[p] = "idle" /\ delivered[p] = 0 /\ UNCHANGED <<rx, seen>>
    BY <1>1, <1>5 DEF TossDeliver, OnceTossed, spool
  <2>2. delivered'[p] = 1 /\ tossing'[p] = "delivered"
    BY <1>0, <1>5, <2>1, ConstantsAssumption DEF TossDeliver, Counted, TypeToss
  <2> QED
    BY <1>1, <1>2, <1>3, <2>1, <2>2 DEF OnceOnly, OnceAsked, OnceTossed, Working
<1>6. CASE TossSeen(p)
  <2>1. /\ p \in rx /\ p \in seen' /\ UNCHANGED <<rx, delivered>>
        /\ tossing'[p] = "seen"
    BY <1>0, <1>1, <1>6 DEF TossSeen, OnceTossed, Uninterrupted, TypeToss
  <2> QED
    BY <1>1, <1>2, <1>3, <2>1 DEF OnceOnly, OnceAsked, OnceTossed, Working
<1>7. CASE TossRemove(p)
  <2>1. /\ p \in rx /\ p \in seen /\ UNCHANGED <<seen, delivered>>
        /\ tossing'[p] = "idle" /\ p \notin rx'
    BY <1>0, <1>1, <1>7 DEF TossRemove, OnceTossed, TypeToss
  <2> QED
    BY <1>1, <1>2, <1>3, <2>1 DEF OnceOnly, OnceAsked, OnceTossed, Working
<1> QED
  BY <1>4, <1>5, <1>6, <1>7 DEF Tosser

\* A session ends between two messages: there is no .part file then.
LEMMA OnceHang ==
    ASSUME NEW p \in Small, OnceOnly(p), Hang
    PROVE  OnceOnly(p)'
<1>1. /\ handler = Idle /\ handler' = Idle /\ rxfd' = {}
      /\ UNCHANGED <<part, nock, rx, seen, tossing, delivered>>
  BY DEF Hang, SessionOver, spool, toss
<1>2. ~Streaming(p)'
  BY DEF Hang, SessionOver, Nowhere, Nothing, Streaming, Small
<1> QED
  BY <1>1, <1>2 DEF OnceOnly, OnceHashed, OnceAsked, OnceTossed, Working, Idle

LEMMA OnceStep ==
    ASSUME TypeOK, OneStream, Uninterrupted, Once, [Next]_vars
    PROVE  Once'
<1> SUFFICES ASSUME crashes' = 0
             PROVE  ~noCK' /\ \A p \in Small : OnceOnly(p)'
  BY DEF Once, Small
<1>0. TypeBudget /\ ~Kill /\ ~Crash
  BY Types DEF TypeBudget, Uninterrupted, Kill, Crash
<1>1. crashes = 0
  <2> USE DEF budget
  <2>1. ASSUME NEW p \in Pkts,
               Submit(p) \/ RecvFreq(p) \/ SendFile(p) \/ RecvDone(p) \/ Tosser(p)
        PROVE  crashes = 0
    BY <2>1 DEF Submit, RecvFreq, SendFile, RecvDone, Tosser, TossDeliver, TossSeen,
       TossRemove
  <2>2. ASSUME Receive PROVE crashes = 0
    BY <2>2 DEF Receive, RecvInfo, RecvFile, StatSeen, StatNock, StatPart, SyncFile,
       RenameRx, RenameNock, Rename, DirSyncRx, DirSyncNock
  <2>3. ASSUME Connect \/ Offer \/ Scan \/ Hang \/ \E c \in Checkers : Checker(c)
        PROVE  crashes = 0
    BY <2>3 DEF Connect, Offer, Scan, Hang, Checker, CheckOpen, CheckRename, CheckSync
  <2>4. CASE UNCHANGED vars
    BY <2>4 DEF vars
  <2> QED
    BY <1>0, <2>1, <2>2, <2>3, <2>4 DEF Next, OnlineDeadline, Cut, SendMissing
<1>2. ~noCK /\ \A p \in Small : OnceOnly(p)
  BY <1>1 DEF Once
<1>3. ~noCK'
  <2> USE DEF checking, mode
  <2>1. ASSUME NEW p \in Pkts,
               Submit(p) \/ RecvFreq(p) \/ SendFile(p) \/ RecvDone(p) \/ Tosser(p)
        PROVE  ~noCK'
    BY <1>2, <2>1 DEF Submit, RecvFreq, SendFile, RecvDone, Tosser, TossDeliver, TossSeen,
       TossRemove
  <2>2. ASSUME Receive PROVE ~noCK'
    BY <1>2, <2>2 DEF Receive, RecvInfo, RecvFile, StatSeen, StatNock, StatPart,
       SyncFile, RenameRx, RenameNock, Rename, DirSyncRx, DirSyncNock
  <2>3. ASSUME Connect \/ Offer \/ Scan \/ Hang \/ \E c \in Checkers : Checker(c)
        PROVE  ~noCK'
    BY <1>2, <2>3 DEF Connect, Offer, Scan, Hang, SessionOver, Checker, CheckOpen,
       CheckRename, CheckSync, Uninterrupted
  <2>4. CASE UNCHANGED vars
    BY <1>2, <2>4 DEF vars
  <2> QED
    BY <1>0, <2>1, <2>2, <2>3, <2>4 DEF Next, OnlineDeadline, Cut, SendMissing
<1>4. ASSUME NEW p \in Small PROVE OnceOnly(p)'
  <2>0. OnceOnly(p)
    BY <1>2
  <2>1. ASSUME Receive PROVE OnceOnly(p)'
    BY <1>2, <2>0, <2>1, OnceInfo, OnceFile, OnceCompleted DEF Receive
  <2>2. ASSUME NEW q \in Pkts, Tosser(q) PROVE OnceOnly(p)'
    BY <2>0, <2>2, OnceToss
  <2>3. ASSUME Hang PROVE OnceOnly(p)'
    BY <2>0, <2>3, OnceHang
  <2> QED
    BY <1>0, <2>0, <2>1, <2>2, <2>3, OnceElsewhere
       DEF Next, OnlineDeadline, Cut, SendMissing
<1> QED
  BY <1>3, <1>4

\* A packet of one chunk is handed to the user at most once where nothing
\* interrupts its download and no crash takes a seen/ file away, however many
\* DONEs are lost and sessions set up again: ProcessSP looks for the finished
\* file before it looks for the seen/ file, the tosser leaves the one before it
\* removes the other.
THEOREM DeliveredOnce == ASSUME Uninterrupted PROVE Spec => []AtMostOnce
<1>1. Init => Once
  BY DEF Init, Idle, Nowhere, Nothing, Unhashed, Once, OnceOnly, OnceHashed,
     OnceAsked, OnceTossed, Working, Streaming, Small
<1>2. TypeOK /\ OneStream /\ Once /\ [Next]_vars => Once'
  BY OnceStep
<1>3. TypeOK /\ Keeping /\ Once => AtMostOnce
  <2> SUFFICES ASSUME TypeOK, Keeping, Once, crashes = 0,
                      NEW p \in Pkts, Size[p] = 1
               PROVE  delivered[p] <= 1
    BY DEF AtMostOnce
  <2>1. delivered[p] \in Nat
    BY Types, ConstantsAssumption DEF TypeToss
  <2>2. CASE p \in Rotten
    BY <2>1, <2>2 DEF Keeping, KeepToss
  <2>3. CASE p \notin Rotten
    BY <2>3 DEF Once, Small, OnceOnly, OnceTossed
  <2> QED
    BY <2>2, <2>3
<1> QED
  BY <1>1, <1>2, <1>3, TypeCorrect, StreamCorrect, KeepingCorrect, PTL DEF Spec
=============================================================================
