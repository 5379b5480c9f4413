----------------------------- MODULE SPTransfer -----------------------------
(***************************************************************************)
(* One direction of NNCP's online synchronization protocol (SP): the       *)
(* packets in a sender's tx/ spool directory travel to the rx/ directory   *)
(* of its peer, are checksummed there, acknowledged with DONE, removed     *)
(* from the sender's tx/ and tossed.                                       *)
(*                                                                         *)
(* A packet is announced with INFO, requested with FREQ from the offset    *)
(* where an earlier download stopped, sent in FILE chunks, and written to  *)
(* rx/<hash>.part.  A download made in one go is hashed on the fly and     *)
(* becomes rx/<hash>; a resumed one becomes rx/<hash>.nock and waits for a *)
(* checker: the daemon's own goroutine ("sp") or an nncp-check process     *)
(* ("cmd"), which takes no lock.                                           *)
(*                                                                         *)
(* Contents are abstracted: the chunks of p are numbered from 0, a packet  *)
(* in Rotten does not hash to its name, and a .part file is its length     *)
(* (SPTransferProofs proves that it is only ever appended to).             *)
(***************************************************************************)
EXTENDS Integers, Sequences

CONSTANTS
    Pkts,        \* packets the sender's commands may put in tx/
    NoPkt,       \* "no packet", for an idle handler or checker
    Size,        \* Size[p]: length of p in chunks
    Nice,        \* Nice[p]: niceness of p
    NiceOur,     \* SPState.Nice of the sender
    NiceTheir,   \* SPState.Nice of the receiver
    Rotten,      \* packets whose stored bytes do not match their hash
    NoCKs,       \* values of SPState.NoCK the receiver's sessions may have
    DoSeen,      \* whether tossing leaves seen/ files
    Checkers,    \* subset of {"sp", "cmd"}
    FaultKinds,  \* calls that may fail: "space", "sync", "rename", "dirsync"
    Window,      \* bound: FILEs of one packet in flight
    MaxCuts, MaxKills, MaxCrashes, MaxFaults,   \* bounds on the environment
    MaxDeliver   \* bound: deliveries are counted up to this number

Absent == -1     \* no .part file, no offset

ASSUME ConstantsAssumption ==
    /\ NoPkt \notin Pkts
    /\ Size \in [Pkts -> Nat \ {0}]
    /\ Nice \in [Pkts -> Nat]
    /\ NiceOur \in Nat /\ NiceTheir \in Nat
    /\ Rotten \subseteq Pkts
    /\ NoCKs \in (SUBSET BOOLEAN) \ {{}} /\ DoSeen \in BOOLEAN
    /\ Checkers \subseteq {"sp", "cmd"}
    /\ FaultKinds \subseteq {"space", "sync", "rename", "dirsync"}
    /\ Window \in Nat \ {0}
    /\ MaxCuts \in Nat /\ MaxKills \in Nat
    /\ MaxCrashes \in Nat /\ MaxFaults \in Nat
    /\ MaxDeliver \in Nat \ {0}

VARIABLES
    born,        \* packets ever committed to tx/
    tx,          \* packets now in the sender's tx/
    \* the session, as the sender sees it
    up,          \* both sides have an established session
    offered,     \* infosOurSeen
    queue,       \* queueTheir: next offset to send of p, or Absent
    txfd,        \* open files of tx/ (fds)
    \* messages of the session
    infos,       \* INFOs under way
    freqs,       \* freqs[p]: offset of a FREQ under way, or Absent
    wire,        \* wire[p]: offsets of the FILEs of p under way, in order
    dones,       \* DONEs under way
    \* the session, as the receiver sees it
    infosTheir,  \* infosTheir
    rxfd,        \* open .part files (fds)
    hasher,      \* fileHashers: where hashing began and how far it got
    handler,     \* what the receiver goroutine is in the middle of
    \* the receiver's rx/ directory
    part,        \* length of rx/<p>.part, or Absent
    synced,      \* packets whose .part is wholly on the disk
    nock,        \* packets with rx/<p>.nock
    rx,          \* packets with rx/<p>
    solid,       \* packets whose .nock or finished file is wholly on the disk
    undo,        \* name a crash may still turn p's file back to
    seen,        \* packets with rx/seen/<p>
    \* checkers and tosser
    noCK,        \* the receiver's session leaves checksums to nncp-check
    scanned,     \* this session's JobsNoCK listing has been made
    checker,     \* the process has started SPChecker
    tasks,       \* spCheckerTasks: packet, and whether its session's channel is open
    check,       \* what each checker is in the middle of
    tossing,     \* how far the tosser is with p
    delivered,   \* times p was handed to the user
    \* spent budget of the environment
    cuts, kills, crashes, faults

sender   == <<born, tx>>
session  == <<up, offered, queue, txfd>>
channels == <<infos, freqs, wire, dones>>
receiver == <<infosTheir, rxfd, hasher, handler>>
spool    == <<part, synced, nock, rx, solid, undo>>
mode     == <<noCK, scanned, checker>>
checking == <<mode, tasks, check>>
toss     == <<seen, tossing, delivered>>
budget   == <<cuts, kills, crashes, faults>>
vars == <<sender, session, channels, receiver, spool, checking, toss, budget>>

InfoStages == {"seen", "nock", "part"}
FileStages == {"sync", "renameRx", "dirsyncRx", "renameNock", "dirsyncNock"}
Idle       == [at |-> "idle", pkt |-> NoPkt]
At(stage, p) == [at |-> stage, pkt |-> p]
NoCheck    == [at |-> "idle", pkt |-> NoPkt, done |-> "closed"]
NoHash     == [start |-> Absent, next |-> Absent]

Nowhere == [p \in Pkts |-> Absent]
Nothing == [p \in Pkts |-> <<>>]
Unhashed == [p \in Pkts |-> NoHash]

\* Length of what a resumed download starts from.
PartLen(p) == IF part[p] = Absent THEN 0 ELSE part[p]

Init ==
    /\ born = {} /\ tx = {}
    /\ up = FALSE /\ offered = {} /\ queue = Nowhere /\ txfd = {}
    /\ infos = {} /\ freqs = Nowhere /\ wire = Nothing /\ dones = {}
    /\ infosTheir = {} /\ rxfd = {} /\ hasher = Unhashed /\ handler = Idle
    /\ part = Nowhere /\ synced = {} /\ nock = {} /\ rx = {} /\ solid = {}
    /\ undo = [p \in Pkts |-> "none"] /\ seen = {}
    /\ noCK = FALSE /\ scanned = FALSE /\ checker = FALSE
    /\ tasks = {} /\ check = [c \in Checkers |-> NoCheck]
    /\ tossing = [p \in Pkts |-> "idle"] /\ delivered = [p \in Pkts |-> 0]
    /\ cuts = 0 /\ kills = 0 /\ crashes = 0 /\ faults = 0

-----------------------------------------------------------------------------
(* The sender *)

\* nncp-file, nncp-exec... commit an outbound packet: synced, renamed into
\* tx/ and the directory synced before the command returns.
Submit(p) ==
    /\ p \notin born
    /\ born' = born \cup {p}
    /\ tx' = tx \cup {p}
    /\ UNCHANGED <<session, channels, receiver, spool, checking, toss, budget>>

Offerable == {p \in tx : Nice[p] <= NiceOur} \ offered

\* A session is set up: the initial infosOur() is exchanged in the handshake.
\* The first one that does checksum starts the process's checker.
Connect ==
    /\ ~up
    /\ up' = TRUE
    /\ offered' = Offerable
    /\ infos' = Offerable
    /\ noCK' \in NoCKs
    /\ checker' = (checker \/ ~noCK')
    /\ UNCHANGED <<sender, scanned, queue, txfd, freqs, wire, dones, receiver, spool,
                   tasks, check, toss, budget>>

\* The tx/ directory watcher announces what has appeared since.
Offer ==
    /\ up
    /\ Offerable # {}
    /\ offered' = offered \cup Offerable
    /\ infos' = infos \cup Offerable
    /\ UNCHANGED <<sender, up, queue, txfd, freqs, wire, dones, receiver,
                   spool, checking, toss, budget>>

RecvFreq(p) ==
    /\ up
    /\ freqs[p] # Absent
    /\ freqs' = [freqs EXCEPT ![p] = Absent]
    /\ queue' = IF p \in offered THEN [queue EXCEPT ![p] = freqs[p]] ELSE queue
    /\ UNCHANGED <<sender, up, offered, txfd, infos, wire, dones, receiver,
                   spool, checking, toss, budget>>

\* Bug: freq.Offset <= fullSize.
BuggyChunkLen(p, off) == IF off <= Size[p] THEN 1 ELSE 0

\* Chunks in the FILE sent for offset off: none at the end of the file.
ChunkLen(p, off) == IF off < Size[p] THEN 1 ELSE 0

\* One turn of the sender goroutine.  Which queued packet comes first is
\* SPQueue's subject; here any may.  An open file is read even if a DONE
\* has removed its name meanwhile.
SendFile(p) ==
    LET off == queue[p]
        end == off + ChunkLen(p, off)
    IN  /\ up
        /\ off # Absent
        /\ p \in txfd \cup tx
        /\ Len(wire[p]) < Window
        /\ wire' = [wire EXCEPT ![p] = Append(@, off)]
        /\ IF end = Size[p]
           THEN /\ queue' = [queue EXCEPT ![p] = Absent]
                /\ txfd' = txfd \ {p}
           ELSE /\ queue' = [queue EXCEPT ![p] = end]
                /\ txfd' = txfd \cup {p}
        /\ UNCHANGED <<sender, up, offered, infos, freqs, dones, receiver,
                       spool, checking, toss, budget>>

RecvDone(p) ==
    /\ up
    /\ p \in dones
    /\ dones' = dones \ {p}
    /\ tx' = tx \ {p}
    /\ UNCHANGED <<born, session, infos, freqs, wire, receiver, spool,
                   checking, toss, budget>>
-----------------------------------------------------------------------------
(* The receiver goroutine: ProcessSP *)

Fault(kind) ==
    /\ kind \in FaultKinds
    /\ faults < MaxFaults
    /\ faults' = faults + 1

\* An INFO: remembered unless too nice; the finished file is looked for.
RecvInfo(p) ==
    /\ up /\ handler = Idle
    /\ p \in infos
    /\ infos' = infos \ {p}
    /\ IF Nice[p] > NiceTheir
       THEN UNCHANGED <<infosTheir, dones, handler>>
       ELSE /\ infosTheir' = infosTheir \cup {p}
            /\ IF p \in rx
               THEN dones' = dones \cup {p} /\ UNCHANGED handler
               ELSE handler' = At("seen", p) /\ UNCHANGED dones
    /\ UNCHANGED <<sender, session, freqs, wire, rxfd, hasher, spool,
                   checking, toss, budget>>

\* Bug: seen/ is not looked at.
BuggyStatSeen ==
    /\ handler.at = "seen"
    /\ handler' = At("nock", handler.pkt)
    /\ UNCHANGED <<sender, session, channels, infosTheir, rxfd, hasher, spool,
                   checking, toss, budget>>

\* Bug: an already seen packet is skipped without DONE.
MuteStatSeen ==
    /\ handler.at = "seen"
    /\ handler' = IF handler.pkt \in seen THEN Idle ELSE At("nock", handler.pkt)
    /\ UNCHANGED <<sender, session, channels, infosTheir, rxfd, hasher, spool,
                   checking, toss, budget>>

\* Then seen/ is looked at...
StatSeen ==
    LET p == handler.pkt
    IN  /\ handler.at = "seen"
        /\ IF p \in seen
           THEN dones' = dones \cup {p} /\ handler' = Idle
           ELSE handler' = At("nock", p) /\ UNCHANGED dones
        /\ UNCHANGED <<sender, session, infos, freqs, wire, infosTheir, rxfd,
                       hasher, spool, checking, toss, budget>>

\* ... then the .nock file, whose presence puts the packet off...
StatNock ==
    /\ handler.at = "nock"
    /\ handler' = IF handler.pkt \in nock THEN Idle ELSE At("part", handler.pkt)
    /\ UNCHANGED <<sender, session, channels, infosTheir, rxfd, hasher, spool,
                   checking, toss, budget>>

\* Bugs: a .part file of the full size is taken for a finished download; it
\* is not requested; the offset is forgotten.
StatPartAs(reply(_), request(_)) ==
    LET p == handler.pkt
    IN  /\ handler.at = "part"
        /\ handler' = Idle
        /\ dones' = dones \cup reply(p)
        /\ freqs' = [freqs EXCEPT ![p] = request(p)]
        /\ UNCHANGED <<sender, session, infos, wire, infosTheir, rxfd, hasher,
                       spool, checking, toss, budget>>
Full(p) == PartLen(p) = Size[p]
HastyStatPart == StatPartAs(LAMBDA p : IF Full(p) THEN {p} ELSE {},
                            LAMBDA p : IF Full(p) THEN Absent ELSE PartLen(p))
MuteStatPart == StatPartAs(LAMBDA p : {},
                           LAMBDA p : IF Full(p) THEN Absent ELSE PartLen(p))
ForgetfulStatPart == StatPartAs(LAMBDA p : {}, LAMBDA p : 0)

\* ... and the .part file, from whose end the packet is requested, if the
\* filesystem has room for the rest of it.
StatPart ==
    LET p == handler.pkt
    IN  /\ handler.at = "part"
        /\ handler' = Idle
        /\ \/ /\ freqs' = [freqs EXCEPT ![p] = PartLen(p)]
              /\ UNCHANGED faults
           \/ Fault("space") /\ UNCHANGED freqs
        /\ UNCHANGED <<sender, session, infos, wire, dones, infosTheir, rxfd,
                       hasher, spool, checking, toss, cuts, kills, crashes>>

\* The hasher that sees the FILE at offset off: that of the open file, or a
\* new one when the file is opened.
HasherAt(p, off) ==
    IF p \in rxfd THEN hasher[p]
    ELSE IF noCK THEN NoHash ELSE [start |-> off, next |-> off]

\* Bug: the hasher's offset stays.
BuggyHashed(h, off, len) == IF h.next = off THEN h ELSE NoHash

\* A hasher takes only the chunk it waits for; another one drops it.
Hashed(h, off, len) ==
    IF h.next = off THEN [start |-> h.start, next |-> off + len] ELSE NoHash

\* A FILE of a known packet is written at its offset and hashed.
RecvFile(p) ==
    LET off == Head(wire[p])
        len == ChunkLen(p, off)
        end == off + len
    IN  /\ up /\ handler = Idle
        /\ wire[p] # <<>>
        /\ wire' = [wire EXCEPT ![p] = Tail(@)]
        /\ IF p \notin infosTheir
           THEN UNCHANGED <<rxfd, hasher, part, synced, handler>>
           ELSE /\ rxfd' = rxfd \cup {p}
                /\ hasher' = [hasher EXCEPT ![p] =
                                 Hashed(HasherAt(p, off), off, len)]
                /\ part' = [part EXCEPT ![p] =
                               IF len > 0 /\ end > PartLen(p) THEN end
                                                             ELSE PartLen(p)]
                /\ synced' = IF len > 0 THEN synced \ {p} ELSE synced
                /\ handler' = IF end = Size[p] THEN At("sync", p) ELSE Idle
        /\ UNCHANGED <<sender, session, infos, freqs, dones, infosTheir, nock,
                       rx, solid, undo, checking, toss, budget>>

\* Bugs: the file is not synced; the checksum is not compared.
SyncFileAs(onDisk, verified(_)) ==
    LET p == handler.pkt
        fromStart == hasher[p] # NoHash /\ hasher[p].start = 0
        next == IF fromStart THEN "renameRx" ELSE "renameNock"
    IN  /\ handler.at = "sync"
        /\ handler' = IF verified(p) THEN At(next, p) ELSE Idle
        /\ rxfd' = IF verified(p) /\ fromStart THEN rxfd ELSE rxfd \ {p}
        /\ synced' = IF onDisk THEN synced \cup {p} ELSE synced
        /\ hasher' = [hasher EXCEPT ![p] = NoHash]
        /\ UNCHANGED <<sender, session, channels, infosTheir, part, nock, rx,
                       solid, undo, checking, toss, budget>>
UnsyncedFile == SyncFileAs(FALSE, LAMBDA p : p \notin Rotten)
TrustingSyncFile == SyncFileAs(TRUE, LAMBDA p : TRUE)

\* The file is complete: it is synced, and what was hashed from its very
\* beginning is compared with its name.  A mismatch leaves the .part file.
SyncFile ==
    LET p == handler.pkt
        h == hasher[p]
        fromStart == h # NoHash /\ h.start = 0
    IN  /\ handler.at = "sync"
        /\ \/ /\ Fault("sync")
              /\ handler' = Idle /\ rxfd' = rxfd \ {p}
              /\ UNCHANGED <<synced, hasher>>
           \/ /\ synced' = synced \cup {p}
              /\ hasher' = [hasher EXCEPT ![p] = NoHash]
              /\ \/ ~fromStart /\ handler' = At("renameNock", p)
                 \/ fromStart /\ p \in Rotten /\ handler' = Idle
                 \/ fromStart /\ p \notin Rotten /\ handler' = At("renameRx", p)
              /\ rxfd' = IF fromStart /\ p \notin Rotten THEN rxfd ELSE rxfd \ {p}
              /\ UNCHANGED faults
        /\ UNCHANGED <<sender, session, channels, infosTheir, part, nock, rx,
                       solid, undo, checking, toss, cuts, kills, crashes>>

\* The name a crash restores once p's .part has been renamed over the file
\* called name.  A file already in rx/ leaves it as it was: the crash
\* restores one or the other.
UndoRename(p) ==
    [undo EXCEPT ![p] = IF p \in rx \cup nock THEN @ ELSE "part"]

\* rename() of the .part file to its final name, and to .nock.
Rename(stage, next) ==
    LET p == handler.pkt
    IN  /\ handler.at = stage
        /\ \/ /\ Fault("rename")
              /\ handler' = Idle /\ rxfd' = rxfd \ {p}
              /\ UNCHANGED <<part, synced, solid, undo, nock, rx>>
           \/ /\ handler' = At(next, p)
              /\ part' = [part EXCEPT ![p] = Absent]
              /\ synced' = synced \ {p}
              /\ solid' = IF p \in synced THEN solid \cup {p} ELSE solid \ {p}
              /\ undo' = UndoRename(p)
              /\ IF stage = "renameRx"
                 THEN rx' = rx \cup {p} /\ UNCHANGED nock
                 ELSE nock' = nock \cup {p} /\ UNCHANGED rx
              /\ UNCHANGED <<rxfd, faults>>
        /\ UNCHANGED <<sender, session, channels, infosTheir, hasher, checking,
                       toss, cuts, kills, crashes>>

RenameRx == Rename("renameRx", "dirsyncRx")
RenameNock == Rename("renameNock", "dirsyncNock")

\* fsync() of the directory makes every name in it durable.
Durable == [p \in Pkts |-> "none"]

\* Bug: DONE is queued without syncing the directory.
BuggyDirSyncRx ==
    LET p == handler.pkt
    IN  /\ handler.at = "dirsyncRx"
        /\ handler' = Idle /\ rxfd' = rxfd \ {p}
        /\ dones' = dones \cup {p} /\ infosTheir' = infosTheir \ {p}
        /\ UNCHANGED <<sender, session, infos, freqs, wire, hasher, spool,
                       checking, toss, budget>>

\* rx/ is synced, then DONE is queued and the packet forgotten.  (Without header
\* files its descriptor is closed with the session only; nothing is written to
\* it any more, since a packet is offered once in a session.)
DirSyncRx ==
    LET p == handler.pkt
    IN  /\ handler.at = "dirsyncRx"
        /\ handler' = Idle
        /\ rxfd' = rxfd \ {p}
        /\ \/ /\ Fault("dirsync")
              /\ UNCHANGED <<undo, dones, infosTheir>>
           \/ /\ undo' = Durable
              /\ dones' = dones \cup {p}
              /\ infosTheir' = infosTheir \ {p}
              /\ UNCHANGED faults
        /\ UNCHANGED <<sender, session, infos, freqs, wire, hasher, part,
                       synced, nock, rx, solid, checking, toss, cuts, kills, crashes>>

\* rx/ is synced, then the packet is left to the checker goroutine.
DirSyncNock ==
    LET p == handler.pkt
    IN  /\ handler.at = "dirsyncNock"
        /\ handler' = Idle
        /\ \/ /\ Fault("dirsync")
              /\ UNCHANGED <<undo, tasks, infosTheir>>
           \/ /\ undo' = Durable
              /\ tasks' = tasks \cup {<<p, "open">>}
              /\ infosTheir' = infosTheir \ {p}
              /\ UNCHANGED faults
        /\ UNCHANGED <<sender, session, channels, rxfd, hasher, part, synced,
                       nock, rx, solid, mode, check, toss, cuts, kills, crashes>>

-----------------------------------------------------------------------------
(* The checkers *)

\* JobsNoCK() at the start of a session that does checksum.
Scan ==
    /\ up /\ ~scanned /\ ~noCK
    /\ scanned' = TRUE
    /\ tasks' = tasks \cup {<<p, "open">> : p \in {q \in nock : Nice[q] <= NiceTheir}}
    /\ UNCHANGED <<noCK, checker, sender, session, channels, receiver, spool, check, toss,
                   budget>>

\* CheckNoCK opens and hashes the .nock file.  It is SPChecker's task or a
\* file nncp-check -nock has found.  A file that is gone or does not match
\* is left alone.
CheckOpen(c, p, done) ==
    /\ check[c] = NoCheck
    /\ \/ /\ c = "sp" /\ checker
          /\ <<p, done>> \in tasks /\ tasks' = tasks \ {<<p, done>>}
       \/ /\ c = "cmd" /\ done = "closed"
          /\ p \in nock /\ UNCHANGED tasks
    /\ check' = IF p \in nock \ Rotten
                THEN [check EXCEPT ![c] = [at |-> "good", pkt |-> p, done |-> done]]
                ELSE check
    /\ UNCHANGED <<sender, session, channels, receiver, spool, mode, toss,
                   budget>>

\* A good one is renamed, unless another checker has been faster.
CheckRename(c) ==
    LET p == check[c].pkt
    IN  /\ check[c].at = "good"
        /\ IF p \in nock
           THEN /\ nock' = nock \ {p}
                /\ rx' = rx \cup {p}
                /\ undo' = [undo EXCEPT ![p] =
                              IF p \in rx \/ @ = "part" THEN @ ELSE "nock"]
                /\ check' = [check EXCEPT ![c] = [at |-> "renamed", pkt |-> p,
                                                done |-> check[c].done]]
           ELSE /\ check' = [check EXCEPT ![c] = NoCheck]
                /\ UNCHANGED <<nock, rx, undo>>
        /\ UNCHANGED <<sender, session, channels, receiver, part, synced,
                       solid, mode, tasks, toss, budget>>

\* rx/ is synced; SPChecker sends DONE to the session the task came from,
\* and recovers from the panic if that session is over.
CheckSync(c) ==
    LET p == check[c].pkt
    IN  /\ check[c].at = "renamed"
        /\ check' = [check EXCEPT ![c] = NoCheck]
        /\ \/ Fault("dirsync") /\ UNCHANGED <<undo, dones>>
           \/ /\ undo' = Durable
              /\ dones' = IF check[c].done = "open" THEN dones \cup {p} ELSE dones
              /\ UNCHANGED faults
        /\ UNCHANGED <<sender, session, infos, freqs, wire, receiver, part,
                       synced, nock, rx, solid, mode, tasks, toss, cuts,
                       kills, crashes>>

-----------------------------------------------------------------------------
(* The tosser, reduced to what it does to rx/ *)

Counted(n) == IF n < MaxDeliver THEN n + 1 ELSE MaxDeliver

TossDeliver(p) ==
    /\ p \in rx /\ tossing[p] = "idle"
    /\ delivered' = [delivered EXCEPT ![p] = Counted(@)]
    /\ tossing' = [tossing EXCEPT ![p] = "delivered"]
    /\ UNCHANGED <<sender, session, channels, receiver, spool, checking, seen,
                   budget>>

TossSeen(p) ==
    /\ tossing[p] = "delivered"
    /\ tossing' = [tossing EXCEPT ![p] = "seen"]
    /\ IF DoSeen THEN seen' = seen \cup {p} /\ undo' = Durable
                 ELSE UNCHANGED <<seen, undo>>
    /\ UNCHANGED <<sender, session, channels, receiver, part, synced, nock, rx,
                   solid, checking, delivered, budget>>

TossRemove(p) ==
    /\ tossing[p] = "seen"
    /\ tossing' = [tossing EXCEPT ![p] = "idle"]
    /\ rx' = rx \ {p}
    /\ undo' = [undo EXCEPT ![p] = IF p \in nock THEN @ ELSE "none"]
    /\ UNCHANGED <<sender, session, channels, receiver, part, synced, nock,
                   solid, checking, seen, delivered, budget>>

-----------------------------------------------------------------------------
(* Ends of sessions and processes *)

\* All that belongs to a session goes with it.
SessionOver ==
    /\ up' = FALSE
    /\ offered' = {} /\ queue' = Nowhere /\ txfd' = {}
    /\ infos' = {} /\ freqs' = Nowhere /\ wire' = Nothing /\ dones' = {}
    /\ infosTheir' = {} /\ rxfd' = {} /\ hasher' = Unhashed
    /\ handler' = Idle
    /\ noCK' = FALSE /\ scanned' = FALSE

\* Tasks outlive the session: their answers have nowhere to go any more.
Orphaned == {<<t[1], "closed">> : t \in tasks}
Deaf == [c \in Checkers |-> [at |-> check[c].at, pkt |-> check[c].pkt,
                             done |-> "closed"]]

\* SetDead on either side, between two messages: a handler at work finishes
\* before its session's locks are released, its replies going nowhere.
Hang ==
    /\ up /\ handler = Idle
    /\ SessionOver
    /\ tasks' = Orphaned /\ check' = Deaf
    /\ UNCHANGED <<sender, spool, checker, toss, kills, crashes, faults>>

Quiet ==
    /\ infos = {} /\ dones = {}
    /\ freqs = Nowhere /\ queue = Nowhere /\ wire = Nothing

\* Nothing but pings for onlineDeadline: the session is closed.
OnlineDeadline == Quiet /\ Hang /\ UNCHANGED cuts

\* The link breaks, or either side runs into its maxOnlineTime.
Cut == cuts < MaxCuts /\ Hang /\ cuts' = cuts + 1

\* The sender cannot open a file that is gone: its goroutine returns and
\* the session with it.
SendMissing(p) ==
    /\ queue[p] # Absent
    /\ p \notin txfd \cup tx
    /\ Hang /\ UNCHANGED cuts

\* The receiving process dies, at any point.
Kill ==
    /\ kills < MaxKills /\ kills' = kills + 1
    /\ SessionOver
    /\ checker' = FALSE /\ tasks' = {}
    /\ check' = [c \in Checkers |-> IF c = "sp" THEN NoCheck ELSE check[c]]
    /\ UNCHANGED <<sender, spool, toss, cuts, crashes, faults>>

\* What a crash may leave of n chunks of p: all of them, if they were synced.
Remains(p, n, onDisk) ==
    IF onDisk THEN {n} ELSE {m \in Absent..Size[p] : m <= n}

Lengths == UNION {Absent..Size[p] : p \in Pkts}

\* The receiving machine crashes: the processes are gone, the unsynced ends
\* of files too (a finished file so damaged is counted as lost), and any
\* rename that was not synced may be undone.  A seen/ file may be gone: the
\* tosser syncs rx/, which is not the directory it is in.
Crash ==
    /\ crashes < MaxCrashes /\ crashes' = crashes + 1
    /\ SessionOver
    /\ checker' = FALSE /\ tasks' = {}
    /\ check' = [c \in Checkers |-> NoCheck]
    /\ tossing' = [p \in Pkts |-> "idle"]
    /\ \E undone \in SUBSET {p \in Pkts : undo[p] # "none"},
          torn \in SUBSET ((rx \cup nock) \ solid) :
         LET toPart == {p \in undone : undo[p] = "part" /\ p \in rx \cup nock}
             toNock == {p \in undone : undo[p] = "nock" /\ p \in rx}
         IN  /\ rx' = rx \ (toPart \cup toNock \cup torn)
             /\ nock' = ((nock \ toPart) \cup toNock) \ torn
             /\ part' \in [Pkts -> Lengths]
             /\ \A p \in Pkts :
                  part'[p] \in IF p \in toPart
                               THEN Remains(p, Size[p], p \in solid)
                               ELSE Remains(p, part[p], p \in synced)
             /\ synced' = {p \in Pkts : part'[p] # Absent}
    /\ undo' = Durable
    /\ seen' \in SUBSET seen
    /\ UNCHANGED <<sender, delivered, solid, cuts, kills, faults>>

-----------------------------------------------------------------------------
Receive ==
    \/ \E p \in Pkts : RecvInfo(p) \/ RecvFile(p)
    \/ StatSeen \/ StatNock \/ StatPart
    \/ SyncFile \/ RenameRx \/ RenameNock \/ DirSyncRx \/ DirSyncNock

Checker(c) ==
    \/ \E p \in Pkts, done \in {"open", "closed"} : CheckOpen(c, p, done)
    \/ CheckRename(c) \/ CheckSync(c)

Tosser(p) == TossDeliver(p) \/ TossSeen(p) \/ TossRemove(p)

Next ==
    \/ \E p \in Pkts : Submit(p) \/ RecvFreq(p) \/ SendFile(p) \/ RecvDone(p)
    \/ Connect \/ Offer
    \/ Receive
    \/ Scan
    \/ \E c \in Checkers : Checker(c)
    \/ \E p \in Pkts : Tosser(p)
    \/ OnlineDeadline \/ Cut \/ Kill \/ Crash
    \/ \E p \in Pkts : SendMissing(p)

Spec == Init /\ [][Next]_vars

\* Goroutines that can run do, links are set up again, idle sessions end.  A
\* session lists its .nock files long before it can be idle, and tasks queue
\* up for the checker in order: both are strongly fair.
Fairness ==
    /\ WF_vars(Connect) /\ WF_vars(Offer) /\ WF_vars(OnlineDeadline)
    /\ WF_vars(Receive)
    /\ SF_vars(Scan)
    /\ \A p \in Pkts :
         /\ WF_vars(RecvFreq(p)) /\ WF_vars(SendFile(p)) /\ WF_vars(RecvDone(p))
         /\ WF_vars(SendMissing(p)) /\ WF_vars(Tosser(p))
         /\ \A c \in Checkers :
              SF_vars(\E done \in {"open", "closed"} : CheckOpen(c, p, done))
    /\ \A c \in Checkers : WF_vars(CheckRename(c) \/ CheckSync(c))

FairSpec == Spec /\ Fairness

-----------------------------------------------------------------------------
(* Properties *)

TypeSender == born \subseteq Pkts /\ tx \subseteq Pkts
TypeFlags ==
    /\ up \in BOOLEAN
    /\ noCK \in BOOLEAN /\ scanned \in BOOLEAN /\ checker \in BOOLEAN
TypeSession ==
    /\ offered \subseteq Pkts /\ txfd \subseteq Pkts
    /\ queue \in [Pkts -> Int] /\ \A p \in Pkts : queue[p] \in Absent..Size[p]
TypeChannels ==
    /\ infos \subseteq Pkts /\ dones \subseteq Pkts
    /\ freqs \in [Pkts -> Int] /\ \A p \in Pkts : freqs[p] \in Absent..Size[p]
    /\ wire \in [Pkts -> Seq(Nat)]
    /\ \A p \in Pkts : \A i \in 1..Len(wire[p]) : wire[p][i] <= Size[p]
TypeReceiver ==
    /\ infosTheir \subseteq Pkts /\ rxfd \subseteq Pkts
    /\ hasher \in [Pkts -> [start : Int, next : Int]]
    /\ \/ handler = Idle
       \/ handler \in [at : InfoStages \cup FileStages, pkt : Pkts]
TypeSpool ==
    /\ part \in [Pkts -> Int] /\ \A p \in Pkts : part[p] \in Absent..Size[p]
    /\ synced \subseteq Pkts /\ solid \subseteq Pkts
    /\ nock \subseteq Pkts /\ rx \subseteq Pkts
    /\ undo \in [Pkts -> {"none", "part", "nock"}]
TypeChecking ==
    /\ tasks \subseteq Pkts \X {"open", "closed"}
    /\ check \in [Checkers -> [at : {"idle", "good", "renamed"},
                               pkt : Pkts \cup {NoPkt},
                               done : {"open", "closed"}]]
    /\ \A c \in Checkers : check[c].at # "idle" => check[c].pkt \in Pkts
TypeToss ==
    /\ seen \subseteq Pkts
    /\ tossing \in [Pkts -> {"idle", "delivered", "seen"}]
    /\ delivered \in [Pkts -> 0..MaxDeliver]
TypeBudget ==
    /\ cuts \in 0..MaxCuts /\ kills \in 0..MaxKills
    /\ crashes \in 0..MaxCrashes /\ faults \in 0..MaxFaults

TypeOK ==
    /\ TypeFlags /\ TypeSender /\ TypeSession /\ TypeChannels /\ TypeReceiver
    /\ TypeSpool /\ TypeChecking /\ TypeToss /\ TypeBudget

\* The receiver has, or had and handed over, all of p: the finished file, the
\* one waiting for its checksum, or a complete .part file that is on the disk.
Copy(p) ==
    \/ p \in rx \cup nock
    \/ delivered[p] > 0
    \/ part[p] = Size[p] /\ p \in synced

Released(p) == p \in born \ tx

\* The sender deletes its file only when the receiver has a complete copy of
\* an intact packet, and that copy outlives every crash, kill and failing
\* call from then on (ProcessSP's DONE, INFO's "already done" and SPChecker
\* against the order of sync, rename and directory sync).
CopyKept == \A p \in Pkts : Released(p) => p \notin Rotten /\ Copy(p)

\* ... and that copy is one the tosser or a checker will find: no released
\* packet is left behind as a .part file nobody asks the rest of any more.
\* It takes a kill between the rename and the directory sync and then a
\* crash (or a failing directory sync and a crash) to break this.
NoOrphan ==
    kills = 0 /\ faults = 0 =>
        \A p \in Pkts : Released(p) => p \in rx \cup nock \/ delivered[p] > 0

\* FILE chunks only ever extend the .part file: resuming, overlapping
\* requests, aborted sessions and crashes never make a hole or an overwrite.
AppendOnly ==
    [][\A p \in Pkts : RecvFile(p) /\ p \in infosTheir
                          => Head(wire[p]) = PartLen(p)]_vars

\* The hasher of an open .part file has seen all that was written since it
\* was opened: ProcessSP's "offset differs" branch is never taken, and a
\* hasher that began at 0 has hashed the whole file.
HashersInStep ==
    \A p \in rxfd : ~noCK =>
        \/ hasher[p].next = PartLen(p)
        \/ handler.at \in FileStages /\ handler.pkt = p

Streaming(p) == freqs[p] # Absent \/ queue[p] # Absent \/ wire[p] # <<>>

\* What is under way for p continues its .part file without a gap: the FILEs
\* on the wire, then the sender's queue, or else one FREQ.
Continues(p) ==
    /\ \A i \in 1..Len(wire[p]) : wire[p][i] = PartLen(p) + i - 1
    /\ Len(wire[p]) > 1 => PartLen(p) + Len(wire[p]) <= Size[p]
    /\ queue[p] # Absent =>
         /\ queue[p] = PartLen(p) + Len(wire[p])
         /\ Len(wire[p]) > 0 => queue[p] < Size[p]
    /\ freqs[p] # Absent =>
         freqs[p] = PartLen(p) /\ queue[p] = Absent /\ wire[p] = <<>>

\* A packet is requested at most once in a session, and nothing of it is
\* under way while the receiver is at work on its INFO or completes it.
OneStream ==
    /\ \A p \in Pkts : Continues(p)
    /\ \A p \in Pkts : Streaming(p) =>
         p \in offered /\ p \in infosTheir /\ p \notin infos /\ handler.pkt # p
    /\ infos \subseteq offered
    /\ ~up => offered = {}
    /\ handler # Idle =>
         /\ handler.pkt \in offered /\ handler.pkt \in infosTheir
         /\ handler.pkt \notin infos

\* Nothing that fails its checksum gets the name the tosser looks for.
OnlyIntact == rx \cap Rotten = {}

\* A packet is handed to the user once if nothing interrupts its download
\* (it has one chunk) nor takes a seen/ file away: the tosser's order
\* (deliver, seen/, remove) against ProcessSP's order of looking (finished
\* file, then seen/), with DONEs lost in between.
AtMostOnce ==
    crashes = 0 => \A p \in Pkts : Size[p] = 1 => delivered[p] <= 1

\* sp.texi says that INFO is answered with DONE, not FREQ, if the downloaded
\* file exists, and not answered while its .nock file does.
NoRefetch == \A p \in Pkts : freqs[p] # Absent => p \notin rx \cup nock

\* With OneStream the inductive invariant that keeps the copies: whatever
\* will lead to a DONE rests on a complete copy of an intact packet.
KeepBorn ==
    /\ tx \subseteq born /\ offered \subseteq born /\ rx \cup nock \subseteq born
    /\ \A p \in Pkts : part[p] # Absent => p \in born
KeepSolid == rx \cup nock \subseteq solid
KeepDones == \A p \in dones : p \notin Rotten /\ Copy(p)
KeepToss ==
    /\ \A p \in Pkts : delivered[p] > 0 => p \notin Rotten
    /\ \A p \in Pkts : tossing[p] # "idle" \/ p \in seen => delivered[p] > 0
KeepHandler ==
    /\ handler.at \in {"sync", "renameRx", "renameNock"} =>
         part[handler.pkt] = Size[handler.pkt]
    /\ handler.at \in {"renameRx", "renameNock"} => handler.pkt \in synced
    /\ handler.at \in {"renameRx", "dirsyncRx"} => handler.pkt \notin Rotten
    /\ handler.at = "dirsyncRx" => Copy(handler.pkt)
KeepChecks ==
    \A c \in Checkers :
         /\ check[c].at # "idle" => check[c].pkt \notin Rotten
         /\ check[c].at = "renamed" => Copy(check[c].pkt)
Keeping ==
    /\ KeepBorn /\ CopyKept /\ OnlyIntact /\ KeepSolid /\ KeepDones
    /\ KeepToss /\ KeepHandler /\ KeepChecks

\* The protocol implements the custody transfer of PacketCustody.
Custody == INSTANCE PacketCustody WITH
    Packets <- Pkts,
    outbox <- tx,
    custody <- {p \in Pkts : p \notin Rotten /\ Copy(p)},
    handedOver <- {p \in Pkts : delivered[p] > 0}
CustodyKept == Custody!Spec

Wanted == {p \in Pkts \ Rotten : Nice[p] <= NiceOur /\ Nice[p] <= NiceTheir}

\* Every packet both sides' niceness lets through is handed to the user...
Delivers == \A p \in Pkts : p \in Wanted \cap born ~> delivered[p] > 0

\* ... and is removed from the sender's spool, whatever DONEs are lost.
Releases == \A p \in Pkts : p \in Wanted \cap born ~> p \notin tx
=============================================================================
