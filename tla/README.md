# NNCP in TLA+

TLA+ models of NNCP's own core logic (`src/src`), TLC configurations that check
them on small instances, and TLAPS proofs of what matters most for every value
of the constants.

    tlc -config SPTransfer_safety.cfg MCSPTransfer.tla
    tlapm SPTransferProofs.tla

Status: the online synchronization protocol (file transfer, sending queue,
session), the tosser and the relaying of area messages, the calls between two
nodes, the offline transports, and the code a file goes through (packets, tree
hashes, chunks, `Tx`'s goroutines) are modelled and checked, and every safety property
a passing run checks is proved, four of them under one of two hypotheses. Sections 5 and 6 say what is left.

## 1. The system

NNCP is a store-and-forward network. Every node has a *spool*: a directory per
neighbour with `tx/` (packets for it), `rx/` (packets from it), `rx/seen/`,
lock files and `area/`. Commands and daemons are separate processes that share
nothing but this filesystem.

| Part | State | Operations | Talks to |
|---|---|---|---|
| Outgoing packets (`tx.go`, `tmp.go`) | temporary files, `tx/` | TxFile, TxExec, TxFreq, TxTrns, TxACK, Commit | spool |
| SP file transfer (`sp.go`) | `tx/`, `rx/*.part`, `rx/*.nock`, `rx/*`, `seen/`; `infosTheir`, `infosOurSeen`, `fds`, `fileHashers` | INFO, FREQ, FILE, DONE handlers of `ProcessSP`; the sender goroutine; the `tx/` watcher | the peer's SP, checker, tosser |
| SP sending queue (`sp.go`) | `queueTheir` | FREQ inserts, sender looks / reads / advances | file transfer |
| SP session (`sp.go`) | `isDead`, `payloads`, `pings`, wait group, locks | StartI, StartR, StartWorkers, SetDead, Wait | all SP goroutines |
| Checker (`check.go`, SPChecker in `sp.go`) | `spCheckerTasks`, `.nock` files | CheckNoCK, DONE to the task's session | file transfer |
| Tosser (`toss.go`) | `rx/`, `seen/`, the user's Incoming, `tx/` of others | Toss, jobProcess per packet type, AutoToss | spool, user's commands |
| Area tosser (`toss.go`) | `area/<id>/<hash>` | copies an area packet to each subscriber, delivers once | tosser, Tx |
| Chunked files (`chunked.go`, nncp-reass) | `.nncp.meta`, `.nncp.chunkN` | split, verify, reassemble, remove | tosser, user |
| MTH (`mth.go`) | stack of hashes | Write, PreaddFrom, Sum | SP, check, pkt |
| Packet format (`pkt.go`, `eblob.go`) | none | sizes, padding, encryption | all |
| Locks (`lockdir.go`) | `rx.lock`, `tx.lock`, `toss.lock` | LockDir, UnlockDir | SP, tosser |
| Calls (`call.go`, nncp-call, nncp-caller) | per-node `Busy` | CallNode, cron loop | SP, AutoToss, MCD |
| MCD (`mcd.go`) | `MCDAddrs` | receive, expire | caller |
| xfer, bundle (`cmd/`) | spool directories, media | copy in and out | spool |
| ack, rm (`cmd/`) | spool | acknowledge, remove | Tx, spool |
| Configuration, logs, terminal | none shared | parse, print | -- |

### What is hard, and what should hold

* **File transfer.** Downloads are cut and resumed; the same `rx/` is worked on
  by the receiver goroutine, by SPChecker, by `nncp-check -nock` (which takes no
  lock) and by the tosser; the sender deletes its only copy on DONE. So: no
  released packet is lost, whatever crashes; nothing bad is handed to the
  tosser; chunks never leave holes; a packet is delivered once; every wanted
  packet gets through and is removed from the sender's spool.
* **Sending queue.** Two goroutines work on it, and one of them reads a chunk
  between its look and its update. So: nothing is skipped or sent twice, nicer
  packets go first, everything is sent.
* **Session.** Up to ten goroutines end in any order. So: Wait returns, nobody
  sends on a closed channel, both locks are released.
* **Tosser.** Crashes between delivering and removing; several tossers at once.
  So: nothing is removed undelivered, nothing is overwritten.
* **Area tosser.** One subscriber per pass, retried after failures. So: each
  subscriber gets one copy and the user one message, in any topology.
* **Chunked, MTH, sizes.** Pure arithmetic with boundaries: equal to a plain
  reference definition.
* **Locks, calls, MCD.** Leaks, overlapping calls, duplicate addresses.

`PROJECT.json` lists every hazard found, at its line, with the properties that
cover it or the module that is to.

## 2. Modules

| Modules | About | Proofs |
|---|---|---|
| `SPTransfer` implements `PacketCustody` | file transfer, checkers, crashes | `SPTransferProofs` |
| `SPQueue` implements `FileStreams` | sending queue | `SPQueueProofs` |
| `SPSession` | goroutines, channels and locks of one session | `SPSessionProofs` |
| `Toss` | concurrent tosses of files and other packets, crashes, seen/, AutoToss's result | `TossProofs` |
| `AreaToss` | one area message, nodes with subscriptions in cycles, crashes | `AreaTossProofs` |
| `Calls`, with `MCD` beside it | nncp-caller, nncp-daemon, their locks and tossers; discovered addresses | `CallsProofs` |
| `Offline` | nncp-xfer, nncp-bundle, nncp-ack, nncp-rm | `OfflineProofs` |
| `Tx` | the goroutines that wrap a packet; TxExec's compressor | `FilesProofs` |
| `Packet` | blocks, sizes and padding of encrypted packets | `FilesProofs` |
| `Chunked` | nncp-file -chunked and nncp-reass | `FilesProofs` |
| `MTH` | the incremental tree hash | `FilesProofs` |

Each is instantiated for TLC by the `MC` module of its name. `Files` puts `Tx`, `Packet`,
`Chunked` and `MTH` side by side, which have no state in common. No module has a
RECURSIVE operator: what the code does in a loop is a recursive function on an interval
with a number of steps that is enough.

Left for later: header files; `TxTrns`' own copy.

## 3. What is modelled

### SPTransfer

One direction between one pair of nodes: A's `tx/`, B's `rx/`. Every packet is a
model value, its content a number of chunks, and a `.part` file its length
(`AppendsOnly` proves that this is all there is to it).

| Definition | Code |
|---|---|
| `Submit` | `TmpFileWHash.Commit`: synced and renamed into `tx/` |
| `Connect`, `Offer` | the handshake's `infosOur` and the `tx/` watcher |
| `RecvFreq`, `SendFile`, `SendMissing`, `RecvDone` | A's receiver (FREQ, DONE) and sender goroutines |
| `RecvInfo`, `StatSeen`, `StatNock`, `StatPart` | B's INFO handler, one step per look at the filesystem |
| `RecvFile`, `SyncFile`, `RenameRx`, `DirSyncRx`, `RenameNock`, `DirSyncNock` | B's FILE handler, one step per filesystem call at the end of a file; each may fail |
| `Scan`, `CheckOpen`, `CheckRename`, `CheckSync` | `JobsNoCK`, `CheckNoCK` and SPChecker, which the first session without `-noCK` starts for the whole process; checker `"cmd"` is a separate `nncp-check -nock` |
| `TossDeliver`, `TossSeen`, `TossRemove` | what tossing does to `rx/`; the seen/ file if `DoSeen` |
| `OnlineDeadline`, `Cut`, `Kill`, `Crash` | idle sessions; broken links and `maxOnlineTime`; the end of B's process; the end of B's machine |

The filesystem is modelled by what is durable: `synced` and `solid` say which
contents are wholly on the disk, `undo[p]` which name a crash may bring back
until the directory is synced. `Crash` undoes any subset of the unsynced
renames and truncates any unsynced file. `handler` is the receiver goroutine's
program counter; messages under way are sets or, for FILEs, the sequence of
their offsets.

Not in it: the noise handshake, HALT and PING (`SPSession`), rate limits, `.hdr`
files (a cache of the packet's header), sessions with `xxOnly` or `listOnly`
(fewer actions of the same), the descriptor of a finished file that stays open when header
files are off (`sp.go:1514`; nothing depends on it), A's crashes (A's `tx/` is durable before a packet
is offered, and `RecvDone` undone by a crash only offers it again).

### SPQueue

`RecvFreq` inserts by niceness where the loop of `ProcessSP` leaves
`insertIdx`; `Pick` is the sender goroutine's look at the first entry under the
lock; `Advance` is everything after the read: the lookup by hash, the new offset
or the removal. The file's chunk is read between the two without the lock.
Each packet is requested once in a session, which is `OneStream` of SPTransfer.

### Toss

Any number of tossers (`nncp-toss` processes, cron jobs, the AutoToss goroutines
of daemons and calls) on any number of neighbours' `rx/`.

| Definition | Code |
|---|---|
| `Begin`, `Refused`, `LockDir` | `Toss`: the lock of the neighbour's directory, taken without waiting, and the listing of `rx/` |
| `Pass` | packets that are too nice, excluded by -nofile, -noexec..., or fail at once (unknown sender, no handle, broken data) |
| `Open` | decryption into the pipe and the switch on the packet's type |
| `Choose`, `Free`, `Rename`, `SyncDir` | a file packet: temporary file, search for a free name, rename, sync of the Incoming directory |
| `Work` | an exec, freq, trns or ACK packet up to its effect: the command has run, outgoing packets are committed |
| `MakeSeen`, `Remove` | common to all types: the seen/ file and a sync of `rx/`, the removal |
| `Fail` | a call that fails: the packet stays, the toss is bad |
| `End`, `Report` | the lock is dropped; what `nncp-toss` and AutoToss make of the result |
| `Kill`, `Crash`, `Gone` | a tosser's process dies, with its locks; the machine crashes |

`loose` holds the names a crash may take away again, `removed` the packets
whose removal from `rx/` it may undo; seen/ files are never synced (the sync
after them is of `rx/`, not of `rx/seen/`), so a crash may take any of them.
A command or a set of outgoing packets is a counter (`effects`). SPTransfer has
the tosser in three steps without its crashes; those are the subject here.

Not in it: area packets (`AreaToss`), notifications by mail, dry runs,
the node's own `tx/` (nncp-toss tosses it with everything but areas and ACKs
excluded).

### AreaToss

One message to an area, any number of nodes, each with subscribers of its own
and with or without the area's private key.

| Definition | Code |
|---|---|
| `Post`, `PostSeen`, `PostStop` | `Tx` to an area: the packet to oneself is committed, then `SPOOL/SELF/area/AREA/MsgHash` is made, unless the command ends in between |
| `Begin` | `Toss` has the neighbour's lock and comes to the packet |
| `Pass`, `Unserved`, `Target`, `Own` | one pass of `jobProcess` over the area packet: the first subscriber without a file, or, when there is none, what the node's own file and key say |
| `Send`, `Mark` | `Tx` to the subscriber; his file is made, `JobRepeatProcess` reopens the packet |
| `Read`, `MarkSelf`, `Remove` | the message is processed as an ordinary packet; the node's own file is made (or not: that is no error there); the packet is removed |
| `Stop`, `Crash` | a failing call or refused author, a dying process; a crash, which may take seen files' new directories and undo unsynced removals |

The subscriber is skipped when he is who the packet is from. The code also
compares him with the message's author, but by the address of two structures that
are never the same, so the author gets his message back from other nodes (as
`doc/multicast.texi`'s example has it), which `Target` follows. A subscriber
skipped in this way leaves the payload unread; when that is longer than the pipe's
buffers (`Long`), the writing side fails and the repetition is left to the next
toss. `Tx` is one step: what it commits is in the peer's `rx/` (`SPTransfer`).
`Stop` at `Read` is also the reader who does not know the author; such a node
keeps its copy for as long as it refuses him.

### SPSession

One session at one node. `pc` says where each goroutine is, `todo` what it has
still to send on `payloads` or `pings`; both channels are unbuffered, so a
goroutine that sends waits until the sender goroutine takes a payload or, after
`SetDead`, until a draining goroutine does.

| Definition | Code |
|---|---|
| `Script`, `Lock`, `LockFails`, `Shake`, `ShakeFails` | StartI and StartR, in the order each does it; the error of the second lock forgets the first |
| `StartRest`, `FirstBad`, `StartWorkers` | StartWorkers: the goroutine of remaining INFOs, the first payload, the others |
| `HandOver`, `Drain`, `SetDead` | one payload through a channel |
| `PingTick`, `Deadline`, `PeriodicEnds` | the periodic goroutine: pings, onlineDeadline, maxOnlineTime |
| `DirEvent`, `Scanned`, `WatcherEnds` | the watcher of tx/ |
| `SenderTakes` ... `SenderCloses` | the sender goroutine and its deferred calls |
| `ReadSP` ... `ReceiverCloses` | the receiver: timeouts in the middle of a message, replies, its end |
| `CheckerDone`, `CheckerLeaves` | SPChecker's DONE, from outside of the wait group |
| `Wait`, `PanicBadMagic`, `PanicMapRace`, `Collect` | the end, regular or not; the collector closes a forgotten lock's file |

The two outcomes the build can produce beside an orderly end are actions: the type
assertion on an error that is not an `*xdr.UnmarshalError` (`sp.go:1043`) and the
unlocked map `infosOurSeen` (`sp.go:1637`), which Go's runtime turns into the end of
the process. `Skewed` is a stream read from the middle of a message; it is
what `Timeout` may leave behind.

### Calls, MCD

The calls between a node and one neighbour: a goroutine of nncp-caller per
configured call, a goroutine of nncp-daemon per connection, an AutoToss beside
each. `flocks` are the locks held, on the file a name had when it was opened:
`nncp-rm -lock` gives the name a new file (`removed`). A lock is `lost` when
StartI or StartR returned without it; only the garbage collector's finaliser
gives it back. `Kill` ends a process with all its goroutines.

`MCD` is the table of one neighbour's discovered addresses: receivers with their
two locked regions (`LookUp`, `Append1`), the sweeper (`Sweep`). `heard` is a
history variable. `Calls` reads its length in `Begin`, as `nncp-caller` does when it
puts the table before the configured addresses.

### Offline

Node A's packets for B, and the ACKs B sends back, through a directory
(`media`) or a stream (`tape`). A file is absent, intact or corrupt; `unsynced`
are directory entries a crash may take.

| Definition | Code |
|---|---|
| `XferTx`, `XferTxRename`, `XferTxRemove` | nncp-xfer, tx: the copy under a temporary name, the rename, sync and removal |
| `XferSeen`, `XferRx` | nncp-xfer, rx: packets with a seen file, others |
| `BundleTx`, `BundleRx`, `Receiving`, `BundleDelete` | nncp-bundle -tx, -rx, -check, -delete |
| `Commit`, `Mismatch`, `CommitFails`, `RxRemove` | the received file's checksum, rename, and the removal from the medium |
| `Toss`, `Ack`, `RmAck`, `RmTmp` | tossing, nncp-ack, nncp-rm -pkt and -tmp |
| `Kill`, `Crash`, `Rot` | a command dies; a machine crashes; the medium decays |

`unchecked` and `risked` are history variables: packets a bundle brought without
-check, and packets whose last safe copy was given up on purpose or on trust: sent with
nncp-bundle -tx -delete, acknowledged before they were verified or before their rename was
durable, replaced by an unverified one, or entrusted to a medium that went bad.
A packet whose seen file is there may stay on the medium (`RxKeeps`, nncp-xfer -keep).

### Tx, Packet, MTH, Chunked

`Tx`: one goroutine per layer of encryption and one that copies to the temporary
file, each writing into the next one's pipe; the caller takes as many results as
there are goroutines, or fewer when one is an error. `TxExec` puts a compressor
before the first, `TxFile` the archive of a directory (`source`, `feed`). `GoesOn` says
who can go on without a further failure; `NeverStuck`, that somebody can before the
caller has an answer. It is written out rather than as ENABLED, so that it can be proved
about; TLC's check for deadlock sees to it that where `GoesOn` holds, something can
happen (`Over` in `MCFiles`).

`Packet`: a byte of a sealed block stands for key, nonce and text of the whole
block, so that a block opens only if all of it is there under the key and nonce it was
sealed with. The reader's stages (`FullRead`, `SizeRead`, `RestRead`, `LastRead`,
`PadRead`) are the parts of `PktEncRead`. `Around(n)` is a packet sent over `n` hops, and
`AreaAround(n)` an area's: sealed for the area first, then for `n` hops, and padded as for
`n + 1` of them.

`MTH`: hashes are the trees of what was hashed. `MTHFat`, the code's own simple
implementation, is the reference; `MTHSeq` is written to in pieces of any size
from any offset, and given the beginning afterwards (`PreaddFrom`). Each loop is a step
(`foldOnce`, `Block`, `collapseOnce`, `Up`) that changes nothing once the loop's condition
is false, and is taken as many times as there are hashes or bytes, which the proof
shows to be enough. The hasher's `size` and `finished` are `filesize` and `hashed`.

`Chunked`: a file that is sent anew may have changed (`Versions`), its chunks have the
same names, and several `nncp-reass` may be at work in the directory they are
delivered to. `crossed` is a history variable: one of them has removed what another had
still to copy or to remove. Where there was more than one upload and that has happened
(not `Undisturbed`), nothing is promised of what is put together. Nothing is promised
either of the chunks that a run had removed before it was stopped (`broken`). `Check`,
which looks at one chunk after the other in the code, is one step: chunks are only
added, and whatever another run removes in between is a crossed removal. The second
upload is one that was begun because the first had failed; one after a success is left
out.

### Abstract specifications

* `PacketCustody`: the outbox, who has custody, what was handed over. A packet
  leaves the outbox only when it is in custody, and custody is never given up.
  `SPTransfer` implements it with custody defined as "intact, and finished, or
  waiting as `.nock`, or a complete and synced `.part`, or delivered".
* `FileStreams`: every requested packet is sent chunk after chunk, each once, in
  any interleaving of packets. `SPQueue` implements it.

## 4. What is checked

| Run | Instance | Shows |
|---|---|---|
| `SPTransfer_safety` | one packet of 2 chunks; both checkers; 1 cut, 1 kill, 1 crash, 1 failing call | types, `CopyKept`, `OneStream`, `HashersInStep`, `AppendOnly`, refinement of `PacketCustody`; `NoOrphan`: without a kill or a failing call, a released packet is where a checker or tosser finds it |
| `SPTransfer_two` | two packets, the longer one rotten; one checker, 2 cuts, 1 crash, 1 failing call | `OnlyIntact`: the rotten packet is never finished; `AtMostOnce`: the other one is delivered once, however many DONEs are lost (there is no nncp-check and no kill in it) |
| `SPTransfer_liveness` | sessions with and without `-noCK`; SPChecker and nncp-check; 1 crash, 1 failing call (but no failing directory sync) | `Delivers`, `Releases` |
| `SPQueue_order` | six packets, three nicenesses, sizes 1 to 3, one excluded by `-pkts`, one unknown | types, order, `OnlyForNicer`, refinement of `FileStreams`, `AllSent` |
| `Toss_safety` | nncp-toss on two neighbours, AutoToss of one; two files of one name; 1 failing call, 1 kill, 1 crash | types, `Exclusive`, `Kept`, `FewCopies`, `SeenGot`, `NoOverwrite` |
| `Toss_live` | the same tossers; a file, a command, a faulty and an excluded packet; 1 failing call | `Tossed` |
| `AreaToss_flood` | three nodes in two circles, one without the key, one that gets the message twice; 1 failure or crash | types, `AllServed`, `FewCopies`, `Flooded` |
| `AreaToss_parallel` | the same, two tossers at one node, no failures | **violated**: `ReadOnce` (finding 1) |
| `SPSession` | both roles, and an initiator that only receives; 2 messages of the peer, 1 remaining payload, 1 ping, 1 DONE of the checker | `SessionOK` (wait group, closed channels, locks), `InOrder`, `Finishes` |
| `Calls` | two calls, one receive-only with when-tx-exists, and a connection; AutoToss with two of them; one configured address and two receivers of one interface; 1 removed lock, 1 kill | `CallsOK`, `TableOK`, `CallsEnd` |
| `Offline` | one packet and its ACK; nncp-xfer at A, nncp-xfer and nncp-bundle at B; 1 trouble: kill, crash, decay, removal | `NeverLost`, `SpoolOK`, `Arrives` |
| `Files` | trees of up to 9 blocks, every offset and way of writing; packets of up to 3 blocks, every damage of one byte and every length; 1 to 3 hops; two uploads of one name, of 2 and 3 chunks, three `nncp-reass`, 2 failures or stops | `SumIsTree`, `PacketOK`, `TxOK`, `ChunkedOK` |

Bounds. Two chunks are the least with a proper beginning, a middle to be cut at
and an end; `Window` = 2 FILEs in flight lets a cut lose more than one. One kill
and one crash in either order, between any two filesystem calls, reach every
combination of unsynced name and unsynced content; a second cut is needed where
a DONE must be lost after a resumed download. `MaxDeliver` = 2 only tells
"twice" from "once". In `Toss` two packets of one neighbour and one name are what
two tossers can quarrel about, and `MaxSuffix` = 3 leaves a free name for every
copy that a failing call, a kill and a crash make possible. Three nodes are the
least with a circle that is not a line back and with a node that gets two copies;
one trouble, at any step of any node, meets every pair of a step done and the next
one not. The proofs have none of these bounds. In `SPSession`
two messages are the least with one cut in its middle and one after it; one goroutine of
each kind can be blocked on the channels with every other. In `Calls` two calls and a
connection are the least with a lock taken by each other process and by one's own;
two receivers of an interface are the least that append an address twice. In
`Offline` one trouble at any step of three commands meets every pair of "done" and
"not yet"; packets do not share anything but temporary names, so one and its ACK are
enough. In `Files` the hash has trees of five levels with full, partial and missing
right sides; a block of 4 bytes with 2 of sizes has every place where the sizes
and the padding can fall; three `nncp-reass`, one with `-keep`, are the least with two
that disturb each other and one that only reads, two uploads the least that can be mixed,
and two failures the least that stop two runs, or an upload and a run. Runs with
`CHECK_DEADLOCK FALSE` may really stop: the queue's sender idles when all is
sent, an area's message comes to rest, a session is over, and a neighbour
that never calls or a node where no command is run does nothing. `Files` stops only
where `Over` says so.

Fairness (`SPTransfer!Fairness`). Goroutines that can run do (Go's scheduler);
the caller sets up sessions again (cron), idle sessions end (`onlineDeadline`).
The listing of `.nock` files and the checker's queue of tasks are strongly fair:
the listing is started before anything else of a session and the task channel
serves its senders in order, so a session is not over each time just before
they run, and no task is passed by others for ever. No cut, kill, crash or
fault is fair. `SPQueue` needs only its sender goroutine to run. A toss that has
begun goes on (weak fairness of `JobProcess`), and every neighbour is tossed
again and again by someone (strong fairness of `Begin`: cron, watchers and
`-cycle` come back, and one that is refused is refused by another toss of the
same neighbour). In `AreaToss` it is enough that every node goes on tossing
something when it can (weak fairness per node), since there are finitely many copies.
In `SPSession`, goroutines that can run do, a
read or write returns by its deadline, and the deadlines of the periodic goroutine
pass at last; a `select` with several ready cases takes each of them some time
(strong fairness: Go chooses at random). Nothing is assumed of the peer. In
`Calls`, dialling, handshakes, sessions and tosses end, which `SPSession!Finishes` and
`Toss!Tossed` are about; nobody needs to call. In `Offline`, commands that were
started end, and those that carry a packet further are started again and again.
The failing directory sync is left out of `SPTransfer_liveness`, since with a
crash after it `Delivers` fails as `NoOrphan` does (below).

### Finding

1. Two tosses of different neighbours' directories, which no common lock keeps
   apart (two AutoToss goroutines, or one and a cron job), both look for the
   node's own seen file before either has made it, and both deliver the message,
   against `doc/multicast.texi:135`.

### Counterexamples kept beside the runs

Seven configurations are kept for their counterexamples. They are not among the
runs of `PROJECT.json`; TLC ends each with an error:

    tlc -config SPTransfer_refetch.cfg MCSPTransfer.tla   # NoRefetch
    tlc -config SPQueue_priority.cfg MCSPQueue.tla        # PriorityFirst
    tlc -config Toss_deep.cfg MCToss.tla                  # Kept
    tlc -config Toss_shared.cfg MCToss.tla                # NoOverwrite
    tlc -config Toss_auto.cfg MCToss.tla                  # BadReported
    tlc -config AreaToss_author.cfg MCAreaToss.tla        # AuthorSpared
    tlc -config Files_area.cfg MCFiles.tla                # AreaAtLeastMinSize

* `NoRefetch`: INFO looks at `rx/<hash>`, `seen/`, `.nock`, `.part` one after the
  other. A checker that renames `.nock` between the first and the third look makes
  the receiver request the packet from offset 0 (`sp.go:1291`), although
  `doc/sp.texi:200` says an already downloaded file is answered with DONE. The file is
  then downloaded twice and, if tossed meanwhile, delivered twice.
* `PriorityFirst`: the insertion loop's index stays at the last entry when no
  entry is nicer (`sp.go:1641`), so a FREQ is inserted before the last entry rather
  than after it. A less important packet thus overtakes a more important one,
  against `doc/sp.texi:207`. `AllButLastSorted` and `OnlyForNicer` say how far the
  damage goes, and are proved: only the queue's last entry may be out of its place,
  and a packet being sent is left for one that is no nicer only when it is that
  last entry. A request that found the queue empty stays the last one until the
  queue runs out.
* `Kept`, for destinations in a subdirectory of Incoming: the file is renamed there,
  but only Incoming itself is synced (`toss.go:385`), so a crash after the packet's
  removal loses it, against `doc/news.texi:810`.
* `NoOverwrite`, where two neighbours share one Incoming directory: the toss locks are
  per neighbour, so two tossers may both find a name free (`toss.go:359`) before
  either has renamed its file to it.
* `BadReported`: AutoToss negates the result of `Toss` (`toss.go:1129`), which is true
  when something went wrong: with `-autotoss`, bad tosses end in success and good ones
  in failure (`doc/news.texi:516`).
* `AuthorSpared`: the author's command commits the area packet before it notes the
  message as read (`tx.go:224`, `tx.go:256`). A tosser that comes in between has the
  author receive his own message, against step 2 of the example in
  `doc/multicast.texi`; `FewCopies` says that he does so once at most, when one
  directory is tossed at a time.
* `AreaAtLeastMinSize`: for an area, `Tx` puts the area itself in front of the hops and then
  reckons with as many encryptions for the area's payload (`tx.go:77`, `tx.go:162`), one
  more than are made. The packet falls short of `-minsize` by up to that one, against
  `doc/news.texi:1226`. `AtLeastMinSize` has what does hold of it.

### Other things seen

What the properties' exceptions stand for, and what was met while modelling:

* `NoOrphan` does not hold with a kill between rename and directory sync and a
  later crash of the machine: then the complete packet survives as `.part` only,
  already released by the sender. `CopyKept` covers that case: the bytes are there.
* A lock forgotten by StartI or StartR (`sp.go:394`, `sp.go:597`) refuses the sessions
  of this node that follow, until the collector runs: `Calls` has the next addresses of
  the same call fail for it.
* `nncp-rm -lock` lets a second holder in (`Exclusive` counts the removals).
* nncp-caller compares a call's direction with "TRx" (`nncp-caller/main.go:189`), while the
  constant is "rx": receive-only calls are not exempt from when-tx-exists.
* `nncp-call -mcd-wait` leaves its loop with `MCDAddrsM` locked for reading
  (`nncp-call/main.go:181`): the receivers of that process then wait for ever.
* An unverified entry of a bundle may replace an intact packet that came another way
  and was acknowledged already, and `nncp-ack`, which takes no lock, acknowledges a
  packet whose rename is not durable yet (`nncp-ack/main.go:143`); `NeverLost` excuses
  both, and says so (`risked`).
* nncp-xfer does not replace a packet on the medium, even if that one is corrupt
  (`nncp-xfer/main.go:453`); nothing but the user removes it (`Arrives` excuses it).
* For an area, `Tx` does not look at the first result's error (`tx.go:203`): a packet that
  was cut short may be committed, or, when the copy failed, `Tx` waits for ever
  (`ignored` in `TxOK`).
* `TxExec` leaves its pipe open when its input cannot be read (`tx.go:659`), and waits for
  its compressor after `Tx` has failed (`tx.go:672`), which then waits for a reader: both
  hang (the exceptions of `TxOK`). The archive's errors are passed on, and do not.
* `nncp-reass` refuses a file whose size is a multiple of the chunk size
  (`nncp-reass/main.go:127`), as it expects the last chunk to be as long as the
  remainder, 0; `SaidLen` says so. nncp-file makes such files.
* A source that fails just after a full chunk is taken to have ended there
  (`tx.go:526`): what is sent is cut short without an error (`TxCut`). Its length is then a
  multiple of the chunk size, which is all that keeps nncp-reass from putting it
  together: `OneVersion` fails when `SaidLen` gives the last chunk its full length.
* Without `-keep`, nncp-reass removes each chunk before what it has written is flushed
  and synced: when it is stopped, its temporary file is all there is (`broken`).
* With two nncp-reass and two uploads of one name, a file may be put together
  from both versions after each had passed its checksums, once one of them has removed
  a chunk that the other had still to copy or to remove; until then, or with one
  upload, it may not (`Undisturbed`).

## 5. What is proved

| Theorem | States |
|---|---|
| `SPTransferProofs!TypeCorrect` | `Spec => []TypeOK` |
| `SPTransferProofs!StreamCorrect` | `Spec => []OneStream` |
| `SPTransferProofs!AppendsOnly` | `Spec => AppendOnly` |
| `SPTransferProofs!CopiesKept` | `Spec => []CopyKept` |
| `SPTransferProofs!IntactOnly` | `Spec => []OnlyIntact` |
| `SPTransferProofs!ImplementsCustody` | `Spec => CustodyKept` |
| `SPTransferProofs!HashersKeepUp` | `Spec => []HashersInStep` |
| `SPTransferProofs!NoneOrphaned` | `Spec => []NoOrphan` |
| `SPTransferProofs!DeliveredOnce` | `Spec => []AtMostOnce`, assuming `Uninterrupted` |
| `SPQueueProofs!QueueTypeCorrect` | `Spec => []TypeOK` |
| `SPQueueProofs!SortedButLast` | `Spec => []AllButLastSorted` |
| `SPQueueProofs!InterruptedForNicer` | `Spec => OnlyForNicer` |
| `SPQueueProofs!QueueSendsStreams` | `Spec => SendsStreams` |
| `SPSessionProofs!SessionCorrect` | `Spec => []SessionOK` |
| `SPSessionProofs!HandledInOrder` | `Spec => []InOrder` |
| `TossProofs!TossTypeCorrect` | `Spec => []TypeOK` |
| `TossProofs!TossedByOne` | `Spec => []Exclusive` |
| `TossProofs!TossedOnce` | `Spec => []FewCopies` |
| `TossProofs!FilesKept`, `SeenIsGot`, `NeverOverwritten` | `Spec => []Kept`, `[]SeenGot`, `NoOverwrite`, assuming `OwnDirs` |
| `AreaTossProofs!AreaTypeCorrect` | `Spec => []TypeOK` |
| `AreaTossProofs!ServedBeforeRemoved` | `Spec => []AllServed` |
| `AreaTossProofs!CopiesAreFew` | `Spec => []FewCopies` |
| `CallsProofs!CallsRight` | `Spec => []CallsOK` |
| `CallsProofs!TableRight` | `Spec => []TableOK` |
| `OfflineProofs!OfflineTypeCorrect` | `Spec => []TypeOK` |
| `OfflineProofs!SpoolKept` | `Spec => []SpoolOK` |
| `OfflineProofs!PacketsKept` | `Spec => []NeverLost` |
| `FilesProofs!ChunkedRight` | `Spec => []ChunkedOK` |
| `FilesProofs!SentIsWhole`, `SendingGoesOn`, `TxCorrect` | `Pipe!Spec => []Pipe!SentWhole`, `[]Pipe!NeverStuck`, `[]TxOK` |
| `FilesProofs!PacketCorrect` | `Pkt!Spec => []PacketOK` |
| `FilesProofs!SumsAreTrees` | `Hash!Spec => []SumIsTree` |

They hold for every set of packets, neighbours, tossers, calls and commands, every size
and niceness, any number of cuts, kills, crashes and faults, assuming only what the
modules state of their constants:

* `ConstantsAssumption`, `QueueAssumption`, `TossAssumption`, `AreaAssumption`,
  `WantsAreDirs`, `BoundsAreNat`: types; sizes are positive, since a packet has a header;
  nobody subscribes himself; the author has the key (`tx.go:64`);
* `LocksAreDirs`, `TwoPrograms`, `ReceiversAreFinite`, `CountsAreNat` (`Calls`): types;
  a session is nncp-caller's or nncp-daemon's; a machine has finitely many interfaces;
* `ProcsAssumption`, `OptionsAreBool`, `FaultsAreNat` (`Offline`): types;
* `ChunkedAssumption`, `HopsAreNat`, `PacketAssumption`, `HashAssumption` (`Files`): types;
  a chunk is not empty, nor is a block to be hashed; a block to be sealed has room for the
  two sizes and a byte more; a seal has a tag.

Two hypotheses are stronger. `OwnDirs`: every neighbour has an Incoming directory of its
own and files go directly into it (`Toss_deep` and `Toss_shared` show what
happens otherwise). `Uninterrupted`: all sessions hash what they receive, seen/ files
are made, and no kill and no failing fsync or rename leaves a `.part` file to be
resumed; a resumed packet is hashed later by SPChecker, and may by then have been asked for
again (`NoRefetch`).

*AppendsOnly* rests on `OneStream`, which is inductive with `TypeOK`: a FREQ, the
sender's queue entry and the FILEs on the wire of one packet never coexist in
any other order than "wire, then queue" or "FREQ alone", and the first of them
continues the `.part` file. It needs that a packet is offered once per session,
that it is not at B's INFO handler while it streams, and that no session means
no message.

*CopiesKept* rests on `Keeping`: DONEs under way, the handler's and the checkers'
program counters and the tosser's each carry the copy they will answer for.
`CopyKept` alone is not inductive, since `RecvDone` relies on what was true when
DONE was queued; nor is it without `rx \cup nock \subseteq solid`, on which
`Crash` relies, nor without `OneStream`, by which `part[p] = Size[p]` at the
"sync" stage. *ImplementsCustody* adds that a copy once there is there for ever
(`CopyStable`), step by step, `Crash` being the hard one.

*HashersKeepUp* rests on `Hashing`: with no session no file is open (`Closed`), and a
file about to get its `.nock` name has been closed (`NockClosed`), so that a hasher
which is behind belongs to the FILE just being handled. *NoneOrphaned* rests on
`Named` and `Owed`: where nothing is killed and nothing fails, a name a crash may
still undo is one the receiver goroutine is about to make durable, and whatever
answers for a packet (a DONE, a checker after its rename) has it durably or has that
sync before it. `NoOrphan` alone says nothing of names that can be undone.

The queue's proofs rest on `Shape`: entries are unique by packet, the sender's
current entry is among them with its offset, and all but the last are sorted.
*InterruptedForNicer* adds `Serving`: what stands before the packet sent last, or the
one the sender has just looked at, is nicer, unless that packet is the queue's last.
*TossedByOne* rests on `Held`: whatever a tosser has listed or works on is of a
neighbour whose lock it holds. *FilesKept*, *SeenIsGot* and *NeverOverwritten* add
`Keeping`: a name found free is still free at the rename (nobody else writes to
that directory), the renamed file is there when the directory is synced, and
from then on the packet is `Safe`: its effect is one no crash can take away.
`Kept` alone is not inductive, as `Remove` relies on what `SyncDir` did.
*TossedOnce* needs no `OwnDirs`. It rests on `Paid`: every effect of a packet but one
was paid for by a failing call, a kill or a crash, and all of them while the packet may
take effect again (`MayAct`). Every step is a trouble, or makes no packet able to act
that was not, or lets one packet take effect (`Steps`); that the packet is then in `rx/`
and at work in one toss only is `Due` and `Held`.

*ServedBeforeRemoved* rests on `Relaying`: a copy in a directory was sent by its
owner, a seen file stands for a copy sent to or received from that subscriber
(`Truthful`), a toss that has found all the files stands for all of them even if
a crash takes the files later (`Founded`), and a node that once had the message
either still has a copy or is done with it (`Finished`). `TypeOK` is not inductive
alone, as `Remove` counts down: `Carried` is needed. It holds with tosses in
parallel, which no run of this size covers together with failures in all orders.
*CopiesAreFew* adds `Accounted`: every copy sent, but for one that is noted in a
seen file or about to be, is paid for by a failure. That needs `Alone`, one toss at a
time per node, without which `ReadOnce` is refuted (finding 1).

*SessionCorrect* rests on `Counting`: while the process lives, `wg` is the number of
goroutines that are at work and have still to call `wg.Done`. It needs that whoever
is started was not running: nothing but "rest" before `StartWorkers` (`Before`), and
no goroutine answers a message before `ProcessSP` was given it (`Replies`, which needs
`InOrder`). So `Wait` finds nobody left when `wg` is 0 (`Ended`), and all that runs in
any other phase is ruled out phase by phase. *HandledInOrder* rests on `Reading`: the
receiver is never more than half a message further than `ProcessSP`, and being half a
message further it gets no message at all. `SPSessionProofs` has one lemma for each
part of the invariant; a leaf stands for one goroutine's actions where they leave
the part alone.

*DeliveredOnce* rests on `Once`: a packet of one chunk is written, synced and renamed
within one FILE, so its `.part` file and its open descriptor are there only at those
stages of the handler (`OnceHashed`); what is on its way to it has not come yet
(`OnceAsked`); and what has come is in `rx/`, with the tosser, or has its seen/ file,
which is made before the packet is removed from `rx/` (`OnceTossed`).

*SpoolKept* rests on `Ordered`: what a command between two steps has read, of whose
packet it is and whether it has been verified (`Matches`). *PacketsKept* adds `Custody`.
`NeverLost` alone is not inductive: nncp-xfer removes a packet from tx/ on the strength of
a name it found free and a rename it synced (`Promise`), and nncp-ack and nncp-rm on
that of an ACK which may be in six places, each of which says that the packet is safe
(`Acked(AckOf(p)) => Safe(p)`).

*CallsRight* rests on `Locking` and `Beside`. A session past a lock has it, no two have
one on the same file, and there are as many files as removals and the present one; so the
holders map one to one into the files, which bounds their number (`Exclusive`). `Busy` is
set just while one goroutine of nncp-caller is awake (`OneAwake`). Two AutoToss may be
at work at once, which is what `Toss` is for. *TableRight* counts: the
entries of an address and the receivers about to add one are together no more than its
receivers. That the sweeper keeps this is an injection from the entries it leaves to
those it was given (`Swept`).

*ChunkedRight* rests on `Joining` and `Unlost`. While `Undisturbed`, a run of nncp-reass has
copied the beginning of one version, whose length its meta file told rightly, and its
rest is in the directory; what has arrived is whole, in the directory, or with one run
that removes what it has copied and has it all. `NotLost` itself is not inductive, since
another run, with `-keep`, may have the same file under way without owning it. The
arithmetic of `SaidLen` (`Sizes`) is where a length that is a multiple of the chunk size is
told from a file that was cut short.

*SentIsWhole* rests on `Caused`, `LookedAt` and `Collected`: what lacks something lacks
it because of an error at or before it in the chain of pipes, reported before the next
goroutine went on; the caller looks at every result but an area's first; and it commits
with as many results as there are goroutines. *SendingGoesOn* adds `Orderly`: without an
error the results come in the order of the pipes, so that the first that has not ended
can go on.

*PacketCorrect* has two parts. `Layout` says where in a packet of any length each block,
its text and its padding are, in both cases of `PktEncWrite` (what remains after the
whole blocks has room beside the sizes, or is one more block). `Reading` says how far the reader is: before any stage, what was read is
undamaged and has become the beginning of the payload, and what is left is the rest
of the damaged stream. A block opens at the reader's place if it is undamaged, and
only then; a stream that was cut is too short for one of the places where the reader must
still come. For `AtLeastMinSize`, a packet around another is larger by as much as
`sizePadCalc` reckons with, or more (`LargeEnough`); an area's packet needs one
encryption more to be as large. The sizes within sizes are functions on an
interval, and what holds of all of them is proved by induction on sets of numbers
(`Induction`), which needs no operator as a parameter: a set of natural numbers that is
not empty has a smallest one.

*SumsAreTrees* rests on `HashInvariant`. `MTHFat`'s levels are a table `L`, and `2^i` leaves are
below a node of level `i`, but for the last one of a level (`Tree`). What a hasher has
are nodes of this tree: each entry says its level `l` and place `c`, its hash is `L[l][c + 1]`,
and the leaves below one end where those below the next begin (`Nodes`, `Spans`). That is
all `fold` needs and all it keeps (`FoldedIs`, `FoldOnceWorks`): two neighbours on one
level, the first of them even, are the node above them. After `fold`, in a hasher that
has the first leaf, every node is the first one of its pair (`Done`): the other one of a
pair would have the first just before it, and be folded with it. With the blocks that were there before a
download was resumed, the nodes after them are pushed one by one (`JoinedIs`). `Fed` and
`AtByte` say which leaves and bytes that is after each write: before the first whole
block, no leaf and what is to be skipped; from then on, the blocks from `Count(offset)`
on, and less than one block in the buffer. `Sum` relabels the last node, which is the
last one of its level and thus stands for itself on every level above until it gets a
neighbour (`Lifted`, `Closing`), so what remains is `L`'s top. Every loop ends: a step of it
leaves fewer hashes or bytes, or nothing changes (`Loop`). A hash is the term that was
hashed, so equal hashes mean equal trees and not only equal bits.

Only model-checked: liveness (`Delivers`, `Releases`, `AllSent`, `Tossed`, `Flooded`,
`Finishes`, `CallsEnd`, `Arrives`; liveness under fairness is out of the prover's
reach), and that something can happen where `GoesOn` says so (ENABLED).

## 6. Not modelled

* Cryptography: a seal opens with its key, nonce and text and with nothing else;
  hashes have no collisions; the Noise handshake is two messages either of which may
  fail. Signatures, private key encryption (`eblob.go`), magic numbers.
* The configuration: parsing and writing it (`cfg.go`, `cfgdir.go`, nncp-cfg*,
  nncp-hash, keys). Pure conversions from text to what is CONSTANTS here, without state.
* Header files (`SPOOL/.../hdr/`): a cache of what `nncp-xfer`, `nncp-stat` and others could
  read from the packet, which is read when there is none.
* Logging, progress bars, humanizers, nncp-log, nncp-stat, nncp-pkt, terminal output.
* TCP, pipes, UCSPI, Yggdrasil: a connection is what `SPSession` sees of it. The
  daemon's listeners and `-maxconn`.
* nncp-rm of packets by age and of `.part`, `.nock`, `seen/`, `hdr/` files; dry runs.
* nncp-check without `-nock` (it only reads), nncp-cronexpr, nncp-trns' and
  nncp-freq's command lines (each calls one function of `Tx`).
* `TxTrns`' copy of its source into tx/.
