------------------------------ MODULE Chunked ------------------------------
(***************************************************************************)
(* A file sent in chunks and put together again: nncp-file -chunked        *)
(* (TxFile, src/src/tx.go) makes a packet of each chunk and one of the     *)
(* meta file with the chunks' checksums; the packets are delivered in any  *)
(* order; nncp-reass (src/src/cmd/nncp-reass/main.go) checks the chunks in *)
(* the directory they were delivered to and joins them, removing each      *)
(* after it was copied unless -keep is given.  Nothing keeps two of them   *)
(* from working on one file.                                               *)
(*                                                                         *)
(* The user may send the file again after an attempt failed half-way; by   *)
(* then it may have changed: each attempt has a version of its own.  (That *)
(* it is sent again after an attempt that succeeded is left out.)          *)
(***************************************************************************)
EXTENDS Integers, Sequences, FiniteSets

CONSTANTS
    Versions,      \* 1, 2, ...: attempts to send
    FileSize,      \* size of each version
    ChunkSize,
    Reassemblers,  \* runs of nncp-reass
    Keep,          \* those with -keep
    MaxFaults      \* calls that fail, processes that are killed

ASSUME ChunkedAssumption ==
    /\ Versions \subseteq Nat \ {0} /\ 1 \in Versions
    /\ FileSize \in [Versions -> Nat]
    /\ ChunkSize \in Nat \ {0}

VARIABLES
    version, next, sending,   \* TxFile
    sent,          \* the size of each version as its meta file tells it
    flight,        \* packets on their way, as [part, of]
    dir,           \* files of the destination directory, likewise
    reass,         \* each run of nncp-reass
    whole,         \* reassembled files: the chunks of each
    arrived,       \* versions of which everything was delivered in its place
    broken,        \* a run that removes chunks was stopped
    crossed,       \* one has removed a file that another had still to do with
    faults

sender == <<version, next, sending, sent>>
vars == <<sender, flight, dir, reass, whole, arrived, broken, crossed, faults>>

Meta == 0
Least(a, b) == IF a < b THEN a ELSE b
ChunksOf(size) == IF size = 0 THEN 1 ELSE (size + ChunkSize - 1) \div ChunkSize
Chunks(v) == ChunksOf(sent[v])
ChunkLen(v, k) == Least(ChunkSize, sent[v] - (k - 1) * ChunkSize)
Parts(v) == Meta..Chunks(v)
File(part, v) == [part |-> part, of |-> v]
Present(part) == {f \in dir : f.part = part}

Idle == [at |-> "idle", v |-> 0, next |-> 1, tmp |-> <<>>]
Faulty == faults < MaxFaults /\ faults' = faults + 1

Init ==
    /\ version = 1 /\ next = 1 /\ sending = TRUE
    /\ sent = FileSize
    /\ flight = {} /\ dir = {}
    /\ reass = [r \in Reassemblers |-> Idle]
    /\ whole = {} /\ arrived = {}
    /\ broken = FALSE /\ crossed = FALSE /\ faults = 0

----------------------------------------------------------------------------
(* TxFile: a chunk's packet is committed before the next chunk is read;    *)
(* the last is the one after which nothing can be read; then the meta      *)
(* file.  (A file that is not larger than a chunk, and of known size, is   *)
(* sent as it is: nothing of this module.)                                 *)
TxChunk ==
    /\ sending /\ next \in 1..Chunks(version)
    /\ flight' = flight \cup {File(next, version)}
    /\ next' = next + 1
    /\ UNCHANGED <<version, sending, sent, dir, reass, whole, arrived, broken, crossed, faults>>

TxMeta ==
    /\ sending /\ next > Chunks(version)
    /\ flight' = flight \cup {File(Meta, version)}
    /\ sending' = FALSE
    /\ UNCHANGED <<version, next, sent, dir, reass, whole, arrived, broken, crossed, faults>>

(* Any error ends the command; what was committed before is sent all the   *)
(* same.  The user tries again.                                            *)
TxFails ==
    /\ sending /\ version + 1 \in Versions
    /\ Faulty
    /\ version' = version + 1 /\ next' = 1
    /\ UNCHANGED <<sending, sent, flight, dir, reass, whole, arrived, broken, crossed>>

(* After a full chunk, an error in looking for the next byte is taken for  *)
(* the end of the file.                                                    *)
TxCut ==
    /\ sending /\ next \in 2..Chunks(version)
    /\ Faulty
    /\ sent' = [sent EXCEPT ![version] = (next - 1) * ChunkSize]
    /\ UNCHANGED <<version, next, sending, flight, dir, reass, whole, arrived, broken, crossed>>

(* The tosser delivers a file under its name if that is free, else under   *)
(* another one, which nncp-reass does not look at.                         *)
Deliver(f) ==
    /\ f \in flight
    /\ flight' = flight \ {f}
    /\ dir' = IF Present(f.part) = {} THEN dir \cup {f} ELSE dir
    /\ arrived' = IF \A part \in Parts(f.of) : File(part, f.of) \in dir'
                  THEN arrived \cup {f.of} ELSE arrived
    /\ UNCHANGED <<sender, reass, whole, broken, crossed, faults>>

----------------------------------------------------------------------------
(* nncp-reass.  What the meta file says of sizes: the last chunk must be   *)
(* as long as its FileSize, which is what was sent, % ChunkSize.           *)
SaidLen(v, k) ==
    IF k = Chunks(v) THEN sent[v] % ChunkSize ELSE ChunkSize
SizesGood(v) ==
    \A k \in 1..Chunks(v) : \E f \in Present(k) : ChunkLen(f.of, k) = SaidLen(v, k)
ChecksumsGood(v) ==
    \A k \in 1..Chunks(v) : File(k, v) \in dir

Step(r, new) ==
    /\ reass' = [reass EXCEPT ![r] = new]
    /\ UNCHANGED <<sender, flight, arrived, faults>>

(* Other runs that have chunk k of r's version still to copy or to remove, *)
(* or its meta file to remove.                                             *)
Others(r) == {s \in Reassemblers \ {r} : reass[s].at # "idle" /\ reass[s].v = reass[r].v}
StillToDo(r, k) == {s \in Others(r) : reass[s].next <= k}
StillToEnd(r) == {s \in Others(r) \ Keep : reass[s].at # "written"}

(* Bug: sizes are looked at, checksums are not. *)
CheckSizes(r) ==
    /\ reass[r].at = "idle"
    /\ \E m \in Present(Meta) :
          /\ SizesGood(m.of)
          /\ Step(r, [Idle EXCEPT !.at = "open", !.v = m.of])
    /\ UNCHANGED <<dir, whole, broken, crossed>>

(* The chunks are looked at and hashed one after the other, which is one   *)
(* step here: a file that is removed or delivered between two looks is     *)
(* taken to be so after all of them, where crossed notes it.               *)
Check(r) ==
    /\ reass[r].at = "idle"
    /\ \E m \in Present(Meta) :
          /\ SizesGood(m.of) /\ ChecksumsGood(m.of)
          /\ Step(r, [Idle EXCEPT !.at = "open", !.v = m.of])
    /\ UNCHANGED <<dir, whole, broken, crossed>>

(* The next chunk is opened and copied to the temporary file.              *)
Copy(r) ==
    /\ reass[r].at = "open" /\ reass[r].next <= Chunks(reass[r].v)
    /\ \E f \in Present(reass[r].next) :
          Step(r, [reass[r] EXCEPT !.tmp = Append(@, f),
                                   !.at = IF r \in Keep THEN "open" ELSE "copied",
                                   !.next = IF r \in Keep THEN @ + 1 ELSE @])
    /\ UNCHANGED <<dir, whole, broken, crossed>>

(* A chunk somebody else has removed already is an error, but no reason to *)
(* stop.                                                                   *)
Remove(r) ==
    /\ reass[r].at = "copied"
    /\ dir' = dir \ Present(reass[r].next)
    /\ Step(r, [reass[r] EXCEPT !.at = "open", !.next = @ + 1])
    /\ crossed' = (crossed \/ StillToDo(r, reass[r].next) # {})
    /\ UNCHANGED <<whole, broken>>

(* A chunk that cannot be opened ends the command; its temporary file is   *)
(* left behind.                                                            *)
Missing(r) ==
    /\ reass[r].at = "open" /\ reass[r].next <= Chunks(reass[r].v)
    /\ Present(reass[r].next) = {}
    /\ Step(r, Idle)
    /\ UNCHANGED <<dir, whole, broken, crossed>>

(* Flush, Sync, and the meta file is removed.                              *)
RemoveMeta(r) ==
    /\ reass[r].at = "open" /\ reass[r].next > Chunks(reass[r].v)
    /\ dir' = IF r \in Keep THEN dir ELSE dir \ Present(Meta)
    /\ Step(r, [reass[r] EXCEPT !.at = "written"])
    /\ crossed' = (crossed \/ (r \notin Keep /\ StillToEnd(r) # {}))
    /\ UNCHANGED <<whole, broken>>

(* The temporary file gets the file's name, or another one if that is      *)
(* taken; the directory is synced.  (Two that find a name free at once     *)
(* have copied the same chunks: whichever stays, it is one of these.)      *)
Rename(r) ==
    /\ reass[r].at = "written"
    /\ whole' = whole \cup {reass[r].tmp}
    /\ Step(r, Idle)
    /\ UNCHANGED <<dir, broken, crossed>>

(* It is killed, or cannot write: what it has removed is lost, but for     *)
(* what can be found in the temporary file.                                *)
Stop(r) ==
    /\ reass[r].at # "idle"
    /\ Faulty
    /\ broken' = (broken \/ (r \notin Keep /\ (reass[r].next > 1 \/ reass[r].at # "open")))
    /\ reass' = [reass EXCEPT ![r] = Idle]
    /\ UNCHANGED <<sender, flight, dir, whole, arrived, crossed>>

Next ==
    \/ TxChunk \/ TxMeta \/ TxFails \/ TxCut
    \/ \E f \in flight : Deliver(f)
    \/ \E r \in Reassemblers :
          \/ Check(r) \/ Copy(r) \/ Remove(r) \/ Missing(r)
          \/ RemoveMeta(r) \/ Rename(r) \/ Stop(r)

Spec == Init /\ [][Next]_vars

----------------------------------------------------------------------------
(* What is put together is one version of the file, all of it, whatever    *)
(* its meta file tells.                                                    *)
Content(v) == [k \in 1..ChunksOf(FileSize[v]) |-> File(k, v)]
OneVersion == \A chunks \in whole : \E v \in Versions : chunks = Content(v)

(* Once everything has arrived, the file, or its parts, are somewhere:     *)
(* in the directory, or with a run of nncp-reass that has the beginning    *)
(* and will find the rest; however many of them get in each other's way,   *)
(* unless one that removes chunks is stopped.                              *)
Held(v) ==
    \/ Content(v) \in whole
    \/ \A part \in Parts(v) : File(part, v) \in dir
    \/ \E r \in Reassemblers :
          /\ reass[r].at # "idle" /\ reass[r].v = v
          /\ \A k \in 1..Chunks(v) : File(k, v) \in dir \/ k <= Len(reass[r].tmp)
NotLost == broken \/ \A v \in arrived : Held(v)

(* Two runs that get in each other's way are harmless until there is a     *)
(* second version: its files may then take the place of those removed.     *)
Undisturbed == version = 1 \/ ~crossed
ChunkedOK == Undisturbed => OneVersion /\ NotLost
=============================================================================
