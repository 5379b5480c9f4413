-------------------------------- MODULE Toss --------------------------------
(***************************************************************************)
(* The tosser: packets in the rx/ directories of a node's neighbours are   *)
(* decrypted and acted on.  A file goes to the Incoming directory of its   *)
(* sender under the first free of the names dst, dst.0, dst.1..., an exec  *)
(* packet is fed to a command, a freq or trns packet makes outgoing ones.  *)
(* Then the packet is recorded in seen/ and removed from rx/.              *)
(*                                                                         *)
(* Several tossers may be at work: nncp-toss processes and the AutoToss    *)
(* goroutines of nncp-daemon, nncp-caller and nncp-call.  The toss lock of *)
(* a neighbour's spool directory is all that is between them.  Area        *)
(* packets are left to AreaToss.                                           *)
(***************************************************************************)
EXTENDS Integers, FiniteSets

CONSTANTS
    Pkts,        \* packets the neighbours may send
    Nodes,       \* neighbours
    Tossers,     \* processes and goroutines that toss
    Watchers,    \* those of them that are AutoToss goroutines
    None,        \* no packet, no tosser
    Visits,      \* Visits[t]: the neighbours t tosses
    From,        \* From[p]: sender of p
    FilePkts,    \* packets with a file; the others are exec, freq and trns
    Dst,         \* Dst[p]: destination path of a file
    Incoming,    \* Incoming[n]: directory for the files of n
    Deep,        \* destinations that are in a subdirectory of Incoming
    Ignored,     \* too nice, or of a kind that -nofile, -noexec... exclude
    Long,        \* excluded ones with more payload than the pipe's buffer
    Faulty,      \* packets that can not be processed (no handle, bad data...)
    DoSeen,      \* seen/ files are made
    MaxSuffix,   \* bound: names tried for a file
    MaxFaults, MaxKills, MaxCrashes   \* bounds on the environment

ASSUME TossAssumption ==
    /\ None \notin Pkts \cup Tossers
    /\ Watchers \subseteq Tossers
    /\ Visits \in [Tossers -> SUBSET Nodes]
    /\ From \in [Pkts -> Nodes]
    /\ FilePkts \subseteq Pkts
    /\ Ignored \subseteq Pkts /\ Long \subseteq Ignored
    /\ Faulty \subseteq Pkts /\ Faulty \cap Ignored = {}
    /\ DoSeen \in BOOLEAN
    /\ MaxSuffix \in Nat
    /\ MaxFaults \in Nat /\ MaxKills \in Nat /\ MaxCrashes \in Nat

VARIABLES
    arrived,     \* packets that have come into rx/
    rx,          \* packets now in rx/
    removed,     \* packets whose removal from rx/ a crash may undo
    seen,        \* packets with a seen/ file
    files,       \* files[x]: the packet the file called x was made from
    loose,       \* names a crash may take away
    effects,     \* times a command was run or packets were sent for p
    lock,        \* lock[n]: tosser that holds n's toss.lock
    at,          \* at[t]: what t does next
    job,         \* job[t]: the packet it is at work on
    name,        \* name[t]: the free name it has found
    todo,        \* todo[t]: packets left of its listing of rx/
    bad,         \* bad[t]: isBad of this toss
    badCode,     \* badCode[t]: what t will report when it ends
    hadBad,      \* hadBad[t]: one of its tosses has been bad
    faults, kills, crashes

spool  == <<arrived, rx, removed, seen>>
user   == <<files, loose, effects>>
tosser == <<lock, at, job, name, todo, bad>>
report == <<badCode, hadBad>>
budget == <<faults, kills, crashes>>
vars == <<spool, user, tosser, report, budget>>

Dirs == {Incoming[n] : n \in Nodes}
Names == Dirs \X {Dst[p] : p \in Pkts} \X (0..MaxSuffix)
NameOf(p, k) == <<Incoming[From[p]], Dst[p], k>>

Init ==
    /\ arrived = {} /\ rx = {} /\ removed = {} /\ seen = {}
    /\ files = [x \in Names |-> None] /\ loose = {}
    /\ effects = [p \in Pkts |-> 0]
    /\ lock = [n \in Nodes |-> None]
    /\ at = [t \in Tossers |-> "idle"]
    /\ job = [t \in Tossers |-> None]
    /\ name = [t \in Tossers |-> 0]
    /\ todo = [t \in Tossers |-> {}]
    /\ bad = [t \in Tossers |-> FALSE]
    /\ badCode = [t \in Tossers |-> FALSE]
    /\ hadBad = [t \in Tossers |-> FALSE]
    /\ faults = 0 /\ kills = 0 /\ crashes = 0

\* A packet is received and checked; its name in rx/ is durable.
Arrive(p) ==
    /\ p \notin arrived
    /\ arrived' = arrived \cup {p} /\ rx' = rx \cup {p}
    /\ UNCHANGED <<removed, seen, user, tosser, report, budget>>

-----------------------------------------------------------------------------
(* A toss of one neighbour's rx/ *)

\* nncp-toss ors the results of its tosses; AutoToss negates them first.
Report(t, isBad) ==
    /\ badCode' = [badCode EXCEPT ![t] = @ \/ IF t \in Watchers THEN ~isBad ELSE isBad]
    /\ hadBad' = [hadBad EXCEPT ![t] = @ \/ isBad]

\* Bug: the lock is not looked at.
BuggyLockDir(t, n) == lock' = [lock EXCEPT ![n] = t]

\* flock() of the neighbour's toss.lock, without waiting for it.
LockDir(t, n) ==
    /\ lock[n] = None
    /\ lock' = [lock EXCEPT ![n] = t]

\* rx/ is listed once; what comes later is left to the next toss.
Begin(t, n) ==
    /\ at[t] = "idle" /\ n \in Visits[t]
    /\ LockDir(t, n)
    /\ at' = [at EXCEPT ![t] = "next"]
    /\ todo' = [todo EXCEPT ![t] = {p \in rx : From[p] = n}]
    /\ bad' = [bad EXCEPT ![t] = FALSE]
    /\ UNCHANGED <<spool, user, job, name, report, budget>>

\* Someone else has the lock: nothing is tossed, and that is not bad.
Refused(t, n) ==
    /\ at[t] = "idle" /\ n \in Visits[t]
    /\ lock[n] # None
    /\ Report(t, FALSE)
    /\ UNCHANGED <<spool, user, tosser, budget>>

\* A packet of the listing that is not processed.  jobProcess returns before
\* it has read the payload of an excluded one, which breaks the pipe the rest
\* of a long one is decrypted into.
Pass(t, p) ==
    /\ at[t] = "next" /\ p \in todo[t]
    /\ p \in Ignored \cup Faulty
    /\ todo' = [todo EXCEPT ![t] = @ \ {p}]
    /\ bad' = [bad EXCEPT ![t] = @ \/ p \in Faulty \/ p \in Long]
    /\ UNCHANGED <<spool, user, lock, at, job, name, report, budget>>

Open(t, p) ==
    /\ at[t] = "next" /\ p \in todo[t]
    /\ p \notin Ignored \cup Faulty
    /\ todo' = [todo EXCEPT ![t] = @ \ {p}]
    /\ job' = [job EXCEPT ![t] = p]
    /\ at' = [at EXCEPT ![t] = IF p \in FilePkts THEN "choose" ELSE "work"]
    /\ UNCHANGED <<spool, user, lock, name, bad, report, budget>>

\* Bug: the lock is kept.
BuggyEnd(t) ==
    /\ at[t] = "next" /\ todo[t] = {}
    /\ at' = [at EXCEPT ![t] = "idle"]
    /\ Report(t, bad[t])
    /\ UNCHANGED <<spool, user, lock, job, name, todo, bad, budget>>

End(t) ==
    /\ at[t] = "next" /\ todo[t] = {}
    /\ at' = [at EXCEPT ![t] = "idle"]
    /\ lock' = [n \in Nodes |-> IF lock[n] = t THEN None ELSE lock[n]]
    /\ Report(t, bad[t])
    /\ UNCHANGED <<spool, user, job, name, todo, bad, budget>>

Step(t, stage, next) ==
    /\ at[t] = stage
    /\ at' = [at EXCEPT ![t] = next]

\* A call of jobProcess fails: the packet stays where it is.
Fail(t, stage) ==
    /\ faults < MaxFaults /\ faults' = faults + 1
    /\ Step(t, stage, "next")
    /\ job' = [job EXCEPT ![t] = None]
    /\ bad' = [bad EXCEPT ![t] = TRUE]
    /\ UNCHANGED <<lock, name, todo, report, kills, crashes>>

Done(t) == IF DoSeen THEN "seen" ELSE "remove"

\* The command has run, or the outgoing packets are in a tx/.
Work(t) ==
    \/ /\ Step(t, "work", Done(t))
       /\ effects' = [effects EXCEPT ![job[t]] = @ + 1]
       /\ UNCHANGED <<spool, files, loose, lock, job, name, todo, bad, report, budget>>
    \/ Fail(t, "work") /\ UNCHANGED <<spool, user>>

\* Bug: the name without a suffix is always taken for free.
BuggyFree(p, k) == k = 0

\* The names are tried in order.
Free(p, k) ==
    /\ files[NameOf(p, k)] = None
    /\ \A j \in 0..k - 1 : files[NameOf(p, j)] # None

\* The contents are in a temporary file, synced; a free name is looked for.
Choose(t) ==
    \/ /\ Step(t, "choose", "rename")
       /\ \E k \in 0..MaxSuffix :
            Free(job[t], k) /\ name' = [name EXCEPT ![t] = k]
       /\ UNCHANGED <<spool, user, lock, job, todo, bad, report, budget>>
    \/ Fail(t, "choose") /\ UNCHANGED <<spool, user>>

\* Bug: a failing rename is logged and forgotten.
BuggyRename(t) ==
    LET x == NameOf(job[t], name[t])
    IN  /\ Step(t, "rename", "sync")
        /\ \/ files' = [files EXCEPT ![x] = job[t]] /\ UNCHANGED faults
           \/ faults < MaxFaults /\ faults' = faults + 1 /\ UNCHANGED files
        /\ UNCHANGED <<spool, effects, loose, lock, job, name, todo, bad, report,
                       kills, crashes>>

\* rename() does not mind if somebody else has used the name meanwhile.
Rename(t) ==
    LET x == NameOf(job[t], name[t])
    IN  \/ /\ Step(t, "rename", "sync")
           /\ files' = [files EXCEPT ![x] = job[t]]
           /\ loose' = loose \cup {x}
           /\ UNCHANGED <<spool, effects, lock, job, name, todo, bad, report, budget>>
        \/ Fail(t, "rename") /\ UNCHANGED <<spool, user>>

\* Bug: Incoming is not synced.
BuggySynced(p) == {}

\* Names that a sync of Incoming itself makes durable.
Synced(p) == {x \in Names : x[1] = Incoming[From[p]] /\ x[2] \notin Deep}

SyncDir(t) ==
    \/ /\ Step(t, "sync", Done(t))
       /\ loose' = loose \ Synced(job[t])
       /\ UNCHANGED <<spool, files, effects, lock, job, name, todo, bad, report, budget>>
    \/ Fail(t, "sync") /\ UNCHANGED <<spool, user>>

\* The seen/ file, and a sync of rx/.  That it can not be made is no error.
MakeSeen(t) ==
    \/ /\ Step(t, "seen", "remove")
       /\ \/ /\ seen' = seen \cup {job[t]}
             /\ removed' = {p \in removed : From[p] # From[job[t]]}
             /\ UNCHANGED faults
          \/ /\ faults < MaxFaults /\ faults' = faults + 1
             /\ UNCHANGED <<seen, removed>>
       /\ UNCHANGED <<arrived, rx, user, lock, job, name, todo, bad, report,
                      kills, crashes>>
    \/ /\ Fail(t, "seen")
       /\ seen' \in {seen, seen \cup {job[t]}}
       /\ UNCHANGED <<arrived, rx, removed, user>>

\* Bug: the packet is kept once it has been seen.
BuggyRemove(t) ==
    /\ Step(t, "remove", "next")
    /\ rx' = rx \ ({job[t]} \ seen)
    /\ job' = [job EXCEPT ![t] = None]
    /\ UNCHANGED <<arrived, removed, seen, user, lock, name, todo, bad, report, budget>>

Remove(t) ==
    \/ /\ Step(t, "remove", "next")
       /\ rx' = rx \ {job[t]} /\ removed' = removed \cup {job[t]}
       /\ job' = [job EXCEPT ![t] = None]
       /\ UNCHANGED <<arrived, seen, user, lock, name, todo, bad, report, budget>>
    \/ Fail(t, "remove") /\ UNCHANGED <<spool, user>>

-----------------------------------------------------------------------------
(* Ends of processes *)

\* Bug: what a dead toss was at work on is not forgotten.
BuggyGone(T) ==
    /\ at' = [t \in Tossers |-> IF t \in T THEN "idle" ELSE at[t]]
    /\ lock' = [n \in Nodes |-> IF lock[n] \in T THEN None ELSE lock[n]]
    /\ UNCHANGED <<job, todo, badCode, hadBad, name, bad>>

\* What the tossers T had in hand is gone; flock() ends with its process.
Gone(T) ==
    /\ at' = [t \in Tossers |-> IF t \in T THEN "idle" ELSE at[t]]
    /\ job' = [t \in Tossers |-> IF t \in T THEN None ELSE job[t]]
    /\ todo' = [t \in Tossers |-> IF t \in T THEN {} ELSE todo[t]]
    /\ lock' = [n \in Nodes |-> IF lock[n] \in T THEN None ELSE lock[n]]
    /\ badCode' = [t \in Tossers |-> t \notin T /\ badCode[t]]
    /\ hadBad' = [t \in Tossers |-> t \notin T /\ hadBad[t]]
    /\ UNCHANGED <<name, bad>>

\* A tosser's process dies, and its locks with it.
Kill(t) ==
    /\ at[t] # "idle"
    /\ kills < MaxKills /\ kills' = kills + 1
    /\ Gone({t})
    /\ UNCHANGED <<spool, user, faults, crashes>>

\* The machine crashes: names and removals that were not synced may be
\* undone, and seen/ files are never synced.
Crash ==
    /\ crashes < MaxCrashes /\ crashes' = crashes + 1
    /\ Gone(Tossers)
    /\ \E lost \in SUBSET loose, back \in SUBSET removed :
         /\ files' = [x \in Names |-> IF x \in lost THEN None ELSE files[x]]
         /\ rx' = rx \cup back
    /\ seen' \in SUBSET seen
    /\ loose' = {} /\ removed' = {}
    /\ UNCHANGED <<arrived, effects, faults, kills>>

-----------------------------------------------------------------------------
JobProcess(t) ==
    \/ \E p \in Pkts : Pass(t, p) \/ Open(t, p)
    \/ Work(t) \/ Choose(t) \/ Rename(t) \/ SyncDir(t) \/ MakeSeen(t) \/ Remove(t)
    \/ End(t)

Next ==
    \/ \E p \in Pkts : Arrive(p)
    \/ \E t \in Tossers :
         \/ \E n \in Nodes : Begin(t, n) \/ Refused(t, n)
         \/ JobProcess(t)
         \/ Kill(t)
    \/ Crash

Spec == Init /\ [][Next]_vars

\* A toss that has begun goes on.  Cron jobs, daemons and watchers come to
\* every neighbour again and again; one that meets a locked directory leaves
\* it, but then another toss of that neighbour is under way.
Fairness ==
    /\ \A t \in Tossers : WF_vars(JobProcess(t))
    /\ \A n \in Nodes : SF_vars(\E t \in Tossers : Begin(t, n))

FairSpec == Spec /\ Fairness

-----------------------------------------------------------------------------
(* Properties *)

Stages == {"idle", "next", "work", "choose", "rename", "sync", "seen", "remove"}
TypeOK ==
    /\ rx \subseteq arrived /\ arrived \subseteq Pkts
    /\ removed \subseteq arrived /\ seen \subseteq arrived
    /\ files \in [Names -> Pkts \cup {None}] /\ loose \subseteq Names
    /\ effects \in [Pkts -> Nat]
    /\ lock \in [Nodes -> Tossers \cup {None}]
    /\ at \in [Tossers -> Stages]
    /\ job \in [Tossers -> arrived \cup {None}]
    /\ \A t \in Tossers : at[t] \in {"idle", "next"} <=> job[t] = None
    /\ name \in [Tossers -> 0..MaxSuffix]
    /\ todo \in [Tossers -> SUBSET arrived]
    /\ bad \in [Tossers -> BOOLEAN]
    /\ badCode \in [Tossers -> BOOLEAN] /\ hadBad \in [Tossers -> BOOLEAN]
    /\ faults \in 0..MaxFaults /\ kills \in 0..MaxKills /\ crashes \in 0..MaxCrashes

Copies(p) == {x \in Names : files[x] = p}
Got(p) == effects[p] > 0 \/ Copies(p) # {}

\* Two tossers are never at work on the same packet: listings are taken and
\* worked off under the lock of the directory they are of, whatever tossers
\* die and whenever.
Exclusive ==
    \A t, u \in Tossers : t # u =>
        /\ job[t] = job[u] => job[t] = None
        /\ todo[t] \cap todo[u] = {}

\* A packet leaves rx/ only after it has taken effect, and a file made from
\* it is still there after any crash (news.texi: "Explicit directories
\* fsync-ing for guaranteed files renaming").
Kept == \A p \in arrived \ rx : Got(p)

\* A packet takes effect once, and once more at most for every failing call,
\* killed tosser and crash.
FewCopies ==
    \A p \in Pkts : Cardinality(Copies(p)) + effects[p] <= 1 + faults + kills + crashes

\* A seen/ file, by which the packet will be refused from now on, is only made
\* for what has taken effect.
SeenGot == \A p \in seen : Got(p)

\* A file in Incoming is not overwritten by another one (nncp-file.texi: a
\* counter is appended if it already exists there).
NoOverwrite ==
    [][\A x \in Names : files[x] # None => files'[x] \in {files[x], None}]_vars

\* Whoever tosses reports it if a toss of his was bad (news.texi: "Fixed
\* possible bad return code ignoring in automatic tosser").
BadReported == \A t \in Tossers : hadBad[t] => badCode[t]

\* Every packet that can be and is to be processed leaves rx/ in the end.
Tossed == \A p \in Pkts \ (Ignored \cup Faulty) : p \in rx ~> p \notin rx
=============================================================================
