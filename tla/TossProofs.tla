----------------------------- MODULE TossProofs -----------------------------
(***************************************************************************)
(* For every number of neighbours, packets and tossers, failing calls,     *)
(* kills and crashes: no packet is worked on twice at once, nor takes      *)
(* effect twice without one of these troubles, and, where every neighbour  *)
(* has an Incoming directory of its own and files go directly into it,     *)
(* nothing that was tossed is lost or overwritten.                         *)
(***************************************************************************)
EXTENDS Toss, FiniteSetTheorems, TLAPS

USE TossAssumption

-----------------------------------------------------------------------------
(* Types *)

\* The stages at which a toss has a packet in hand.
Busy == {"work", "choose", "rename", "sync", "seen", "remove"}

LEMMA NameOfType ==
    ASSUME NEW p \in Pkts, NEW k \in 0..MaxSuffix PROVE NameOf(p, k) \in Names
BY DEF NameOf, Names, Dirs

LEMMA InitTyped == Init => TypeOK
BY DEF Init, TypeOK, Stages

LEMMA ArriveTyped == \A p \in Pkts : TypeOK /\ Arrive(p) => TypeOK'
BY DEF TypeOK, Arrive, user, tosser, report, budget

LEMMA BeginTyped ==
    \A t \in Tossers, n \in Nodes : TypeOK /\ Begin(t, n) => TypeOK'
BY DEF TypeOK, Begin, LockDir, Stages, spool, user, report, budget

LEMMA RefusedTyped ==
    \A t \in Tossers, n \in Nodes : TypeOK /\ Refused(t, n) => TypeOK'
BY DEF TypeOK, Refused, Report, spool, user, tosser, budget

LEMMA PassTyped ==
    \A t \in Tossers, p \in Pkts : TypeOK /\ Pass(t, p) => TypeOK'
BY DEF TypeOK, Pass, spool, user, report, budget

LEMMA OpenTyped ==
    \A t \in Tossers, p \in Pkts : TypeOK /\ Open(t, p) => TypeOK'
BY DEF TypeOK, Open, Stages, spool, user, report, budget

LEMMA EndTyped == \A t \in Tossers : TypeOK /\ End(t) => TypeOK'
BY DEF TypeOK, End, Report, Stages, spool, user, budget

\* Whatever a failing call leaves, only the toss's own variables change.
LEMMA FailTyped ==
    ASSUME TypeOK, NEW t \in Tossers, NEW s \in Busy, Fail(t, s),
           rx' \subseteq arrived',
           removed' \subseteq arrived', seen' \subseteq arrived',
           UNCHANGED <<arrived, user>>
    PROVE  TypeOK'
BY DEF TypeOK, Fail, Step, Stages, Busy, user, report

LEMMA WorkTyped == \A t \in Tossers : TypeOK /\ Work(t) => TypeOK'
<1> SUFFICES ASSUME TypeOK, NEW t \in Tossers, Work(t) PROVE TypeOK'
  OBVIOUS
<1>1. CASE Fail(t, "work") /\ UNCHANGED <<spool, user>>
  BY <1>1, FailTyped DEF TypeOK, Busy, spool
<1>2. CASE ~(Fail(t, "work") /\ UNCHANGED <<spool, user>>)
  BY <1>2 DEF Work, TypeOK, Step, Done, Stages, spool, report, budget
<1> QED
  BY <1>1, <1>2

LEMMA ChooseTyped == \A t \in Tossers : TypeOK /\ Choose(t) => TypeOK'
<1> SUFFICES ASSUME TypeOK, NEW t \in Tossers, Choose(t) PROVE TypeOK'
  OBVIOUS
<1>1. CASE Fail(t, "choose") /\ UNCHANGED <<spool, user>>
  BY <1>1, FailTyped DEF TypeOK, Busy, spool
<1>2. CASE ~(Fail(t, "choose") /\ UNCHANGED <<spool, user>>)
  BY <1>2 DEF Choose, TypeOK, Step, Stages, spool, user, report, budget
<1> QED
  BY <1>1, <1>2

LEMMA RenameTyped == \A t \in Tossers : TypeOK /\ Rename(t) => TypeOK'
<1> SUFFICES ASSUME TypeOK, NEW t \in Tossers, Rename(t) PROVE TypeOK'
  OBVIOUS
<1>1. CASE Fail(t, "rename") /\ UNCHANGED <<spool, user>>
  BY <1>1, FailTyped DEF TypeOK, Busy, spool
<1>2. CASE ~(Fail(t, "rename") /\ UNCHANGED <<spool, user>>)
  <2>1. job[t] \in Pkts /\ name[t] \in 0..MaxSuffix
    BY <1>2 DEF Rename, Step, TypeOK
  <2>2. NameOf(job[t], name[t]) \in Names
    BY <2>1, NameOfType
  <2> QED
    BY <1>2, <2>1, <2>2 DEF Rename, TypeOK, Step, Stages, spool, report, budget
<1> QED
  BY <1>1, <1>2

LEMMA SyncDirTyped == \A t \in Tossers : TypeOK /\ SyncDir(t) => TypeOK'
<1> SUFFICES ASSUME TypeOK, NEW t \in Tossers, SyncDir(t) PROVE TypeOK'
  OBVIOUS
<1>1. CASE Fail(t, "sync") /\ UNCHANGED <<spool, user>>
  BY <1>1, FailTyped DEF TypeOK, Busy, spool
<1>2. CASE ~(Fail(t, "sync") /\ UNCHANGED <<spool, user>>)
  BY <1>2 DEF SyncDir, TypeOK, Step, Done, Stages, spool, report, budget
<1> QED
  BY <1>1, <1>2

LEMMA MakeSeenTyped == \A t \in Tossers : TypeOK /\ MakeSeen(t) => TypeOK'
<1> SUFFICES ASSUME TypeOK, NEW t \in Tossers, MakeSeen(t) PROVE TypeOK'
  OBVIOUS
<1>1. MakeSeen(t) => job[t] \in arrived
  BY DEF MakeSeen, Step, Fail, TypeOK
<1>2. CASE Fail(t, "seen")
  BY <1>1, <1>2, FailTyped DEF MakeSeen, Step, TypeOK, Busy
<1>3. CASE ~Fail(t, "seen")
  BY <1>1, <1>3 DEF MakeSeen, TypeOK, Step, Stages, user, report
<1> QED
  BY <1>2, <1>3

LEMMA RemoveTyped == \A t \in Tossers : TypeOK /\ Remove(t) => TypeOK'
<1> SUFFICES ASSUME TypeOK, NEW t \in Tossers, Remove(t) PROVE TypeOK'
  OBVIOUS
<1>1. CASE Fail(t, "remove") /\ UNCHANGED <<spool, user>>
  BY <1>1, FailTyped DEF TypeOK, Busy, spool
<1>2. CASE ~(Fail(t, "remove") /\ UNCHANGED <<spool, user>>)
  BY <1>2 DEF Remove, TypeOK, Step, Stages, user, report, budget
<1> QED
  BY <1>1, <1>2

LEMMA KillTyped == \A t \in Tossers : TypeOK /\ Kill(t) => TypeOK'
BY DEF TypeOK, Kill, Gone, Stages, spool, user

LEMMA CrashTyped == TypeOK /\ Crash => TypeOK'
BY DEF TypeOK, Crash, Gone, Stages

LEMMA StutterTyped == TypeOK /\ UNCHANGED vars => TypeOK'
BY DEF TypeOK, vars, spool, user, tosser, report, budget

LEMMA TypeStep == TypeOK /\ [Next]_vars => TypeOK'
BY ArriveTyped, BeginTyped, RefusedTyped, PassTyped, OpenTyped, EndTyped,
   WorkTyped, ChooseTyped, RenameTyped, SyncDirTyped, MakeSeenTyped,
   RemoveTyped, KillTyped, CrashTyped, StutterTyped DEF Next, JobProcess

\* Every variable of the tossers, their spool and their budget has its type.
THEOREM TossTypeCorrect == Spec => []TypeOK
BY InitTyped, TypeStep, PTL DEF Spec

-----------------------------------------------------------------------------
(* Locks *)

\* What a toss has listed and not yet done with is under a lock it holds.
Held ==
    \A t \in Tossers :
        /\ \A p \in todo[t] : lock[From[p]] = t
        /\ job[t] # None => lock[From[job[t]]] = t

LEMMA InitHeld == Init => Held
BY DEF Init, Held

LEMMA HeldExclusive == TypeOK /\ Held => Exclusive
BY DEF TypeOK, Held, Exclusive

\* A step that takes no lock and starts nothing.
LEMMA HeldOn ==
    ASSUME Held, lock' = lock,
           \A t \in Tossers : todo'[t] \subseteq todo[t] /\ job'[t] \in {job[t], None}
    PROVE  Held'
BY DEF Held

LEMMA BeginHeld ==
    \A t \in Tossers, n \in Nodes : TypeOK /\ Held /\ Begin(t, n) => Held'
<1> SUFFICES ASSUME TypeOK, Held, NEW t \in Tossers, NEW n \in Nodes, Begin(t, n)
             PROVE  Held'
  OBVIOUS
<1>1. /\ lock[n] = None /\ lock' = [lock EXCEPT ![n] = t]
      /\ todo' = [todo EXCEPT ![t] = {p \in rx : From[p] = n}]
      /\ job' = job /\ job[t] = None
  BY DEF Begin, LockDir, TypeOK
<1> SUFFICES ASSUME NEW u \in Tossers
             PROVE  /\ \A p \in todo'[u] : lock'[From[p]] = u
                    /\ job'[u] # None => lock'[From[job'[u]]] = u
  BY DEF Held
<1>2. CASE u = t
  BY <1>1, <1>2 DEF TypeOK
<1>3. CASE u # t
  BY <1>1, <1>3 DEF TypeOK, Held
<1> QED
  BY <1>2, <1>3

LEMMA OpenHeld ==
    \A t \in Tossers, p \in Pkts : TypeOK /\ Held /\ Open(t, p) => Held'
BY DEF TypeOK, Held, Open

LEMMA EndHeld == \A t \in Tossers : TypeOK /\ Held /\ End(t) => Held'
<1> SUFFICES ASSUME TypeOK, Held, NEW t \in Tossers, End(t), NEW u \in Tossers
             PROVE  /\ \A p \in todo'[u] : lock'[From[p]] = u
                    /\ job'[u] # None => lock'[From[job'[u]]] = u
  BY DEF Held
<1>1. /\ todo[t] = {} /\ job[t] = None /\ todo' = todo /\ job' = job
      /\ lock' = [n \in Nodes |-> IF lock[n] = t THEN None ELSE lock[n]]
  BY DEF End, TypeOK
<1> QED
  BY <1>1 DEF TypeOK, Held

LEMMA GoneHeld == \A T \in SUBSET Tossers : TypeOK /\ Held /\ Gone(T) => Held'
<1> SUFFICES ASSUME TypeOK, Held, NEW T \in SUBSET Tossers, Gone(T), NEW u \in Tossers
             PROVE  /\ \A p \in todo'[u] : lock'[From[p]] = u
                    /\ job'[u] # None => lock'[From[job'[u]]] = u
  BY DEF Held
<1>1. CASE u \in T
  BY <1>1 DEF Gone
<1>2. CASE u \notin T
  <2>1. todo'[u] = todo[u] /\ job'[u] = job[u]
    BY <1>2 DEF Gone
  <2>2. \A n \in Nodes : lock[n] = u => lock'[n] = u
    BY <1>2 DEF Gone
  <2> QED
    BY <2>1, <2>2 DEF TypeOK, Held
<1> QED
  BY <1>1, <1>2

LEMMA HeldStep == TypeOK /\ Held /\ [Next]_vars => Held'
<1> SUFFICES ASSUME TypeOK, Held, [Next]_vars PROVE Held'
  OBVIOUS
<1>1. ASSUME NEW t \in Tossers, NEW p \in Pkts, Pass(t, p) PROVE Held'
  <2>1. \A u \in Tossers : todo'[u] \subseteq todo[u] /\ job'[u] = job[u]
    BY <1>1 DEF Pass, TypeOK
  <2> QED
    BY <1>1, <2>1, HeldOn DEF Pass
<1>2. ASSUME NEW t \in Tossers,
             \/ Work(t) \/ Choose(t) \/ Rename(t) \/ SyncDir(t)
             \/ MakeSeen(t) \/ Remove(t)
      PROVE  Held'
  <2>1. lock' = lock /\ todo' = todo
    BY <1>2 DEF Work, Choose, Rename, SyncDir, MakeSeen, Remove, Fail
  <2>2. job' = job \/ job' = [job EXCEPT ![t] = None]
    BY <1>2 DEF Work, Choose, Rename, SyncDir, MakeSeen, Remove, Fail
  <2> QED
    BY <2>1, <2>2, HeldOn DEF TypeOK
<1>3. CASE \E p \in Pkts : Arrive(p)
  BY <1>3, HeldOn DEF Arrive, tosser
<1>7. ASSUME NEW t \in Tossers, NEW n \in Nodes, Refused(t, n) PROVE Held'
  BY <1>7, HeldOn DEF Refused, tosser
<1>4. CASE UNCHANGED vars
  BY <1>4, HeldOn DEF vars, tosser
<1>5. ASSUME NEW t \in Tossers, Kill(t) PROVE Held'
  BY <1>5, GoneHeld DEF Kill
<1>6. CASE Crash
  BY <1>6, GoneHeld DEF Crash
<1> QED
  BY <1>1, <1>2, <1>3, <1>4, <1>5, <1>6, <1>7, BeginHeld, OpenHeld, EndHeld
     DEF Next, JobProcess

\* No packet is in the hands of two tossers, whatever dies and whenever.
THEOREM TossedByOne == Spec => []Exclusive
BY InitTyped, InitHeld, TypeStep, HeldStep, HeldExclusive, PTL DEF Spec

-----------------------------------------------------------------------------
(* Files *)

\* Every neighbour has an Incoming directory of its own, and files go there
\* and not into subdirectories.
OwnDirs ==
    /\ Deep = {}
    /\ \A n, m \in Nodes : Incoming[n] = Incoming[m] => n = m

\* p has taken effect, and no crash changes that.
Safe(p) == effects[p] > 0 \/ \E x \in Names \ loose : files[x] = p

NameAt(t) == NameOf(job[t], name[t])

KeepJob(t) ==
    /\ at[t] = "rename" => files[NameAt(t)] = None
    /\ at[t] = "sync" => files[NameAt(t)] = job[t]
    /\ at[t] \in {"seen", "remove"} => Safe(job[t])
KeepSafe == \A p \in seen \cup (arrived \ rx) : Safe(p)
Keeping == KeepSafe /\ \A t \in Tossers : KeepJob(t)

LEMMA SafeGot == \A p : Safe(p) => Got(p)
BY DEF Safe, Got, Copies

LEMMA KeepingKept == Keeping => Kept /\ SeenGot
BY SafeGot DEF Keeping, KeepSafe, Kept, SeenGot

LEMMA InitKeeping == Init => Keeping
BY DEF Init, Keeping, KeepJob, KeepSafe

\* Two busy tossers write to different directories.
LEMMA NamesApart ==
    ASSUME TypeOK, Held, OwnDirs, NEW t \in Tossers, NEW u \in Tossers, t # u,
           job[t] # None, job[u] # None
    PROVE  NameAt(t) # NameAt(u)
BY DEF TypeOK, Held, OwnDirs, NameAt, NameOf

\* Tosser u is where it was, its file too, and what was safe still is.
LEMMA JobStays ==
    ASSUME NEW u \in Tossers, KeepJob(u), \A p : Safe(p) => Safe(p)',
           at'[u] = at[u], job'[u] = job[u], name'[u] = name[u],
           at[u] \in {"rename", "sync"} => files'[NameAt(u)] = files[NameAt(u)]
    PROVE  KeepJob(u)'
<1>1. PICK p : p = job[u]
  OBVIOUS
<1>2. Safe(job[u])' <=> Safe(p)'
  BY <1>1 DEF Safe
<1>3. Safe(job[u]) <=> Safe(p)
  BY <1>1
<1>4. NameAt(u)' = NameAt(u)
  BY DEF NameAt, NameOf
<1> QED
  BY <1>2, <1>3, <1>4 DEF KeepJob

LEMMA JobNew ==
    ASSUME NEW u \in Tossers, at'[u] \in {"idle", "next", "work", "choose"}
    PROVE  KeepJob(u)'
BY DEF KeepJob

\* A step that leaves files and effects alone.
LEMMA SafeStays ==
    ASSUME files' = files, effects' = effects, loose' \subseteq loose
    PROVE  \A p : Safe(p) => Safe(p)'
BY DEF Safe

\* A step that leaves the files alone and takes no toss further.
LEMMA KeepingOn ==
    ASSUME Keeping, UNCHANGED <<user, name>>,
           \A p \in seen' \cup (arrived' \ rx') : Safe(p),
           \A u \in Tossers :
               \/ at'[u] = at[u] /\ job'[u] = job[u]
               \/ at'[u] \in {"idle", "next", "work", "choose"}
    PROVE  Keeping'
<1>1. \A p : Safe(p) => Safe(p)'
  BY SafeStays DEF user
<1>2. ASSUME NEW u \in Tossers PROVE KeepJob(u)'
  <2>1. CASE at'[u] = at[u] /\ job'[u] = job[u]
    BY <1>1, <2>1, JobStays DEF Keeping, user
  <2> QED
    BY <2>1, JobNew
<1> QED
  BY <1>1, <1>2 DEF Keeping, KeepSafe

LEMMA FailKeeping ==
    ASSUME TypeOK, Keeping, NEW t \in Tossers, NEW s, Fail(t, s), UNCHANGED <<spool, user>>
    PROVE  Keeping'
<1>1. UNCHANGED <<seen, arrived, rx, user, name>>
  BY DEF Fail, spool
<1>2. at' = [at EXCEPT ![t] = "next"] /\ job' = [job EXCEPT ![t] = None]
  BY DEF Fail, Step
<1> QED
  BY <1>1, <1>2, KeepingOn DEF TypeOK, Keeping, KeepSafe

LEMMA ListingKeeping ==
    ASSUME TypeOK, Keeping, NEW t \in Tossers, NEW n \in Nodes,
           Begin(t, n) \/ Refused(t, n)
    PROVE  Keeping'
<1>1. CASE Begin(t, n)
  BY <1>1, KeepingOn DEF Begin, spool, Keeping, KeepSafe, TypeOK
<1>2. CASE Refused(t, n)
  BY <1>2, KeepingOn DEF Refused, spool, tosser, Keeping, KeepSafe
<1> QED
  BY <1>1, <1>2

LEMMA EntryKeeping ==
    ASSUME TypeOK, Keeping, NEW t \in Tossers, NEW p \in Pkts,
           Pass(t, p) \/ Open(t, p)
    PROVE  Keeping'
<1>1. CASE Pass(t, p)
  BY <1>1, KeepingOn DEF Pass, spool, Keeping, KeepSafe
<1>2. CASE Open(t, p)
  <2>1. \A u \in Tossers : \/ at'[u] = at[u] /\ job'[u] = job[u]
                           \/ at'[u] \in {"idle", "next", "work", "choose"}
    BY <1>2 DEF Open, TypeOK
  <2> QED
    BY <1>2, <2>1, KeepingOn DEF Open, spool, Keeping, KeepSafe
<1> QED
  BY <1>1, <1>2

LEMMA EndKeeping ==
    ASSUME TypeOK, Keeping, NEW t \in Tossers, End(t) \/ Kill(t) PROVE Keeping'
<1>1. CASE End(t)
  BY <1>1, KeepingOn DEF End, spool, Keeping, KeepSafe, TypeOK
<1>2. CASE Kill(t)
  <2>1. \A u \in Tossers : \/ at'[u] = at[u] /\ job'[u] = job[u]
                           \/ at'[u] \in {"idle", "next", "work", "choose"}
    BY <1>2 DEF Kill, Gone, TypeOK
  <2> QED
    BY <1>2, <2>1, KeepingOn DEF Kill, Gone, spool, Keeping, KeepSafe
<1> QED
  BY <1>1, <1>2

LEMMA WorkKeeping ==
    ASSUME TypeOK, Keeping, NEW t \in Tossers, Work(t) PROVE Keeping'
<1>1. CASE Fail(t, "work") /\ UNCHANGED <<spool, user>>
  BY <1>1, FailKeeping
<1>2. CASE ~(Fail(t, "work") /\ UNCHANGED <<spool, user>>)
  <2>1. /\ at[t] = "work" /\ at' = [at EXCEPT ![t] = Done(t)]
        /\ effects' = [effects EXCEPT ![job[t]] = @ + 1]
        /\ UNCHANGED <<seen, arrived, rx, files, loose, job, name>>
    BY <1>2 DEF Work, Step, spool
  <2>2. job[t] \in Pkts /\ effects \in [Pkts -> Nat]
    BY <2>1 DEF TypeOK
  <2>3. \A p : Safe(p) => Safe(p)'
    <3>1. \A p \in Pkts : effects[p] > 0 => effects'[p] > 0
      BY <2>1, <2>2
    <3>2. \A p : p \notin Pkts => effects'[p] = effects[p]
      BY <2>1, <2>2
    <3> QED
      BY <2>1, <3>1, <3>2 DEF Safe
  <2>4. ASSUME NEW u \in Tossers PROVE KeepJob(u)'
    <3>1. CASE u = t
      <4>1. PICK p : p = job[t]
        OBVIOUS
      <4>2. effects'[p] > 0
        BY <2>1, <2>2, <4>1
      <4> QED
        BY <2>1, <3>1, <4>1, <4>2 DEF KeepJob, Safe, Done, TypeOK
    <3>2. CASE u # t
      BY <2>1, <2>3, <3>2, JobStays DEF Keeping, TypeOK
    <3> QED
      BY <3>1, <3>2
  <2> QED
    BY <2>1, <2>3, <2>4 DEF Keeping, KeepSafe
<1> QED
  BY <1>1, <1>2

LEMMA ChooseKeeping ==
    ASSUME TypeOK, Keeping, NEW t \in Tossers, Choose(t) PROVE Keeping'
<1>1. CASE Fail(t, "choose") /\ UNCHANGED <<spool, user>>
  BY <1>1, FailKeeping
<1>2. CASE ~(Fail(t, "choose") /\ UNCHANGED <<spool, user>>)
  <2>1. PICK k \in 0..MaxSuffix :
            /\ at' = [at EXCEPT ![t] = "rename"]
            /\ Free(job[t], k) /\ name' = [name EXCEPT ![t] = k]
            /\ UNCHANGED <<spool, user, job>>
    BY <1>2 DEF Choose, Step
  <2>2. \A p : Safe(p) => Safe(p)'
    BY <2>1, SafeStays DEF user
  <2>3. ASSUME NEW u \in Tossers PROVE KeepJob(u)'
    <3>1. CASE u = t
      BY <2>1, <3>1 DEF KeepJob, NameAt, Free, TypeOK, user, NameOf
    <3>2. CASE u # t
      BY <2>1, <2>2, <3>2, JobStays DEF Keeping, TypeOK, user
    <3> QED
      BY <3>1, <3>2
  <2> QED
    BY <2>1, <2>2, <2>3 DEF Keeping, KeepSafe, spool
<1> QED
  BY <1>1, <1>2

LEMMA RenameKeeping ==
    ASSUME TypeOK, Held, OwnDirs, Keeping, NEW t \in Tossers, Rename(t) PROVE Keeping'
<1>1. CASE Fail(t, "rename") /\ UNCHANGED <<spool, user>>
  BY <1>1, FailKeeping
<1>2. CASE ~(Fail(t, "rename") /\ UNCHANGED <<spool, user>>)
  <2>1. /\ at[t] = "rename" /\ at' = [at EXCEPT ![t] = "sync"]
        /\ files' = [files EXCEPT ![NameAt(t)] = job[t]]
        /\ loose' = loose \cup {NameAt(t)}
        /\ UNCHANGED <<spool, effects, job, name>>
    BY <1>2 DEF Rename, Step, NameAt
  <2>2. /\ job[t] \in Pkts /\ NameAt(t) \in Names /\ files[NameAt(t)] = None
        /\ files \in [Names -> Pkts \cup {None}]
    BY <2>1, NameOfType DEF TypeOK, Keeping, KeepJob, NameAt
  <2>3. \A p \in Pkts : Safe(p) => Safe(p)'
    BY <2>1, <2>2 DEF Safe
  <2>4. ASSUME NEW u \in Tossers PROVE KeepJob(u)'
    <3>1. CASE u = t
      BY <2>1, <2>2, <3>1 DEF KeepJob, NameAt, NameOf, TypeOK
    <3>2. CASE u # t
      <4>1. /\ at'[u] = at[u] /\ job'[u] = job[u] /\ name'[u] = name[u]
            /\ NameAt(u)' = NameAt(u)
        BY <2>1, <3>2 DEF TypeOK, NameAt, NameOf
      <4>2. at[u] \in {"rename", "sync", "seen", "remove"} => job[u] \in Pkts
        BY DEF TypeOK
      <4>3. at[u] \in {"rename", "sync"} => files'[NameAt(u)] = files[NameAt(u)]
        <5>1. CASE at[u] \in {"rename", "sync"}
          <6>1. job[u] # None /\ job[t] # None
            BY <2>2, <4>2, <5>1
          <6>2. NameAt(t) # NameAt(u)
            BY <3>2, <6>1, NamesApart
          <6> QED
            BY <2>1, <2>2, <6>2
        <5> QED
          BY <5>1
      <4>4. at[u] \in {"seen", "remove"} => Safe(job[u])'
        <5>1. CASE at[u] \in {"seen", "remove"}
          <6>1. PICK p \in Pkts : p = job[u]
            BY <4>2, <5>1
          <6>2. Safe(p)
            BY <5>1, <6>1 DEF Keeping, KeepJob
          <6>3. Safe(p)'
            BY <2>3, <6>2
          <6>4. Safe(job[u])' <=> Safe(p)'
            BY <4>1, <6>1 DEF Safe
          <6> QED
            BY <6>3, <6>4
        <5> QED
          BY <5>1
      <4> QED
        BY <4>1, <4>3, <4>4 DEF Keeping, KeepJob
    <3> QED
      BY <3>1, <3>2
  <2>5. seen \cup (arrived \ rx) \subseteq Pkts
    BY DEF TypeOK
  <2> QED
    BY <2>1, <2>3, <2>4, <2>5 DEF Keeping, KeepSafe, spool
<1> QED
  BY <1>1, <1>2

LEMMA SyncDirKeeping ==
    ASSUME TypeOK, OwnDirs, Keeping, NEW t \in Tossers, SyncDir(t) PROVE Keeping'
<1>1. CASE Fail(t, "sync") /\ UNCHANGED <<spool, user>>
  BY <1>1, FailKeeping
<1>2. CASE ~(Fail(t, "sync") /\ UNCHANGED <<spool, user>>)
  <2>1. /\ at[t] = "sync" /\ at' = [at EXCEPT ![t] = Done(t)]
        /\ loose' = loose \ Synced(job[t])
        /\ UNCHANGED <<spool, files, effects, job, name>>
    BY <1>2 DEF SyncDir, Step
  <2>2. /\ job[t] \in Pkts /\ NameAt(t) \in Names /\ files[NameAt(t)] = job[t]
        /\ name[t] \in 0..MaxSuffix
    BY <2>1, NameOfType DEF TypeOK, Keeping, KeepJob, NameAt
  <2>3. \A p : Safe(p) => Safe(p)'
    BY <2>1, SafeStays
  <2>4. NameAt(t) \in Synced(job[t])
    BY <2>2 DEF Synced, NameAt, NameOf, OwnDirs
  <2>5. ASSUME NEW u \in Tossers PROVE KeepJob(u)'
    <3>1. CASE u = t
      <4>1. Safe(job[t])'
        BY <2>1, <2>2, <2>4 DEF Safe
      <4> QED
        BY <2>1, <3>1, <4>1 DEF KeepJob, Done, TypeOK
    <3>2. CASE u # t
      BY <2>1, <2>3, <3>2, JobStays DEF Keeping, TypeOK
    <3> QED
      BY <3>1, <3>2
  <2> QED
    BY <2>1, <2>3, <2>5 DEF Keeping, KeepSafe, spool
<1> QED
  BY <1>1, <1>2

LEMMA MakeSeenKeeping ==
    ASSUME TypeOK, Keeping, NEW t \in Tossers, MakeSeen(t) PROVE Keeping'
<1>1. /\ at[t] = "seen"
      /\ UNCHANGED <<arrived, rx, user, name>>
      /\ seen' \subseteq seen \cup {job[t]}
  BY DEF MakeSeen, Fail, Step
<1>2. Safe(job[t])
  BY <1>1 DEF Keeping, KeepJob
<1>3. \A p \in seen' \cup (arrived' \ rx') : Safe(p)
  BY <1>1, <1>2 DEF Keeping, KeepSafe
<1>4. CASE Fail(t, "seen")
  <2>1. at' = [at EXCEPT ![t] = "next"] /\ job' = [job EXCEPT ![t] = None]
    BY <1>4 DEF Fail, Step
  <2> QED
    BY <1>1, <1>3, <2>1, KeepingOn DEF TypeOK
<1>5. CASE ~Fail(t, "seen")
  <2>1. at' = [at EXCEPT ![t] = "remove"] /\ job' = job
    BY <1>5 DEF MakeSeen, Step
  <2>2. \A p : Safe(p) => Safe(p)'
    BY <1>1, SafeStays DEF user
  <2>3. ASSUME NEW u \in Tossers PROVE KeepJob(u)'
    <3>1. CASE u = t
      BY <1>1, <1>2, <2>1, <3>1 DEF KeepJob, Safe, TypeOK, user
    <3>2. CASE u # t
      BY <1>1, <2>1, <2>2, <3>2, JobStays DEF Keeping, TypeOK, user
    <3> QED
      BY <3>1, <3>2
  <2> QED
    BY <1>3, <2>2, <2>3 DEF Keeping, KeepSafe
<1> QED
  BY <1>4, <1>5

LEMMA RemoveKeeping ==
    ASSUME TypeOK, Keeping, NEW t \in Tossers, Remove(t) PROVE Keeping'
<1>1. CASE Fail(t, "remove") /\ UNCHANGED <<spool, user>>
  BY <1>1, FailKeeping
<1>2. CASE ~(Fail(t, "remove") /\ UNCHANGED <<spool, user>>)
  <2>1. /\ at[t] = "remove" /\ at' = [at EXCEPT ![t] = "next"]
        /\ job' = [job EXCEPT ![t] = None] /\ rx' = rx \ {job[t]}
        /\ UNCHANGED <<arrived, seen, user, name>>
    BY <1>2 DEF Remove, Step
  <2>2. Safe(job[t])
    BY <2>1 DEF Keeping, KeepJob
  <2> QED
    BY <2>1, <2>2, KeepingOn DEF Keeping, KeepSafe, TypeOK
<1> QED
  BY <1>1, <1>2

LEMMA CrashKeeping ==
    ASSUME TypeOK, Keeping, Crash PROVE Keeping'
<1>1. PICK lost \in SUBSET loose :
          /\ files' = [x \in Names |-> IF x \in lost THEN None ELSE files[x]]
          /\ loose' = {} /\ effects' = effects
          /\ arrived' = arrived /\ rx \subseteq rx' /\ seen' \subseteq seen
  BY DEF Crash
<1>2. \A p : Safe(p) => Safe(p)'
  BY <1>1 DEF Safe
<1>3. \A u \in Tossers : at'[u] = "idle"
  BY DEF Crash, Gone
<1> QED
  BY <1>1, <1>2, <1>3, JobNew DEF Keeping, KeepSafe

LEMMA KeepingStep ==
    ASSUME OwnDirs, TypeOK, Held, Keeping, [Next]_vars PROVE Keeping'
<1>1. ASSUME NEW p \in Pkts, Arrive(p) PROVE Keeping'
  BY <1>1, KeepingOn DEF Arrive, tosser, Keeping, KeepSafe
<1>2. CASE UNCHANGED vars
  BY <1>2, KeepingOn DEF vars, spool, tosser, Keeping, KeepSafe
<1>3. ASSUME NEW t \in Tossers, NEW n \in Nodes, Begin(t, n) \/ Refused(t, n)
      PROVE  Keeping'
  BY <1>3, ListingKeeping
<1>4. ASSUME NEW t \in Tossers, NEW p \in Pkts, Pass(t, p) \/ Open(t, p)
      PROVE  Keeping'
  BY <1>4, EntryKeeping
<1>5. ASSUME NEW t \in Tossers,
             \/ Work(t) \/ Choose(t) \/ Rename(t) \/ SyncDir(t)
             \/ MakeSeen(t) \/ Remove(t) \/ End(t) \/ Kill(t)
      PROVE  Keeping'
  BY <1>5, WorkKeeping, ChooseKeeping, RenameKeeping, SyncDirKeeping,
     MakeSeenKeeping, RemoveKeeping, EndKeeping
<1> QED
  BY <1>1, <1>2, <1>3, <1>4, <1>5, CrashKeeping DEF Next, JobProcess

\* What has left rx/ is still there: in a file of its own or in an effect.
THEOREM FilesKept == ASSUME OwnDirs PROVE Spec => []Kept
<1>1. TypeOK /\ Held /\ Keeping /\ [Next]_vars => (TypeOK /\ Held /\ Keeping)'
  BY TypeStep, HeldStep, KeepingStep
<1>2. Init => TypeOK /\ Held /\ Keeping
  BY InitTyped, InitHeld, InitKeeping
<1> QED
  BY <1>1, <1>2, KeepingKept, PTL DEF Spec

\* Nothing is recorded in seen/ that has not taken effect.
THEOREM SeenIsGot == ASSUME OwnDirs PROVE Spec => []SeenGot
<1>1. TypeOK /\ Held /\ Keeping /\ [Next]_vars => (TypeOK /\ Held /\ Keeping)'
  BY TypeStep, HeldStep, KeepingStep
<1>2. Init => TypeOK /\ Held /\ Keeping
  BY InitTyped, InitHeld, InitKeeping
<1> QED
  BY <1>1, <1>2, KeepingKept, PTL DEF Spec

\* Only a rename makes files, and Keeping has its name free.
LEMMA OverwriteStep ==
    ASSUME TypeOK, Keeping, [Next]_vars, NEW x \in Names, files[x] # None
    PROVE  files'[x] \in {files[x], None}
<1>1. ASSUME NEW t \in Tossers, Rename(t) PROVE files'[x] \in {files[x], None}
  BY <1>1 DEF Rename, Step, Keeping, KeepJob, NameAt, TypeOK, user
<1>2. CASE Crash
  BY <1>2 DEF Crash
<1>3. CASE ~Crash /\ \A t \in Tossers : ~Rename(t)
  <2>1. files' = files
    BY <1>3 DEF Next, JobProcess, Arrive, Begin, Refused, Pass, Open, End, Work,
       Choose, SyncDir, MakeSeen, Remove, Kill, vars, user
  <2> QED
    BY <2>1
<1> QED
  BY <1>1, <1>2, <1>3

\* No file that was delivered is overwritten by another one.
THEOREM NeverOverwritten == ASSUME OwnDirs PROVE Spec => NoOverwrite
<1>1. TypeOK /\ Held /\ Keeping /\ [Next]_vars => (TypeOK /\ Held /\ Keeping)'
  BY TypeStep, HeldStep, KeepingStep
<1>2. Init => TypeOK /\ Held /\ Keeping
  BY InitTyped, InitHeld, InitKeeping
<1>3. TypeOK /\ Keeping /\ [Next]_vars
        => [\A x \in Names : files[x] # None => files'[x] \in {files[x], None}]_vars
  BY OverwriteStep
<1> QED
  BY <1>1, <1>2, <1>3, PTL DEF Spec, NoOverwrite

-----------------------------------------------------------------------------
(* Copies, wherever the files go *)

Made(p)  == Cardinality(Copies(p)) + effects[p]
Spent    == faults + kills + crashes
Acted(p) == \E t \in Tossers : job[t] = p /\ at[t] \in {"sync", "seen", "remove"}

\* A packet may take effect while it is in rx/ and no toss of it has acted.
MayAct(p) == (p \in rx \/ p \notin arrived) /\ ~Acted(p)

\* What is listed or worked on is in rx/, and not both.
Due ==
    /\ \A t \in Tossers : \A p \in todo[t] : p \in rx /\ \A u \in Tossers : job[u] # p
    /\ \A t \in Tossers : job[t] # None => job[t] \in rx

\* Every effect but one has been paid for by a trouble, and all of them when
\* another one is possible.
Paid(p) ==
    /\ IsFiniteSet(Copies(p))
    /\ Made(p) <= Spent + 1
    /\ MayAct(p) => Made(p) <= Spent

LEMMA DueStep ==
    ASSUME TypeOK, Held, Due, [Next]_vars PROVE Due'
<1>1. ASSUME rx \subseteq rx',
             \A t \in Tossers : todo'[t] \subseteq todo[t] /\ job'[t] \in {job[t], None}
      PROVE  Due'
  BY <1>1, TossAssumption DEF Due, TypeOK
<1>2. ASSUME NEW p \in Pkts, Arrive(p) PROVE Due'
  BY <1>1, <1>2 DEF Arrive, tosser
<1>3. ASSUME NEW t \in Tossers, NEW n \in Nodes, Begin(t, n) PROVE Due'
  <2>1. lock[n] = None /\ rx' = rx /\ job' = job
        /\ todo' = [todo EXCEPT ![t] = {p \in rx : From[p] = n}]
    BY <1>3 DEF Begin, LockDir, spool
  <2>2. \A p \in rx, u \in Tossers : From[p] = n => job[u] # p
    BY <2>1 DEF Held, TypeOK
  <2> QED
    BY <2>1, <2>2 DEF Due, TypeOK
<1>4. ASSUME NEW t \in Tossers, NEW n \in Nodes, Refused(t, n) PROVE Due'
  BY <1>1, <1>4 DEF Refused, spool, tosser
<1>5. ASSUME NEW t \in Tossers, NEW p \in Pkts, Pass(t, p) PROVE Due'
  BY <1>1, <1>5 DEF Pass, spool, TypeOK
<1>6. ASSUME NEW t \in Tossers, NEW p \in Pkts, Open(t, p) PROVE Due'
  <2>1. /\ p \in todo[t] /\ rx' = rx
        /\ todo' = [todo EXCEPT ![t] = @ \ {p}] /\ job' = [job EXCEPT ![t] = p]
    BY <1>6 DEF Open, spool
  <2>2. \A u \in Tossers : p \notin todo'[u]
    BY <2>1 DEF Held, TypeOK
  <2> QED
    BY <2>1, <2>2 DEF Due, TypeOK
<1>7. ASSUME NEW t \in Tossers, End(t) PROVE Due'
  BY <1>1, <1>7 DEF End, spool
<1>8. ASSUME NEW t \in Tossers,
             \/ Work(t) \/ Choose(t) \/ Rename(t) \/ SyncDir(t) \/ MakeSeen(t)
      PROVE  Due'
  <2>1. rx' = rx /\ todo' = todo /\ (job' = job \/ job' = [job EXCEPT ![t] = None])
    BY <1>8 DEF Work, Choose, Rename, SyncDir, MakeSeen, Fail, spool
  <2> QED
    BY <1>1, <2>1 DEF TypeOK
<1>9. ASSUME NEW t \in Tossers, Remove(t) PROVE Due'
  <2>1. /\ rx \ {job[t]} \subseteq rx' /\ todo' = todo
        /\ job' = [job EXCEPT ![t] = None] /\ job[t] # None
    BY <1>9 DEF Remove, Fail, Step, spool, TypeOK
  <2>2. \A u \in Tossers : u # t => job[u] # job[t]
    BY <2>1 DEF Held, TypeOK
  <2> QED
    BY <2>1, <2>2 DEF Due, TypeOK
<1>10. ASSUME NEW t \in Tossers, Kill(t) PROVE Due'
  BY <1>1, <1>10 DEF Kill, Gone, spool
<1>11. CASE Crash
  BY <1>1, <1>11 DEF Crash, Gone
<1>12. CASE UNCHANGED vars
  BY <1>1, <1>12 DEF vars, spool, tosser
<1> QED
  BY <1>2, <1>3, <1>4, <1>5, <1>6, <1>7, <1>8, <1>9, <1>10, <1>11, <1>12
     DEF Next, JobProcess

\* Makes(t): t's packet takes effect.  Any other step makes no copy, and
\* either is a trouble or makes no packet open that was not.
Makes(t) ==
    /\ Spent' = Spent /\ job'[t] = job[t] /\ at[t] \in {"rename", "work"}
    /\ at'[t] \in {"sync", "seen", "remove"}
    /\ \A u \in Tossers \ {t} : job'[u] = job[u] /\ at'[u] = at[u]
    /\ UNCHANGED <<rx, arrived>>
    /\ \/ effects' = effects /\ files' = [files EXCEPT ![NameOf(job[t], name[t])] = job[t]]
       \/ effects' = [effects EXCEPT ![job[t]] = @ + 1] /\ files' = files
Trouble ==
    /\ Spent' = Spent + 1 /\ effects' = effects
    /\ \A x \in Names : files'[x] \in {files[x], None}
Calmly ==
    /\ UNCHANGED <<faults, kills, crashes, files, effects>>
    /\ \A p \in Pkts : MayAct(p)' => MayAct(p)

LEMMA Steps ==
    ASSUME TypeOK, [Next]_vars
    PROVE  Calmly \/ Trouble \/ \E t \in Tossers : Makes(t)
<1> USE DEF spool, user, report, budget
<1>1. ASSUME NEW t \in Tossers, NEW s, Fail(t, s), UNCHANGED user PROVE Trouble
  BY <1>1 DEF Fail, Trouble, Spent, TypeOK
<1>2. ASSUME NEW t \in Tossers, Kill(t) PROVE Trouble
  BY <1>2 DEF Kill, Trouble, Spent, TypeOK
<1>3. CASE Crash
  BY <1>3 DEF Crash, Trouble, Spent, TypeOK
\* What acts goes on acting, and what is in rx/ or to come was so before.
<1>4. ASSUME UNCHANGED <<faults, kills, crashes, files, effects>>,
             \A p \in Pkts : (p \in rx' \/ p \notin arrived') => (p \in rx \/ p \notin arrived),
             \A u \in Tossers :
                at[u] \in {"sync", "seen", "remove"} =>
                    job'[u] = job[u] /\ at'[u] \in {"sync", "seen", "remove"}
      PROVE  Calmly
  BY <1>4 DEF Calmly, MayAct, Acted
<1>5. ASSUME NEW p \in Pkts, Arrive(p) PROVE Calmly
  BY <1>4, <1>5 DEF Arrive, tosser
<1>6. ASSUME NEW t \in Tossers, NEW n \in Nodes, Begin(t, n) PROVE Calmly
  BY <1>4, <1>6 DEF Begin, TypeOK
<1>7. ASSUME NEW t \in Tossers, NEW n \in Nodes, Refused(t, n) PROVE Calmly
  BY <1>4, <1>7 DEF Refused, tosser
<1>8. ASSUME NEW t \in Tossers, NEW p \in Pkts, Pass(t, p) PROVE Calmly
  BY <1>4, <1>8 DEF Pass
<1>9. ASSUME NEW t \in Tossers, NEW p \in Pkts, Open(t, p) PROVE Calmly
  BY <1>4, <1>9 DEF Open, TypeOK
<1>10. ASSUME NEW t \in Tossers, End(t) PROVE Calmly
  BY <1>4, <1>10 DEF End, TypeOK
<1>11. ASSUME NEW t \in Tossers, Work(t), ~Fail(t, "work") PROVE Makes(t)
  BY <1>11 DEF Work, Step, Done, Makes, Spent, TypeOK
<1>12. ASSUME NEW t \in Tossers, Choose(t), ~Fail(t, "choose") PROVE Calmly
  BY <1>4, <1>12 DEF Choose, Step, TypeOK
<1>13. ASSUME NEW t \in Tossers, Rename(t), ~Fail(t, "rename") PROVE Makes(t)
  BY <1>13 DEF Rename, Step, Makes, Spent, TypeOK
<1>14. ASSUME NEW t \in Tossers, SyncDir(t), ~Fail(t, "sync") PROVE Calmly
  BY <1>4, <1>14 DEF SyncDir, Step, Done, TypeOK
<1>15. ASSUME NEW t \in Tossers, MakeSeen(t), ~Fail(t, "seen") PROVE Calmly \/ Trouble
  <2>1. CASE faults' = faults
    BY <1>4, <1>15, <2>1 DEF MakeSeen, Step, TypeOK
  <2>2. CASE faults' = faults + 1
    BY <1>15, <2>2 DEF MakeSeen, Trouble, Spent, TypeOK
  <2> QED
    BY <1>15, <2>1, <2>2 DEF MakeSeen
<1>16. ASSUME NEW t \in Tossers, Remove(t), ~Fail(t, "remove") PROVE Calmly
  <2>1. /\ UNCHANGED <<faults, kills, crashes, files, effects, arrived>>
        /\ rx' = rx \ {job[t]} /\ job[t] \in arrived
        /\ \A u \in Tossers \ {t} : job'[u] = job[u] /\ at'[u] = at[u]
    BY <1>16 DEF Remove, Step, TypeOK
  <2> QED
    BY <2>1 DEF Calmly, MayAct, Acted
<1>17. CASE UNCHANGED vars
  BY <1>4, <1>17 DEF vars, tosser
<1>18. ASSUME NEW t \in Tossers, NEW s, Fail(t, s) PROVE at'[t] = "next"
  BY <1>18 DEF Fail, Step, TypeOK
<1>19. ASSUME NEW t \in Tossers, Work(t) \/ Rename(t) PROVE Trouble \/ Makes(t)
  <2>1. CASE Work(t)
    <3>1. CASE Fail(t, "work")
      <4>1. UNCHANGED user
        BY <1>18, <2>1, <3>1 DEF Work, Step, Done, TypeOK
      <4> QED
        BY <1>1, <3>1, <4>1
    <3>2. CASE ~Fail(t, "work")
      BY <1>11, <2>1, <3>2
    <3> QED
      BY <3>1, <3>2
  <2>2. CASE Rename(t)
    <3>1. CASE Fail(t, "rename")
      <4>1. UNCHANGED user
        BY <1>18, <2>2, <3>1 DEF Rename, Step, Done, TypeOK
      <4> QED
        BY <1>1, <3>1, <4>1
    <3>2. CASE ~Fail(t, "rename")
      BY <1>13, <2>2, <3>2
    <3> QED
      BY <3>1, <3>2
  <2> QED
    BY <1>19, <2>1, <2>2
<1>20. ASSUME NEW t \in Tossers,
              Choose(t) \/ SyncDir(t) \/ MakeSeen(t) \/ Remove(t)
       PROVE  Calmly \/ Trouble
  <2>1. CASE Choose(t)
    <3>1. CASE Fail(t, "choose")
      <4>1. UNCHANGED user
        BY <1>18, <2>1, <3>1 DEF Choose, Step, Done, TypeOK
      <4> QED
        BY <1>1, <3>1, <4>1
    <3>2. CASE ~Fail(t, "choose")
      BY <1>12, <2>1, <3>2
    <3> QED
      BY <3>1, <3>2
  <2>2. CASE SyncDir(t)
    <3>1. CASE Fail(t, "sync")
      <4>1. UNCHANGED user
        BY <1>18, <2>2, <3>1 DEF SyncDir, Step, Done, TypeOK
      <4> QED
        BY <1>1, <3>1, <4>1
    <3>2. CASE ~Fail(t, "sync")
      BY <1>14, <2>2, <3>2
    <3> QED
      BY <3>1, <3>2
  <2>3. CASE MakeSeen(t)
    <3>1. CASE Fail(t, "seen")
      <4>1. UNCHANGED user
        BY <1>18, <2>3, <3>1 DEF MakeSeen, Step, Done, TypeOK
      <4> QED
        BY <1>1, <3>1, <4>1
    <3>2. CASE ~Fail(t, "seen")
      BY <1>15, <2>3, <3>2
    <3> QED
      BY <3>1, <3>2
  <2>4. CASE Remove(t)
    <3>1. CASE Fail(t, "remove")
      <4>1. UNCHANGED user
        BY <1>18, <2>4, <3>1 DEF Remove, Step, Done, TypeOK
      <4> QED
        BY <1>1, <3>1, <4>1
    <3>2. CASE ~Fail(t, "remove")
      BY <1>16, <2>4, <3>2
    <3> QED
      BY <3>1, <3>2
  <2> QED
    BY <1>20, <2>1, <2>2, <2>3, <2>4
<1>21. ASSUME NEW t \in Tossers, JobProcess(t)
       PROVE  Calmly \/ Trouble \/ Makes(t)
  BY <1>8, <1>9, <1>10, <1>19, <1>20, <1>21 DEF JobProcess
<1> QED
  BY <1>2, <1>3, <1>5, <1>6, <1>7, <1>17, <1>21 DEF Next

LEMMA OneMore ==
    ASSUME NEW S, IsFiniteSet(S), NEW x
    PROVE  IsFiniteSet(S \cup {x}) /\ Cardinality(S \cup {x}) <= Cardinality(S) + 1
<1>1. Cardinality(S) \in Nat
  BY FS_CardinalityType
<1>2. IsFiniteSet(S \cup {x})
      /\ Cardinality(S \cup {x}) = IF x \in S THEN Cardinality(S) ELSE Cardinality(S) + 1
  BY FS_AddElement
<1> QED
  BY <1>1, <1>2

\* Files that are not made take no copy more.
LEMMA NoneMade ==
    ASSUME TypeOK, NEW p \in Pkts, IsFiniteSet(Copies(p)),
           \A x \in Names : files'[x] = p => files[x] = p,
           effects'[p] = effects[p]
    PROVE  IsFiniteSet(Copies(p)') /\ Made(p)' <= Made(p) /\ Made(p)' \in Nat
<1>1. Copies(p)' \subseteq Copies(p)
  BY DEF Copies
<1>2. /\ IsFiniteSet(Copies(p)')
      /\ Cardinality(Copies(p)') <= Cardinality(Copies(p))
  BY <1>1, FS_Subset
<1>3. Cardinality(Copies(p)) \in Nat /\ Cardinality(Copies(p)') \in Nat
  BY <1>2, FS_CardinalityType
<1> QED
  BY <1>2, <1>3 DEF Made, TypeOK

LEMMA OneMade ==
    ASSUME TypeOK, NEW t \in Tossers, Makes(t), NEW p \in Pkts, job[t] = p,
           IsFiniteSet(Copies(p))
    PROVE  IsFiniteSet(Copies(p)') /\ Made(p)' <= Made(p) + 1
<1>1. Cardinality(Copies(p)) \in Nat
  BY FS_CardinalityType
<1>2. CASE effects' = effects /\ files' = [files EXCEPT ![NameOf(job[t], name[t])] = job[t]]
  <2> DEFINE x == NameOf(job[t], name[t])
  <2>1. Copies(p)' \subseteq Copies(p) \cup {x}
    BY <1>2 DEF Copies, TypeOK
  <2> HIDE DEF x
  <2>2. /\ IsFiniteSet(Copies(p) \cup {x})
        /\ Cardinality(Copies(p) \cup {x}) <= Cardinality(Copies(p)) + 1
    BY OneMore
  <2>3. /\ IsFiniteSet(Copies(p)')
        /\ Cardinality(Copies(p)') <= Cardinality(Copies(p) \cup {x})
    BY <2>1, <2>2, FS_Subset
  <2>4. Cardinality(Copies(p)') \in Nat /\ Cardinality(Copies(p) \cup {x}) \in Nat
    BY <2>2, <2>3, FS_CardinalityType
  <2> QED
    BY <1>1, <1>2, <2>2, <2>3, <2>4 DEF Made, TypeOK
<1>3. CASE effects' = [effects EXCEPT ![job[t]] = @ + 1] /\ files' = files
  <2>1. Copies(p)' = Copies(p)
    BY <1>3 DEF Copies
  <2>2. effects'[p] = effects[p] + 1
    BY <1>3 DEF TypeOK
  <2> QED
    BY <1>1, <2>1, <2>2 DEF Made, TypeOK
<1> QED
  BY <1>2, <1>3 DEF Makes

LEMMA PaidStep ==
    ASSUME TypeOK, Held, Due, [Next]_vars, NEW p \in Pkts, Paid(p)
    PROVE  Paid(p)'
<1>0. IsFiniteSet(Copies(p)) /\ Made(p) <= Spent + 1 /\ (MayAct(p) => Made(p) <= Spent)
  BY DEF Paid
<1>1. Made(p) \in Nat /\ Spent \in Nat
  <2>1. Cardinality(Copies(p)) \in Nat
    BY <1>0, FS_CardinalityType
  <2> QED
    BY <2>1 DEF Made, Spent, TypeOK
<1>2. CASE Calmly
  <2>1. IsFiniteSet(Copies(p)') /\ Made(p)' <= Made(p) /\ Made(p)' \in Nat
    BY <1>0, <1>2, NoneMade DEF Calmly
  <2>2. Spent' = Spent /\ (MayAct(p)' => MayAct(p))
    BY <1>2 DEF Calmly, Spent
  <2> QED
    BY <1>0, <1>1, <2>1, <2>2 DEF Paid
<1>3. CASE Trouble
  <2>1. IsFiniteSet(Copies(p)') /\ Made(p)' <= Made(p) /\ Made(p)' \in Nat
    BY <1>0, <1>3, NoneMade DEF Trouble
  <2>2. Spent' = Spent + 1
    BY <1>3 DEF Trouble
  <2> QED
    BY <1>0, <1>1, <2>1, <2>2 DEF Paid
<1>4. ASSUME NEW t \in Tossers, Makes(t), job[t] = p PROVE Paid(p)'
  <2>1. IsFiniteSet(Copies(p)') /\ Made(p)' <= Made(p) + 1
    BY <1>0, <1>4, OneMade
  <2>2. ~Acted(p)
    BY <1>4 DEF Makes, Acted, Held, TypeOK
  <2>3. p \in rx
    BY <1>4 DEF Due
  <2>4. Made(p) <= Spent
    BY <1>0, <2>2, <2>3 DEF MayAct
  <2>5. ~MayAct(p)'
    BY <1>4 DEF Makes, MayAct, Acted
  <2>6. Spent' = Spent /\ Made(p)' \in Int
    <3>1. Cardinality(Copies(p)') \in Nat
      BY <2>1, FS_CardinalityType
    <3>2. effects'[p] \in Nat
      BY TypeStep DEF TypeOK
    <3> QED
      BY <1>4, <3>1, <3>2 DEF Makes, Made
  <2> QED
    BY <1>1, <2>1, <2>4, <2>5, <2>6 DEF Paid
<1>5. ASSUME NEW t \in Tossers, Makes(t), job[t] # p PROVE Paid(p)'
  <2>1. effects'[p] = effects[p] /\ \A x \in Names : files'[x] = p => files[x] = p
    BY <1>5 DEF Makes, TypeOK
  <2>2. IsFiniteSet(Copies(p)') /\ Made(p)' <= Made(p) /\ Made(p)' \in Nat
    BY <1>0, <2>1, NoneMade
  <2>3. MayAct(p)' => MayAct(p)
    BY <1>5 DEF Makes, MayAct, Acted
  <2>4. Spent' = Spent
    BY <1>5 DEF Makes
  <2> QED
    BY <1>0, <1>1, <2>2, <2>3, <2>4 DEF Paid
<1> QED
  BY <1>2, <1>3, <1>4, <1>5, Steps

\* A packet takes effect once, and at most once more for every failing call,
\* killed tosser and crash, for any number of tossers and wherever files go
\* (jobProcess under the toss lock: work, rename, seen/ and removal in order).
THEOREM TossedOnce == Spec => []FewCopies
<1> DEFINE AllPaid == \A p \in Pkts : Paid(p)
<1>1. Init => Due /\ AllPaid
  <2> SUFFICES ASSUME Init PROVE Due /\ AllPaid
    OBVIOUS
  <2>1. Due
    BY DEF Init, Due
  <2>2. ASSUME NEW p \in Pkts PROVE Paid(p)
    <3>1. Copies(p) = {} /\ effects[p] = 0 /\ Spent = 0
      BY DEF Init, Copies, Spent
    <3>2. Made(p) = 0 /\ IsFiniteSet(Copies(p))
      BY <3>1, FS_EmptySet DEF Made
    <3> QED
      BY <3>1, <3>2 DEF Paid
  <2> QED
    BY <2>1, <2>2
<1>2. TypeOK /\ Held /\ Due /\ AllPaid /\ [Next]_vars => Due' /\ AllPaid'
  BY DueStep, PaidStep
<1>3. TypeOK /\ AllPaid => FewCopies
  BY DEF Paid, Made, Spent, FewCopies, TypeOK
<1> HIDE DEF AllPaid
<1> QED
  BY <1>1, <1>2, <1>3, InitTyped, InitHeld, TypeStep, HeldStep, PTL DEF Spec
=============================================================================
