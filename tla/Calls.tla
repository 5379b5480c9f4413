------------------------------- MODULE Calls -------------------------------
(***************************************************************************)
(* The calls between a node and one neighbour: nncp-caller's goroutines,   *)
(* one per configured call (src/src/cmd/nncp-caller/main.go), CallNode     *)
(* (src/src/call.go), nncp-daemon's connections                            *)
(* (src/src/cmd/nncp-daemon/main.go), each with an AutoToss beside it, and *)
(* the lock files they exclude each other with (src/src/lockdir.go), which *)
(* nncp-rm -lock may remove meanwhile.  (nncp-call does once, and without  *)
(* asking Busy, what a goroutine of nncp-caller does.)  What happens in a  *)
(* session is the matter of SPSession; how addresses are discovered, of    *)
(* MCD, which runs beside the calls in the same process.                   *)
(***************************************************************************)
EXTENDS Integers, Sequences, FiniteSets

CONSTANTS
    Callers,       \* calls of the neighbour that nncp-caller makes
    Conns,         \* connections nncp-daemon holds (-maxconn)
    Locks,         \* directories each session locks: Xx, -rx, -tx
    WhenTx,        \* calls with when-tx-exists
    Tossing,       \* sessions with autotoss
    Cfg,           \* configured addresses
    Receivers, Zone,   \* MCD
    MaxRms, MaxKills

Sessions == Callers \cup Conns
Dirs == {"rx", "tx"}

ASSUME LocksAreDirs == Locks \in [Sessions -> SUBSET Dirs]
ASSUME TwoPrograms == Callers \cap Conns = {}
ASSUME ReceiversAreFinite == IsFiniteSet(Receivers)
ASSUME CountsAreNat == {Cfg, MaxRms, MaxKills} \subseteq Nat

Proc(s) == IF s \in Callers THEN "caller" ELSE "daemon"

VARIABLES
    pc,        \* where the goroutine of each session is
    left,      \* addresses it has still to try
    toss,      \* its AutoToss: "off", "waiting" or "tossing"
    busy,      \* Node.Busy in nncp-caller
    removed,   \* how often each lock file was removed: names the present one
    flocks,    \* locks that are held, and on which file
    kills,
    mcdAddrs, rx, heard     \* MCD

discovery == <<mcdAddrs, rx, heard>>
vars == <<pc, left, toss, busy, removed, flocks, kills, discovery>>
env == <<removed, kills, discovery>>
Discovery == INSTANCE MCD

Flocks == [dir : Dirs, file : 0..MaxRms, by : Sessions, lost : BOOLEAN]
Of(s) == {f \in flocks : f.by = s /\ ~f.lost}
Goto(s, l) == pc' = [pc EXCEPT ![s] = l]

Init ==
    /\ pc = [s \in Sessions |-> "idle"]
    /\ left = [s \in Sessions |-> 0]
    /\ toss = [s \in Sessions |-> "off"]
    /\ busy = FALSE
    /\ removed = [d \in Dirs |-> 0]
    /\ flocks = {}
    /\ kills = 0
    /\ Discovery!Init

----------------------------------------------------------------------------
(* nncp-caller: the cron time of a call has come.  A node that is being    *)
(* called already is left alone until the call's next time.                *)
Wake(c) ==
    /\ pc[c] = "idle" /\ ~busy
    /\ busy' = TRUE
    /\ Goto(c, "woken")
    /\ UNCHANGED <<left, toss, flocks, env>>

(* when-tx-exists: there may or may not be a packet nice enough in tx/ at  *)
(* the moment.  The test that exempts receive-only calls compares with     *)
(* "TRx", while the constant TRx is "rx": they are not exempted.           *)
NoTx(c) ==
    /\ pc[c] = "woken" /\ c \in WhenTx
    /\ busy' = FALSE
    /\ Goto(c, "idle")
    /\ UNCHANGED <<left, toss, flocks, env>>

(* AutoToss is started, and the addresses of the moment are collected:     *)
(* those of MCD first.                                                     *)
Begin(c) ==
    /\ pc[c] = "woken"
    /\ left' = [left EXCEPT ![c] = Len(mcdAddrs) + Cfg]
    /\ toss' = [toss EXCEPT ![c] = IF c \in Tossing THEN "waiting" ELSE "off"]
    /\ Goto(c, "dial")
    /\ UNCHANGED <<busy, flocks, env>>

(* CallNode: an address that does not answer, or with which no session     *)
(* starts, is followed by the next one; after a session, however it ended, *)
(* no other is tried.                                                      *)
Dial(c) ==
    /\ pc[c] = "dial" /\ left[c] > 0
    /\ left' = [left EXCEPT ![c] = @ - 1]
    /\ Goto(c, "lockrx")
    /\ UNCHANGED <<toss, busy, flocks, env>>

DialFails(c) ==
    /\ pc[c] = "dial" /\ left[c] > 0
    /\ left' = [left EXCEPT ![c] = @ - 1]
    /\ UNCHANGED <<pc, toss, busy, flocks, env>>

(* Bug: when no address is left, the configured ones are tried again. *)
StartsOver(c) ==
    /\ pc[c] = "dial" /\ left[c] = 0
    /\ left' = [left EXCEPT ![c] = Cfg]
    /\ UNCHANGED <<pc, toss, busy, flocks, env>>

NoneLeft(c) ==
    /\ pc[c] = "dial" /\ left[c] = 0
    /\ Goto(c, "closing")
    /\ UNCHANGED <<left, toss, busy, flocks, env>>

(* nncp-daemon: a connection, whose first message tells which neighbour it *)
(* is; others are closed.  AutoToss runs for a neighbour even if no        *)
(* session starts.                                                         *)
Accept(d) ==
    /\ pc[d] = "idle"
    /\ Goto(d, "lockrx")
    /\ UNCHANGED <<left, toss, busy, flocks, env>>

----------------------------------------------------------------------------
(* LockDir: the file of that name is opened, or made, and locked unless    *)
(* somebody has a lock on that very file.                                  *)
AfterLock(s, d) == Goto(s, IF d = "rx" THEN "locktx" ELSE "shake")
Taken(d) == \E f \in flocks : f.dir = d /\ f.file = removed[d]

(* Bug: a lock that another holds is no obstacle. *)
LockAnyway(s, d) ==
    /\ pc[s] = (IF d = "rx" THEN "lockrx" ELSE "locktx")
    /\ flocks' = IF d \in Locks[s] /\ ~Taken(d)
                 THEN flocks \cup {[dir |-> d, file |-> removed[d], by |-> s, lost |-> FALSE]}
                 ELSE flocks
    /\ AfterLock(s, d)
    /\ UNCHANGED <<left, toss, busy, env>>

Lock(s, d) ==
    /\ pc[s] = (IF d = "rx" THEN "lockrx" ELSE "locktx")
    /\ d \in Locks[s] => ~Taken(d)
    /\ flocks' = IF d \in Locks[s]
                 THEN flocks \cup {[dir |-> d, file |-> removed[d], by |-> s, lost |-> FALSE]}
                 ELSE flocks
    /\ AfterLock(s, d)
    /\ UNCHANGED <<left, toss, busy, env>>

(* No session: the caller goes on with the next address; the daemon starts *)
(* AutoToss, which may toss before it sees finish closed, and closes the   *)
(* connection.                                                             *)
StartFailed(s) ==
    /\ Goto(s, IF s \in Conns THEN "closing" ELSE "dial")
    /\ \E t \in {"waiting", "tossing"} :
          toss' = [toss EXCEPT ![s] = IF s \in Conns \cap Tossing THEN t ELSE @]

(* StartI and StartR return at once; a lock taken before stays locked, and *)
(* nobody knows of it any more.                                            *)
LockFails(s, d) ==
    /\ pc[s] = (IF d = "rx" THEN "lockrx" ELSE "locktx")
    /\ d \in Locks[s] /\ Taken(d)
    /\ flocks' = (flocks \ Of(s)) \cup {[f EXCEPT !.lost = TRUE] : f \in Of(s)}
    /\ StartFailed(s)
    /\ UNCHANGED <<left, busy, env>>

ShakeFails(s) ==
    /\ pc[s] = "shake"
    /\ flocks' = flocks \ Of(s)
    /\ StartFailed(s)
    /\ UNCHANGED <<left, busy, env>>

Shake(s) ==
    /\ pc[s] = "shake"
    /\ Goto(s, "online")
    /\ toss' = [toss EXCEPT ![s] = IF s \in Conns \cap Tossing THEN "waiting" ELSE @]
    /\ UNCHANGED <<left, busy, flocks, env>>

(* SPState.Wait returns: every worker has ended (SPSession).               *)
Hangup(s) ==
    /\ pc[s] = "online"
    /\ flocks' = flocks \ Of(s)
    /\ left' = [left EXCEPT ![s] = 0]
    /\ Goto(s, "closing")
    /\ UNCHANGED <<toss, busy, env>>

(* The tosser beside the session.  Once finish is closed its select may    *)
(* still take the watcher's channel a few times: the same as a longer      *)
(* toss.  The caller's node is free again after it has answered.           *)
Toss(s) ==
    /\ toss[s] = "waiting" /\ pc[s] # "closing"
    /\ toss' = [toss EXCEPT ![s] = "tossing"]
    /\ UNCHANGED <<pc, left, busy, flocks, env>>

Tossed(s) ==
    /\ toss[s] = "tossing"
    /\ toss' = [toss EXCEPT ![s] = "waiting"]
    /\ UNCHANGED <<pc, left, busy, flocks, env>>

Close(s) ==
    /\ pc[s] = "closing" /\ toss[s] # "tossing"
    /\ toss' = [toss EXCEPT ![s] = "off"]
    /\ busy' = (busy /\ s \notin Callers)
    /\ Goto(s, "idle")
    /\ UNCHANGED <<left, flocks, env>>

----------------------------------------------------------------------------
(* The finaliser of a lost lock's file closes it.                          *)
Collect ==
    /\ \E f \in flocks : f.lost /\ flocks' = flocks \ {f}
    /\ UNCHANGED <<pc, left, toss, busy, env>>

(* nncp-rm -lock removes lock files, whether they are locked or not.       *)
RmLock(d) ==
    /\ removed["rx"] + removed["tx"] < MaxRms
    /\ removed' = [removed EXCEPT ![d] = @ + 1]
    /\ UNCHANGED <<pc, left, toss, busy, flocks, kills, discovery>>

(* A process ends, with all its goroutines, and its locks are free; it is  *)
(* started again.  That nncp-caller then knows no address is as if the     *)
(* neighbour's beacons had stopped for a while: MCD's part is not reset.   *)
Kill(P) ==
    /\ kills < MaxKills /\ kills' = kills + 1
    /\ pc' = [s \in Sessions |-> IF Proc(s) = P THEN "idle" ELSE pc[s]]
    /\ left' = [s \in Sessions |-> IF Proc(s) = P THEN 0 ELSE left[s]]
    /\ toss' = [s \in Sessions |-> IF Proc(s) = P THEN "off" ELSE toss[s]]
    /\ flocks' = {f \in flocks : Proc(f.by) # P}
    /\ busy' = (busy /\ P # "caller")
    /\ UNCHANGED <<removed, discovery>>

----------------------------------------------------------------------------
Calling(c) == NoTx(c) \/ Begin(c) \/ Dial(c) \/ DialFails(c) \/ NoneLeft(c)
Starting(s) == (\E d \in Dirs : Lock(s, d) \/ LockFails(s, d)) \/ Shake(s) \/ ShakeFails(s)

Next ==
    \/ \E c \in Callers : Wake(c)
    \/ \E c \in Callers : Calling(c)
    \/ \E d \in Conns : Accept(d)
    \/ \E s \in Sessions : Starting(s) \/ Hangup(s) \/ Toss(s) \/ Tossed(s) \/ Close(s)
    \/ Collect
    \/ \E d \in Dirs : RmLock(d)
    \/ \E P \in {"caller", "daemon"} : Kill(P)
    \/ Discovery!Next /\ UNCHANGED <<pc, left, toss, busy, removed, flocks, kills>>

(* Goroutines go on: dialling, the handshake and the session have          *)
(* deadlines, and a toss ends.                                             *)
Runs(s) ==
    \/ s \in Callers /\ pc[s] # "idle" /\ Calling(s)
    \/ Starting(s) \/ Hangup(s)
    \/ pc[s] = "closing" /\ (Tossed(s) \/ Close(s))
Fairness == \A s \in Sessions : WF_vars(Runs(s))

Spec == Init /\ [][Next]_vars
FairSpec == Spec /\ Fairness

----------------------------------------------------------------------------
(* Properties. *)

TypeOK ==
    /\ pc \in [Sessions -> {"idle", "woken", "dial", "lockrx", "locktx",
                            "shake", "online", "closing"}]
    /\ left \in [Sessions -> Nat]
    /\ toss \in [Sessions -> {"off", "waiting", "tossing"}]
    /\ busy \in BOOLEAN
    /\ removed \in [Dirs -> 0..MaxRms]
    /\ flocks \subseteq Flocks
    /\ kills \in 0..MaxKills

(* Whoever calls whom, at most one session works on a directory of the     *)
(* neighbour, but for one more each time somebody removed its lock file.   *)
Exclusive ==
    \A d \in Dirs :
        Cardinality({s \in Sessions : pc[s] = "online" /\ d \in Locks[s]}) <= removed[d] + 1

(* nncp-caller makes one call of a node at a time, and Busy says so.       *)
OneCall ==
    /\ Cardinality({c \in Callers : pc[c] # "idle"}) <= 1
    /\ busy <=> \E c \in Callers : pc[c] # "idle"

(* A tosser does not outlive the call it was started for.                  *)
TossedWithin == \A s \in Sessions : toss[s] # "off" => pc[s] # "idle"

TableOK == Discovery!TableOK

CallsOK == TypeOK /\ Exclusive /\ OneCall /\ TossedWithin

(* Every call comes to an end, with as many addresses as there are, locks  *)
(* in its way and a tosser still at work, and leaves the node free for the *)
(* next.                                                                   *)
CallsEnd == \A s \in Sessions : pc[s] # "idle" ~> pc[s] = "idle"
=============================================================================
