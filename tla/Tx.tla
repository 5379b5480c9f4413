--------------------------------- MODULE Tx ---------------------------------
(***************************************************************************)
(* Ctx.Tx (src/src/tx.go:50-270): a packet is encrypted once for its       *)
(* recipient, once more for an area before that, and once for each hop on  *)
(* the way, by goroutines that pass the bytes on through pipes; the last   *)
(* pipe is copied to a temporary file.  Each goroutine reports a result    *)
(* and closes its pipe after that; the caller collects the results and     *)
(* commits the file.  Two callers feed the first of them through one more  *)
(* pipe, from a goroutine of theirs: TxExec (tx.go:628-699) compresses,    *)
(* TxFile (tx.go:276-473) makes an archive of a directory.                 *)
(*                                                                         *)
(* A write to a pipe nobody reads from any more waits for ever: no reading *)
(* end is ever closed.                                                     *)
(***************************************************************************)
EXTENDS Integers, FiniteSets

CONSTANTS MaxHops    \* the recipient and the nodes of Via

VARIABLES
    hops, area,    \* arguments
    source,        \* what the first layer reads
    stage,         \* of each goroutine: "running", "reporting", "closed"
    err,           \* those that ended with an error
    lacking,       \* those that passed on less than everything
    got,           \* results the caller has taken
    ignored,       \* the error that was not looked at, if one was
    feed,          \* the goroutine before it: "going", "fed", "broken", "blocked"
    caller         \* in Tx: "starting", "collecting", "committing", "noting";
                   \* out of it: "sent", "unsent"; out of its caller: "done", "failed"

args == <<hops, area, source>>
vars == <<hops, area, source, stage, err, lacking, got, ignored, feed, caller>>

Layers == 1..(IF area THEN hops + 1 ELSE hops)
Copier == Cardinality(Layers) + 1
Goroutines == Layers \cup {Copier}
(* Those that compare with maxSize: the recipient's layer and the area's.  *)
Limited == 1..(IF area THEN 2 ELSE 1)

(* A file or the standard input is read as it is.                          *)
Sources == {"plain", "exec", "archive"}

Init ==
    /\ source \in Sources
    /\ hops \in 1..MaxHops /\ area \in BOOLEAN
    /\ stage = [g \in 1..(MaxHops + 2) |-> "off"]
    /\ err = {} /\ lacking = {} /\ got = 0 /\ ignored = FALSE
    /\ feed = "going"
    /\ caller = "starting"

Start ==
    /\ caller = "starting"
    /\ caller' = "collecting"
    /\ stage' = [g \in DOMAIN stage |-> "running"]
    /\ UNCHANGED <<args, err, lacking, got, ignored, feed>>

(* The area has no key, the packet would be too big, there is no space or  *)
(* no temporary file.                                                      *)
Refuse ==
    /\ caller = "starting"
    /\ caller' = "unsent"
    /\ UNCHANGED <<args, stage, err, lacking, got, ignored, feed>>

(* What TxExec was given has been compressed and read by the first layer.  *)
Feed ==
    /\ source = "exec" /\ feed = "going" /\ stage[1] = "running"
    /\ feed' = "fed"
    /\ UNCHANGED <<args, stage, err, lacking, got, ignored, caller>>

(* It cannot be read: the pipe is left open.                               *)
FeedFails ==
    /\ source = "exec" /\ feed = "going"
    /\ feed' = "broken"
    /\ UNCHANGED <<args, stage, err, lacking, got, ignored, caller>>

(* The directory is archived, every file with the size it had when the     *)
(* directory was walked ...                                                *)
Archive ==
    /\ source = "archive" /\ feed = "going" /\ stage[1] = "running"
    /\ feed' = "fed"
    /\ UNCHANGED <<args, stage, err, lacking, got, ignored, caller>>

(* ... or one cannot be opened or read, or has another size by now: the    *)
(* error is passed on through the pipe.                                    *)
ArchiveFails ==
    /\ source = "archive" /\ feed = "going"
    /\ feed' = "broken"
    /\ UNCHANGED <<args, stage, err, lacking, got, ignored, caller>>

(* Nobody reads from the pipe any more.                                    *)
FeedBlocks ==
    /\ source # "plain" /\ feed = "going"
    /\ err # {} \/ caller = "unsent"
    /\ feed' = "blocked"
    /\ UNCHANGED <<args, stage, err, lacking, got, ignored, caller>>

Report(g, e) ==
    /\ stage[g] = "running"
    /\ stage' = [stage EXCEPT ![g] = "reporting"]
    /\ err' = IF e THEN err \cup {g} ELSE err
    /\ UNCHANGED <<args, got, ignored, feed, caller>>

(* PktEncWrite reads to the end of its source, which for all but the first *)
(* is a pipe that was closed, and what it writes is read.                  *)
Flows(g) ==
    /\ IF g = 1 THEN source = "plain" \/ feed = "fed" ELSE stage[g - 1] = "closed"
    /\ stage[g + 1] = "running"

Encrypt(g) ==
    /\ g \in Layers /\ Flows(g)
    /\ Report(g, FALSE)
    /\ lacking' = IF g > 1 /\ g - 1 \in lacking THEN lacking \cup {g} ELSE lacking

(* The source cannot be read, or the packet grows too big.  A layer whose  *)
(* source was left open without a word waits for ever instead.             *)
EncryptFails(g) ==
    /\ g \in Limited
    /\ ~(g = 1 /\ source = "exec" /\ feed = "broken")
    /\ Report(g, TRUE)
    /\ lacking' = lacking \cup {g}

Copy ==
    /\ stage[Copier - 1] = "closed"
    /\ Report(Copier, FALSE)
    /\ lacking' = IF Copier - 1 \in lacking THEN lacking \cup {Copier} ELSE lacking

CopyFails ==
    /\ Report(Copier, TRUE)
    /\ lacking' = lacking \cup {Copier}

(* The caller takes a result.  For an area, the first is taken for that of *)
(* the area's layer, and its error is not looked at.                       *)
First == area /\ got = 0

(* Bug: no error is looked at. *)
TakeAny(g) ==
    /\ caller = "collecting" /\ stage[g] = "reporting"
    /\ stage' = [stage EXCEPT ![g] = "closed"]
    /\ got' = got + 1
    /\ caller' = IF got' = Copier THEN "committing" ELSE "collecting"
    /\ UNCHANGED <<args, err, lacking, ignored, feed>>

Take(g) ==
    /\ caller = "collecting" /\ stage[g] = "reporting"
    /\ stage' = [stage EXCEPT ![g] = "closed"]
    /\ got' = got + 1
    /\ ignored' = (ignored \/ (First /\ g \in err))
    /\ caller' = IF g \in err /\ ~First THEN "unsent"
                 ELSE IF got' = Copier THEN "committing" ELSE "collecting"
    /\ UNCHANGED <<args, err, lacking, feed>>

(* tmp.Commit: a copy that failed makes Flush fail.                        *)
Commit ==
    /\ caller = "committing"
    /\ \/ caller' = "unsent"
       \/ Copier \notin err /\ caller' = IF area THEN "noting" ELSE "sent"
    /\ UNCHANGED <<args, stage, err, lacking, got, ignored, feed>>

(* The area message is noted as seen by its author.                        *)
Note ==
    /\ caller = "noting"
    /\ caller' \in {"sent", "unsent"}
    /\ UNCHANGED <<args, stage, err, lacking, got, ignored, feed>>

(* TxExec waits for the compressor's word.                                 *)
Return ==
    /\ source = "exec"
    /\ caller \in {"sent", "unsent"} /\ feed \in {"fed", "broken"}
    /\ caller' = IF caller = "sent" /\ feed = "fed" THEN "done" ELSE "failed"
    /\ UNCHANGED <<args, stage, err, lacking, got, ignored, feed>>

(* TxFile does not wait for the archiving goroutine.                       *)
ReturnFile ==
    /\ source # "exec"
    /\ caller \in {"sent", "unsent"}
    /\ caller' = IF caller = "sent" THEN "done" ELSE "failed"
    /\ UNCHANGED <<args, stage, err, lacking, got, ignored, feed>>

Next ==
    \/ Start \/ Refuse
    \/ Feed \/ FeedFails \/ Archive \/ ArchiveFails \/ FeedBlocks
    \/ \E g \in Layers : Encrypt(g) \/ EncryptFails(g)
    \/ Copy \/ CopyFails
    \/ \E g \in Goroutines : Take(g)
    \/ Commit \/ Note \/ Return \/ ReturnFile

Spec == Init /\ [][Next]_vars

----------------------------------------------------------------------------
(* A packet that is said to be sent is all there, except for an area, when *)
(* the first result was an error.                                          *)
SentWhole == caller \in {"sent", "done"} => Copier \notin lacking \/ ignored

(* Somebody can go on without a new failure: the caller, a goroutine or    *)
(* the one before them.                                                    *)
GoesOn ==
    \/ caller \in {"starting", "committing", "noting"}
    \/ caller \in {"sent", "unsent"} /\ (source = "exec" => feed \in {"fed", "broken"})
    \/ caller = "collecting" /\ \E g \in Goroutines : stage[g] = "reporting"
    \/ \E g \in Layers : stage[g] = "running" /\ Flows(g)
    \/ stage[Copier] = "running" /\ stage[Copier - 1] = "closed"
    \/ source = "archive" /\ feed = "broken" /\ stage[1] = "running"
    \/ /\ source # "plain" /\ feed = "going"
       /\ stage[1] = "running" \/ err # {} \/ caller = "unsent"

(* The caller never waits for what nobody will report: except likewise,    *)
(* and for TxExec, when what it sends cannot be read or when Tx has failed *)
(* before all of it was read.                                              *)
NeverStuck ==
    caller \notin {"done", "failed"} =>
        \/ GoesOn
        \/ ignored
        \/ source = "exec" /\ feed = "broken" /\ stage[1] = "running"
        \/ source = "exec" /\ feed = "blocked"

TxOK == SentWhole /\ NeverStuck
=============================================================================
