----------------------------- MODULE FilesProofs -----------------------------
(***************************************************************************)
(* What MCFiles checks on small instances of Chunked, Tx, Packet and MTH.  *)
(* For files and chunks of every size, any number of uploads, runs of      *)
(* nncp-reass and faults: what is put together is one version of the file, *)
(* and nothing that has arrived is lost, with the exceptions of ChunkedOK. *)
(* For any number of hops: what Tx  *)
(* says it has sent is complete, and it never waits in vain.  For packets  *)
(* of every length, blocks of every size and any damage: what is read is   *)
(* what was written, and is as large as asked for.  For files of every     *)
(* size, in whatever pieces they come: their hash is that of the whole.    *)
(***************************************************************************)
EXTENDS Files, SequenceTheorems, FiniteSetTheorems, WellFoundedInduction, TLAPS

-----------------------------------------------------------------------------
(* The inductive invariant *)

PartFiles == [part : Nat, of : Versions]
Stages    == {"idle", "open", "copied", "written"}
Told      == Versions \cup {0}
Numbers   == Nat \ {0}
Beginnings == Seq(PartFiles)
Run == [at : Stages, v : Told, next : Numbers, tmp : Beginnings]

Typed ==
    /\ version \in Versions /\ next \in Nat \ {0} /\ sending \in BOOLEAN
    /\ sent \in [Versions -> Nat]
    /\ flight \subseteq PartFiles /\ dir \subseteq PartFiles
    /\ reass \in [Reassemblers -> Run]
    /\ arrived \subseteq Versions
    /\ broken \in BOOLEAN /\ crossed \in BOOLEAN

\* Nothing more is read of version v, so sent[v] is what its meta file says.
Over(v) == v < version \/ (v = version /\ ~sending)

Settled ==
    /\ \A f \in flight \cup dir : f.of <= version
    /\ \A f \in flight \cup dir : f.part = Meta => Over(f.of)
    /\ \A v \in arrived : Over(v)
    /\ \A v \in Versions :
          \/ sent[v] = FileSize[v]
          \/ sent[v] # 0 /\ sent[v] % ChunkSize = 0

\* A name is taken once.
Single == \A f, g \in dir : f.part = g.part => f = g

\* A run of nncp-reass has copied the beginning of one version, the size of
\* which it was told rightly, ...
Joined(r) ==
    LET run == reass[r] IN
    /\ run.v \in Versions /\ Over(run.v)
    /\ sent[run.v] = FileSize[run.v]
    /\ run.next <= Chunks(run.v) + 1
    /\ Len(run.tmp) = IF run.at = "copied" THEN run.next ELSE run.next - 1
    /\ \A k \in 1..Len(run.tmp) : run.tmp[k] = File(k, run.v)
    /\ run.at = "copied" => run.next <= Chunks(run.v) /\ r \notin Keep
    /\ run.at = "written" => run.next = Chunks(run.v) + 1
\* ... and, unless another has got in its way, the rest is still there.
RestThere(r) ==
    LET run == reass[r] IN
    /\ \A k \in run.next..Chunks(run.v) : File(k, run.v) \in dir
    /\ run.at # "written" /\ r \notin Keep => File(Meta, run.v) \in dir
Joining ==
    \A r \in Reassemblers :
        reass[r].at # "idle" => Joined(r) /\ (crossed \/ RestThere(r))

\* What has arrived is whole, or in the directory, or with one run that removes
\* what it has copied, and has: stopping that one is what breaks the promise.
Underway(r, v) ==
    LET run == reass[r] IN
    /\ r \notin Keep /\ run.at # "idle" /\ run.v = v
    /\ run.next > 1 \/ run.at # "open"
    /\ run.at = "written" \/ File(Meta, v) \in dir
    /\ \A k \in 1..Chunks(v) : File(k, v) \in dir \/ k <= Len(run.tmp)
Found(v) ==
    \/ Content(v) \in whole
    \/ \A part \in Parts(v) : File(part, v) \in dir
    \/ \E r \in Reassemblers : Underway(r, v)
Unlost == broken \/ \A v \in arrived : Found(v)

Invariant ==
    /\ Typed /\ Settled /\ Single
    /\ Undisturbed => Joining /\ OneVersion /\ Unlost

-----------------------------------------------------------------------------
(* Sizes *)

LEMMA Quotient ==
    ASSUME NEW c \in Nat \ {0}, NEW s \in Nat
    PROVE  /\ s \div c \in Nat /\ s % c \in 0..(c - 1)
           /\ s = c * (s \div c) + (s % c)
OBVIOUS

\* A product is between two neighbouring multiples only if it is the lower one.
LEMMA Between ==
    ASSUME NEW c \in Nat \ {0}, NEW p \in Int, NEW q \in Int,
           c * q <= c * p + (c - 1), c * p <= c * q + (c - 1)
    PROVE  p = q
<1>1. ASSUME NEW d \in Int, d >= 1 PROVE c * d >= c
  BY <1>1
<1>2. ~(q - p >= 1)
  <2> SUFFICES ASSUME q - p >= 1 PROVE FALSE
    OBVIOUS
  <2>1. c * (q - p) >= c
    BY <1>1
  <2>2. c * (q - p) = c * q - c * p
    OBVIOUS
  <2> QED
    BY <2>1, <2>2
<1>3. ~(p - q >= 1)
  <2> SUFFICES ASSUME p - q >= 1 PROVE FALSE
    OBVIOUS
  <2>1. c * (p - q) >= c
    BY <1>1
  <2>2. c * (p - q) = c * p - c * q
    OBVIOUS
  <2> QED
    BY <2>1, <2>2
<1> QED
  BY <1>2, <1>3

LEMMA Multiple ==
    ASSUME NEW c \in Nat \ {0}, NEW n \in Nat \ {0}
    PROVE  n * c \in Nat \ {0} /\ (n * c) % c = 0
<1>1. n * c \in Nat /\ n * c >= c
  <2>1. n * c = (n - 1) * c + c /\ (n - 1) * c \in Nat
    OBVIOUS
  <2> QED
    BY <2>1
<1> DEFINE s == n * c
<1>2. s \div c \in Nat /\ s % c \in 0..(c - 1) /\ s = c * (s \div c) + (s % c)
  BY <1>1, Quotient
<1>3. n = s \div c
  <2> DEFINE q == s \div c
  <2>1. q \in Nat /\ s % c \in 0..(c - 1) /\ c * n = c * q + (s % c)
    BY <1>2
  <2> HIDE DEF q, s
  <2> QED
    BY <2>1, Between DEF q
<1> QED
  BY <1>1, <1>2, <1>3

LEMMA ChunksType ==
    ASSUME NEW s \in Nat
    PROVE  ChunksOf(s) \in Nat \ {0}
<1>1. CASE s = 0
  BY <1>1 DEF ChunksOf
<1>2. CASE s # 0
  <2> DEFINE c == ChunkSize
             t == s + c - 1
  <2>1. c \in Nat \ {0} /\ t \in Nat /\ t >= c
    BY <1>2, ChunkedAssumption
  <2> HIDE DEF c, t
  <2>2. t \div c \in Nat /\ t % c \in 0..(c - 1) /\ t = c * (t \div c) + (t % c)
    BY <2>1, Quotient
  <2>3. t \div c # 0
    <3> SUFFICES ASSUME t \div c = 0 PROVE FALSE
      OBVIOUS
    <3> QED
      BY <2>1, <2>2
  <2>4. ChunksOf(s) = t \div c
    BY <1>2 DEF ChunksOf, t, c
  <2> QED
    BY <2>2, <2>3, <2>4
<1> QED
  BY <1>1, <1>2

\* A size that is a multiple of the chunks' has a last chunk of full length,
\* which is not what the meta file says of the last one.
LEMMA MultipleIsNotSaid ==
    ASSUME NEW s \in Nat \ {0}, s % ChunkSize = 0
    PROVE  \A size \in Nat :
              Least(ChunkSize, s - (ChunksOf(s) - 1) * ChunkSize) # size % ChunkSize
<1> DEFINE c == ChunkSize
           q == s \div c
           t == s + c - 1
<1>1. c \in Nat \ {0} /\ t \in Nat /\ s % c = 0
  BY ChunkedAssumption
<1> HIDE DEF c
<1>2. q \in Nat /\ s = c * q
  <2>1. s \div c \in Nat /\ s = c * (s \div c) + (s % c)
    BY <1>1, Quotient
  <2>2. q \in Nat /\ s = c * q + (s % c)
    BY <2>1 DEF q
  <2> HIDE DEF q
  <2> QED
    BY <1>1, <2>2
<1>3. t \div c \in Nat /\ t % c \in 0..(c - 1) /\ t = c * (t \div c) + (t % c)
  BY <1>1, Quotient
<1>4. t \div c = q
  <2> HIDE DEF q
  <2>1. t = c * q + (c - 1)
    BY <1>1, <1>2 DEF t
  <2> HIDE DEF t
  <2> QED
    BY <1>1, <1>2, <1>3, <2>1, Between
<1>5. ChunksOf(s) = q
  BY <1>4 DEF ChunksOf, c
<1>6. s - (q - 1) * c = c
  <2> HIDE DEF q
  <2>1. (q - 1) * c = c * q - c
    BY <1>1, <1>2
  <2> QED
    BY <1>1, <1>2, <2>1
<1>7. Least(c, s - (ChunksOf(s) - 1) * c) = c
  BY <1>1, <1>5, <1>6 DEF Least
<1>8. \A size \in Nat : size % c # c
  BY <1>1, Quotient
<1> QED
  BY <1>7, <1>8 DEF c

-----------------------------------------------------------------------------
(* Types *)

LEMMA Initially == Init => Invariant
<1> SUFFICES ASSUME Init PROVE Invariant
  OBVIOUS
<1>1. Idle \in Run
  BY DEF Idle, Run, Stages, Told, Numbers, Beginnings
<1>2. Typed
  <2>1. reass \in [Reassemblers -> Run]
    BY <1>1 DEF Init
  <2>2. version \in Versions /\ next \in Nat \ {0} /\ sending \in BOOLEAN
    BY ChunkedAssumption DEF Init
  <2>3. sent \in [Versions -> Nat]
    BY ChunkedAssumption DEF Init
  <2>4. /\ flight \subseteq PartFiles /\ dir \subseteq PartFiles
        /\ arrived \subseteq Versions /\ broken \in BOOLEAN /\ crossed \in BOOLEAN
    BY DEF Init
  <2> QED
    BY <2>1, <2>2, <2>3, <2>4 DEF Typed
<1>3. Settled /\ Single /\ OneVersion /\ Unlost
  BY DEF Init, Settled, Single, OneVersion, Unlost
<1>4. Joining
  BY DEF Init, Joining, Idle
<1> QED
  BY <1>2, <1>3, <1>4 DEF Invariant

LEMMA RunTyped ==
    ASSUME Typed, NEW r \in Reassemblers, NEW new \in Run,
           reass' = [reass EXCEPT ![r] = new]
    PROVE  /\ reass' \in [Reassemblers -> Run]
           /\ reass'[r] = new
           /\ \A s \in Reassemblers : s # r => reass'[s] = reass[s]
BY DEF Typed

\* Where each action of a run leaves it.
LEMMA Moves ==
    ASSUME Typed, NEW r \in Reassemblers
    PROVE  /\ \A m \in dir : [Idle EXCEPT !.at = "open", !.v = m.of] \in Run
           /\ \A f \in dir : [reass[r] EXCEPT !.tmp = Append(@, f),
                                 !.at = IF r \in Keep THEN "open" ELSE "copied",
                                 !.next = IF r \in Keep THEN @ + 1 ELSE @] \in Run
           /\ [reass[r] EXCEPT !.at = "open", !.next = @ + 1] \in Run
           /\ [reass[r] EXCEPT !.at = "written"] \in Run
           /\ Idle \in Run
<1>1. reass[r] \in Run /\ dir \subseteq PartFiles
  BY DEF Typed
<1>2. Idle \in Run
  BY DEF Idle, Run, Stages, Told, Numbers, Beginnings
<1>3. ASSUME NEW m \in dir PROVE [Idle EXCEPT !.at = "open", !.v = m.of] \in Run
  <2>1. m.of \in Told
    BY <1>1 DEF PartFiles, Told
  <2> QED
    BY <1>2, <2>1 DEF Run, Stages
<1>4. reass[r].next + 1 \in Numbers
  BY <1>1 DEF Run, Numbers
<1>5. ASSUME NEW f \in dir
      PROVE  [reass[r] EXCEPT !.tmp = Append(@, f),
                 !.at = IF r \in Keep THEN "open" ELSE "copied",
                 !.next = IF r \in Keep THEN @ + 1 ELSE @] \in Run
  <2>1. Append(reass[r].tmp, f) \in Beginnings
    BY <1>1, AppendProperties DEF Run, Beginnings
  <2> QED
    BY <1>1, <1>4, <2>1 DEF Run, Stages
<1>6. /\ [reass[r] EXCEPT !.at = "open", !.next = @ + 1] \in Run
      /\ [reass[r] EXCEPT !.at = "written"] \in Run
  BY <1>1, <1>4 DEF Run, Stages
<1> QED
  BY <1>2, <1>3, <1>5, <1>6

LEMMA TypedStep ==
    ASSUME Typed, [Next]_vars PROVE Typed'
<1>1. CASE TxChunk
  BY <1>1 DEF TxChunk, Typed, File, PartFiles
<1>2. CASE TxMeta
  <2>1. File(Meta, version) \in PartFiles
    BY DEF Typed, File, Meta, PartFiles
  <2> QED
    BY <1>2, <2>1 DEF TxMeta, Typed
<1>3. CASE TxFails
  BY <1>3 DEF TxFails, Typed
<1>4. CASE TxCut
  <2>1. (next - 1) * ChunkSize \in Nat
    BY <1>4, ChunkedAssumption DEF TxCut, Typed
  <2> QED
    BY <1>4, <2>1 DEF TxCut, Typed
<1>5. ASSUME NEW f \in flight, Deliver(f) PROVE Typed'
  BY <1>5 DEF Deliver, Typed, sender, PartFiles
<1>6. ASSUME NEW r \in Reassemblers,
             Check(r) \/ Copy(r) \/ Remove(r) \/ Missing(r)
                \/ RemoveMeta(r) \/ Rename(r) \/ Stop(r)
      PROVE  Typed'
  <2>1. PICK new \in Run : reass' = [reass EXCEPT ![r] = new]
    <3>1. CASE Check(r)
      BY <1>6, <3>1, Moves DEF Check, Step, Present
    <3>2. CASE Copy(r)
      BY <1>6, <3>2, Moves DEF Copy, Step, Present
    <3>3. CASE Remove(r)
      BY <1>6, <3>3, Moves DEF Remove, Step
    <3>4. CASE Missing(r) \/ Rename(r) \/ Stop(r)
      BY <1>6, <3>4, Moves DEF Missing, Rename, Stop, Step
    <3>5. CASE RemoveMeta(r)
      BY <1>6, <3>5, Moves DEF RemoveMeta, Step
    <3> QED
      BY <1>6, <3>1, <3>2, <3>3, <3>4, <3>5
  <2>2. reass' \in [Reassemblers -> Run]
    BY <1>6, <2>1, RunTyped
  <2>3. /\ dir' \subseteq dir
        /\ UNCHANGED <<version, next, sending, sent, flight, arrived>>
    BY <1>6 DEF Check, Copy, Remove, Missing, RemoveMeta, Rename, Stop, Step, sender
  <2>4. broken' \in BOOLEAN /\ crossed' \in BOOLEAN
    BY <1>6 DEF Check, Copy, Remove, Missing, RemoveMeta, Rename, Stop, Typed
  <2> QED
    BY <2>2, <2>3, <2>4 DEF Typed
<1>7. CASE UNCHANGED vars
  BY <1>7 DEF vars, sender, Typed
<1> QED
  BY <1>1, <1>2, <1>3, <1>4, <1>5, <1>6, <1>7 DEF Next

-----------------------------------------------------------------------------
(* Uploads *)

\* An upload that is over does not begin again, and its size stays.
LEMMA OverStays ==
    ASSUME Typed, [Next]_vars, NEW v \in Versions, Over(v)
    PROVE  Over(v)' /\ sent'[v] = sent[v]
<1> USE ChunkedAssumption DEF Over, Typed
<1>1. CASE TxFails
  BY <1>1 DEF TxFails
<1>2. CASE TxCut
  BY <1>2 DEF TxCut
<1>3. CASE TxMeta
  BY <1>3 DEF TxMeta
<1>4. CASE TxChunk
  BY <1>4 DEF TxChunk
<1>5. CASE UNCHANGED sender
  BY <1>5 DEF sender
<1> QED
  BY <1>1, <1>2, <1>3, <1>4, <1>5
  DEF Next, vars, sender, Deliver, Check, Copy, Remove, Missing, RemoveMeta, Rename,
      Stop, Step

\* Nothing is of a version that comes later.
LEMMA VersionsStep ==
    ASSUME Typed, Settled, [Next]_vars
    PROVE  /\ version' = version \/ version' = version + 1
           /\ \A f \in (flight \cup dir)' : f.of <= version'
<1>1. version' = version \/ version' = version + 1
  BY DEF Next, vars, sender, TxChunk, TxMeta, TxFails, TxCut, Deliver, Check, Copy,
         Remove, Missing, RemoveMeta, Rename, Stop, Step
<1>2. version \in Nat \ {0}
  BY ChunkedAssumption DEF Typed
<1> SUFFICES ASSUME NEW f \in (flight \cup dir)' PROVE f.of <= version'
  BY <1>1
<1>3. CASE f \in flight \cup dir
  <2>1. f.of \in Versions /\ f.of <= version
    BY <1>3 DEF Settled, Typed, PartFiles
  <2>2. f.of \in Nat
    BY <2>1, ChunkedAssumption
  <2> QED
    BY <1>1, <1>2, <2>1, <2>2
<1>4. CASE f \notin flight \cup dir
  <2>1. TxChunk \/ TxMeta
    BY <1>4
    DEF Next, vars, sender, TxFails, TxCut, Deliver, Check, Copy, Remove, Missing,
        RemoveMeta, Rename, Stop, Step
  <2>2. f.of = version /\ version' = version
    BY <1>4, <2>1 DEF TxChunk, TxMeta, File
  <2> QED
    BY <1>2, <2>2
<1> QED
  BY <1>3, <1>4

LEMMA SettledStep ==
    ASSUME Typed, Settled, [Next]_vars PROVE Settled'
<1>1. \A f \in (flight \cup dir)' : f.part = Meta => Over(f.of)'
  <2> SUFFICES ASSUME NEW f \in (flight \cup dir)', f.part = Meta PROVE Over(f.of)'
    OBVIOUS
  <2>1. CASE f \in flight \cup dir
    BY <2>1, OverStays DEF Settled, Typed, PartFiles
  <2>2. CASE f \notin flight \cup dir
    <3>1. TxChunk \/ TxMeta
      BY <2>2
      DEF Next, vars, sender, TxFails, TxCut, Deliver, Check, Copy, Remove, Missing,
          RemoveMeta, Rename, Stop, Step
    <3>2. ~TxChunk
      BY <2>2 DEF TxChunk, File, Meta
    <3>3. f.of = version /\ TxMeta
      BY <2>2, <3>1, <3>2 DEF TxMeta, File
    <3> QED
      BY <3>3 DEF TxMeta, Over
  <2> QED
    BY <2>1, <2>2
<1>2. \A v \in arrived' : Over(v)'
  <2> SUFFICES ASSUME NEW v \in arrived' PROVE Over(v)'
    OBVIOUS
  <2>1. CASE v \in arrived
    BY <2>1, OverStays DEF Settled, Typed
  <2>2. CASE v \notin arrived
    <3>1. PICK f \in flight : Deliver(f)
      BY <2>2
      DEF Next, vars, sender, TxChunk, TxMeta, TxFails, TxCut, Check, Copy, Remove,
          Missing, RemoveMeta, Rename, Stop, Step
    <3>2. v = f.of /\ \A part \in Parts(v) : File(part, v) \in dir'
      BY <2>2, <3>1 DEF Deliver
    <3>3. v \in Versions /\ Chunks(v) \in Nat
      BY <3>2, ChunksType DEF Typed, PartFiles, Chunks
    <3>4. File(Meta, v) \in dir'
      BY <3>2, <3>3 DEF Parts, Meta
    <3>5. File(Meta, v) \in flight \cup dir
      BY <3>1, <3>4 DEF Deliver
    <3>6. Over(v)
      BY <3>5 DEF Settled, File
    <3> QED
      BY <3>3, <3>6, OverStays
  <2> QED
    BY <2>1, <2>2
<1>3. ASSUME NEW v \in Versions
      PROVE  sent'[v] = FileSize[v] \/ (sent'[v] # 0 /\ sent'[v] % ChunkSize = 0)
  <2>1. CASE sent'[v] = sent[v]
    BY <2>1 DEF Settled
  <2>2. CASE sent'[v] # sent[v]
    <3>1. TxCut /\ v = version
      BY <2>2
      DEF Next, vars, sender, TxChunk, TxMeta, TxFails, TxCut, Deliver, Check, Copy,
          Remove, Missing, RemoveMeta, Rename, Stop, Step, Typed
    <3>2. next - 1 \in Nat \ {0} /\ sent'[v] = (next - 1) * ChunkSize
      BY <3>1 DEF TxCut, Typed
    <3>3. (next - 1) * ChunkSize # 0 /\ ((next - 1) * ChunkSize) % ChunkSize = 0
      BY <3>2, Multiple, ChunkedAssumption
    <3> QED
      BY <3>2, <3>3
  <2> QED
    BY <2>1, <2>2
<1> QED
  BY <1>1, <1>2, <1>3, VersionsStep DEF Settled

-----------------------------------------------------------------------------
(* Files of the directory *)

\* While the first upload is the only one, all there is is of it.
LEMMA FirstVersion ==
    ASSUME Typed, Settled, version = 1
    PROVE  /\ \A f \in flight \cup dir : f.of = 1
           /\ \A v \in Versions : Over(v) => v = 1
<1>1. \A f \in flight \cup dir : f.of \in Nat \ {0} /\ f.of <= 1
  BY ChunkedAssumption DEF Typed, PartFiles, Settled
<1> QED
  BY <1>1, ChunkedAssumption DEF Over

LEMMA PartIs ==
    ASSUME NEW f \in PartFiles
    PROVE  f = File(f.part, f.of)
BY DEF PartFiles, File

LEMMA FileHas == \A part, v : File(part, v).part = part /\ File(part, v).of = v
BY DEF File

\* Who changes the directory.
LEMMA DirSteps ==
    ASSUME [Next]_vars
    PROVE  \/ UNCHANGED dir
           \/ \E f \in flight : Deliver(f)
           \/ \E r \in Reassemblers : Remove(r) \/ (RemoveMeta(r) /\ r \notin Keep)
BY DEF Next, vars, sender, TxChunk, TxMeta, TxFails, TxCut, Check, Copy, Missing,
       RemoveMeta, Rename, Stop, Step

LEMMA SingleStep == ASSUME Single, [Next]_vars PROVE Single'
<1>1. CASE \E f \in flight : Deliver(f)
  BY <1>1 DEF Deliver, Single, Present
<1>2. CASE dir' \subseteq dir
  BY <1>2 DEF Single
<1> QED
  BY <1>1, <1>2, DirSteps DEF Remove, RemoveMeta

-----------------------------------------------------------------------------
(* Runs of nncp-reass *)

LEMMA RunSteps ==
    ASSUME Typed, [Next]_vars, NEW r \in Reassemblers, reass'[r] # reass[r]
    PROVE  Check(r) \/ Copy(r) \/ Remove(r) \/ Missing(r) \/ RemoveMeta(r)
              \/ Rename(r) \/ Stop(r)
<1>1. PICK s \in Reassemblers :
          Check(s) \/ Copy(s) \/ Remove(s) \/ Missing(s) \/ RemoveMeta(s)
             \/ Rename(s) \/ Stop(s)
  BY DEF Next, vars, TxChunk, TxMeta, TxFails, TxCut, Deliver
<1>2. \E new : reass' = [reass EXCEPT ![s] = new]
  BY <1>1 DEF Check, Copy, Remove, Missing, RemoveMeta, Rename, Stop, Step
<1>3. s = r
  BY <1>2 DEF Typed
<1> QED
  BY <1>1, <1>3

LEMMA JoinedStays ==
    ASSUME Typed, [Next]_vars, NEW r \in Reassemblers,
           Joined(r), reass'[r] = reass[r]
    PROVE  Joined(r)'
<1>1. reass[r].v \in Versions /\ Over(reass[r].v)
  BY DEF Joined
<1>2. Over(reass[r].v)' /\ sent'[reass[r].v] = sent[reass[r].v]
  BY <1>1, OverStays
<1>3. Chunks(reass[r].v)' = Chunks(reass[r].v)
  BY <1>2 DEF Chunks
<1> QED
  BY <1>1, <1>2, <1>3 DEF Joined, Chunks, Over

\* Of what is there, each name once, a run whose rest is there removes its own.
LEMMA OwnChunk ==
    ASSUME Typed, Single, Joining, ~crossed, NEW s \in Reassemblers, Remove(s)
    PROVE  /\ reass[s].v \in Versions /\ s \notin Keep
           /\ Present(reass[s].next) = {File(reass[s].next, reass[s].v)}
           /\ File(Meta, reass[s].v) \in dir
<1>1. reass[s].at = "copied" /\ Joined(s) /\ RestThere(s)
  BY DEF Remove, Joining
<1>2. /\ reass[s].next \in Nat \ {0} /\ reass[s].v \in Versions
      /\ Chunks(reass[s].v) \in Nat /\ reass[s].next <= Chunks(reass[s].v)
      /\ s \notin Keep
  BY <1>1, ChunksType DEF Joined, Typed, Run, Numbers, Chunks
<1>3. File(reass[s].next, reass[s].v) \in dir
  BY <1>1, <1>2 DEF RestThere
<1>4. Present(reass[s].next) = {File(reass[s].next, reass[s].v)}
  BY <1>3, FileHas DEF Single, Present
<1>5. File(Meta, reass[s].v) \in dir
  BY <1>1, <1>2 DEF RestThere
<1> QED
  BY <1>2, <1>4, <1>5

LEMMA OwnMeta ==
    ASSUME Typed, Single, Joining, ~crossed, NEW s \in Reassemblers,
           RemoveMeta(s), s \notin Keep
    PROVE  /\ reass[s].v \in Versions
           /\ Present(Meta) = {File(Meta, reass[s].v)}
<1>1. reass[s].at = "open" /\ Joined(s) /\ RestThere(s)
  BY DEF RemoveMeta, Joining
<1>2. File(Meta, reass[s].v) \in dir
  BY <1>1 DEF RestThere
<1>3. Present(Meta) = {File(Meta, reass[s].v)}
  BY <1>2, FileHas DEF Single, Present
<1> QED
  BY <1>1, <1>3 DEF Joined

\* What another removes is of another version, or it is in this one's way.
LEMMA RestStays ==
    ASSUME Typed, Single, Joining, [Next]_vars, ~crossed',
           NEW r \in Reassemblers, reass[r].at # "idle", reass'[r] = reass[r],
           RestThere(r)
    PROVE  RestThere(r)'
<1> DEFINE v == reass[r].v
<1>1. v \in Versions /\ Over(v) /\ ~crossed /\ reass[r].next \in Nat \ {0}
  BY DEF Joined, Joining, Typed, Run, Numbers, Next, vars, sender, TxChunk, TxMeta, TxFails,
         TxCut, Deliver, Check, Copy, Remove, Missing, RemoveMeta, Rename, Stop, Step
<1>2. Chunks(v)' = Chunks(v) /\ Chunks(v) \in Nat
  BY <1>1, OverStays, ChunksType DEF Chunks, Typed
<1>3. CASE dir \subseteq dir'
  BY <1>2, <1>3 DEF RestThere, File, Meta
<1>4. ASSUME NEW s \in Reassemblers, Remove(s) PROVE RestThere(r)'
  <2>1. s # r
    BY <1>4 DEF Remove, Step, Typed, Run
  <2>2. /\ dir' = dir \ {File(reass[s].next, reass[s].v)}
        /\ reass[s].next \in Nat \ {0}
    BY <1>1, <1>4, OwnChunk DEF Remove, Typed, Run, Numbers
  <2>3. StillToDo(s, reass[s].next) = {}
    BY <1>4 DEF Remove
  <2>4. v = reass[s].v => reass[r].next > reass[s].next
    BY <1>1, <2>1, <2>2, <2>3 DEF StillToDo, Others
  <2>5. \A k \in reass[r].next..Chunks(v) :
            File(k, v) \in dir => File(k, v) \in dir'
    BY <1>1, <1>2, <2>2, <2>4, FileHas
  <2>6. File(Meta, v) \in dir => File(Meta, v) \in dir'
    BY <2>2, FileHas DEF Meta
  <2> QED
    BY <1>2, <2>5, <2>6 DEF RestThere, File, Meta
<1>5. ASSUME NEW s \in Reassemblers, RemoveMeta(s), s \notin Keep PROVE RestThere(r)'
  <2>1. s # r
    BY <1>5 DEF RemoveMeta, Step, Typed, Run
  <2>2. dir' = dir \ {File(Meta, reass[s].v)}
    BY <1>1, <1>5, OwnMeta DEF RemoveMeta
  <2>3. StillToEnd(s) = {}
    BY <1>5 DEF RemoveMeta
  <2>4. v = reass[s].v => r \in Keep \/ reass[r].at = "written"
    BY <2>1, <2>3 DEF StillToEnd, Others
  <2>5. \A k \in reass[r].next..Chunks(v) :
            File(k, v) \in dir => File(k, v) \in dir'
    BY <1>1, <1>2, <2>2, FileHas DEF Meta
  <2>6. v # reass[s].v /\ File(Meta, v) \in dir => File(Meta, v) \in dir'
    BY <2>2, FileHas
  <2> QED
    BY <1>2, <2>4, <2>5, <2>6 DEF RestThere, File, Meta
<1> QED
  BY <1>3, <1>4, <1>5, DirSteps DEF Deliver

\* nncp-reass begins with a version of which all is there and whose meta file
\* tells its size.
LEMMA CheckJoins ==
    ASSUME Typed, Settled, Single, NEW r \in Reassemblers, Check(r)
    PROVE  Joined(r)' /\ RestThere(r)'
<1>1. PICK m \in Present(Meta) :
          /\ SizesGood(m.of) /\ ChecksumsGood(m.of)
          /\ Step(r, [Idle EXCEPT !.at = "open", !.v = m.of])
  BY DEF Check
<1> DEFINE v == m.of
<1>2. m \in dir /\ m \in PartFiles /\ m.part = Meta /\ v \in Versions
  BY <1>1 DEF Present, Typed, PartFiles
<1>3. Over(v) /\ File(Meta, v) \in dir
  BY <1>2, PartIs DEF Settled
<1>4. sent[v] \in Nat /\ Chunks(v) \in Nat \ {0}
  BY <1>2, ChunksType DEF Typed, Chunks
<1>5. sent[v] = FileSize[v]
  <2> SUFFICES ASSUME sent[v] # FileSize[v] PROVE FALSE
    OBVIOUS
  <2> DEFINE last == Chunks(v)
  <2>1. sent[v] # 0 /\ sent[v] % ChunkSize = 0
    BY <1>2 DEF Settled
  <2>2. last \in 1..last
    BY <1>4
  <2>3. File(last, v) \in dir
    BY <1>1, <2>2 DEF ChecksumsGood
  <2>4. PICK f \in Present(last) : ChunkLen(f.of, last) = SaidLen(v, last)
    BY <1>1, <2>2 DEF SizesGood
  <2>5. f = File(last, v)
    BY <2>3, <2>4, FileHas DEF Present, Single
  <2>6. ChunkLen(v, last) = sent[v] % ChunkSize
    BY <2>4, <2>5, FileHas DEF SaidLen
  <2>7. Least(ChunkSize, sent[v] - (ChunksOf(sent[v]) - 1) * ChunkSize)
           # sent[v] % ChunkSize
    BY <1>4, <2>1, MultipleIsNotSaid
  <2> QED
    BY <2>6, <2>7 DEF ChunkLen, Chunks
<1>6. reass'[r] = [at |-> "open", v |-> v, next |-> 1, tmp |-> <<>>]
  BY <1>1 DEF Step, Idle, Typed
<1>7. UNCHANGED <<dir, sent, version, sending>>
  BY DEF Check, Step, sender
<1>8. Joined(r)'
  BY <1>2, <1>3, <1>4, <1>5, <1>6, <1>7 DEF Joined, Over, Chunks
<1>9. RestThere(r)'
  BY <1>1, <1>3, <1>6, <1>7 DEF RestThere, Chunks, ChecksumsGood
<1> QED
  BY <1>8, <1>9

\* The chunk that is copied is the version's.
LEMMA CopyJoins ==
    ASSUME Typed, Settled, Single, Joining, Undisturbed, NEW r \in Reassemblers, Copy(r)
    PROVE  Joined(r)' /\ (crossed' \/ RestThere(r)')
<1> DEFINE run == reass[r]
<1>1. /\ run \in Run /\ run.at = "open" /\ run.next <= Chunks(run.v)
      /\ Joined(r) /\ (crossed \/ RestThere(r))
  BY DEF Copy, Joining, Typed
<1>2. PICK f \in Present(run.next) :
          Step(r, [run EXCEPT !.tmp = Append(@, f),
                              !.at = IF r \in Keep THEN "open" ELSE "copied",
                              !.next = IF r \in Keep THEN @ + 1 ELSE @])
  BY DEF Copy
<1>3. f \in dir /\ f \in PartFiles /\ f.part = run.next
  BY <1>2 DEF Present, Typed
<1>4. run.v \in Versions /\ Chunks(run.v) \in Nat \ {0}
  BY <1>1, ChunksType DEF Joined, Chunks, Typed
<1>5. run.next \in Nat \ {0} /\ run.tmp \in Seq(PartFiles)
  BY <1>1 DEF Run, Numbers, Beginnings
<1>6. f = File(run.next, run.v)
  <2>1. CASE version = 1
    <3>1. f.of = run.v
      BY <1>1, <1>3, <1>4, <2>1, FirstVersion DEF Joined
    <3> QED
      BY <1>3, <3>1, PartIs
  <2>2. CASE RestThere(r)
    <3>1. File(run.next, run.v) \in dir
      BY <1>1, <1>4, <1>5, <2>2 DEF RestThere
    <3> QED
      BY <1>3, <3>1, FileHas DEF Single
  <2> QED
    BY <1>1, <2>1, <2>2 DEF Undisturbed
<1>7. /\ reass'[r].v = run.v
      /\ reass'[r].tmp = Append(run.tmp, f)
      /\ reass'[r].at = IF r \in Keep THEN "open" ELSE "copied"
      /\ reass'[r].next = IF r \in Keep THEN run.next + 1 ELSE run.next
  BY <1>1, <1>2 DEF Step, Typed, Run
<1>8. UNCHANGED <<dir, sent, version, sending, crossed>>
  BY DEF Copy, Step, sender
<1>9. Len(run.tmp) = run.next - 1 /\ \A k \in 1..Len(run.tmp) : run.tmp[k] = File(k, run.v)
  BY <1>1 DEF Joined
<1>10. /\ Len(Append(run.tmp, f)) = run.next
       /\ \A k \in 1..run.next : Append(run.tmp, f)[k] = File(k, run.v)
  BY <1>3, <1>5, <1>6, <1>9, AppendProperties
<1>11. Joined(r)'
  BY <1>1, <1>4, <1>5, <1>7, <1>8, <1>10 DEF Joined, Over, Chunks
<1>12. crossed' \/ RestThere(r)'
  BY <1>1, <1>4, <1>5, <1>7, <1>8 DEF RestThere, Chunks
<1> QED
  BY <1>11, <1>12

LEMMA RemoveJoins ==
    ASSUME Typed, Joining, NEW r \in Reassemblers, Remove(r)
    PROVE  Joined(r)' /\ (crossed' \/ RestThere(r)')
<1> DEFINE run == reass[r]
<1>1. /\ run \in Run /\ run.at = "copied" /\ r \notin Keep
      /\ Joined(r) /\ (crossed' \/ RestThere(r))
  BY DEF Remove, Joining, Joined, Typed
<1>2. /\ reass'[r].v = run.v /\ reass'[r].tmp = run.tmp
      /\ reass'[r].at = "open" /\ reass'[r].next = run.next + 1
  BY <1>1 DEF Remove, Step, Typed, Run
<1>3. dir' = dir \ Present(run.next) /\ UNCHANGED <<sent, version, sending>>
  BY DEF Remove, Step, sender
<1>4. run.next \in Nat \ {0} /\ run.v \in Versions /\ Chunks(run.v) \in Nat \ {0}
  BY <1>1, ChunksType DEF Run, Numbers, Joined, Chunks, Typed
<1>5. Joined(r)'
  BY <1>1, <1>2, <1>3, <1>4 DEF Joined, Over, Chunks
<1>6. ASSUME RestThere(r) PROVE RestThere(r)'
  <2>1. \A k \in (run.next + 1)..Chunks(run.v) : File(k, run.v) \in dir'
    BY <1>3, <1>4, <1>6, FileHas DEF RestThere, Present
  <2>2. File(Meta, run.v) \in dir'
    BY <1>1, <1>3, <1>4, <1>6, FileHas DEF RestThere, Present, Meta
  <2> QED
    BY <1>2, <1>3, <2>1, <2>2 DEF RestThere, Chunks
<1> QED
  BY <1>1, <1>5, <1>6

LEMMA RemoveMetaJoins ==
    ASSUME Typed, Joining, NEW r \in Reassemblers, RemoveMeta(r)
    PROVE  Joined(r)' /\ RestThere(r)'
<1> DEFINE run == reass[r]
<1>1. /\ run \in Run /\ run.at = "open" /\ run.next > Chunks(run.v)
      /\ Joined(r)
  BY DEF RemoveMeta, Joining, Typed
<1>2. /\ reass'[r].v = run.v /\ reass'[r].tmp = run.tmp
      /\ reass'[r].at = "written" /\ reass'[r].next = run.next
  BY <1>1 DEF RemoveMeta, Step, Typed, Run
<1>3. UNCHANGED <<sent, version, sending>>
  BY DEF RemoveMeta, Step, sender
<1>4. run.next \in Nat \ {0} /\ run.v \in Versions /\ Chunks(run.v) \in Nat \ {0}
  BY <1>1, ChunksType DEF Run, Numbers, Joined, Chunks, Typed
<1>5. Joined(r)'
  BY <1>1, <1>2, <1>3, <1>4 DEF Joined, Over, Chunks
<1>6. RestThere(r)'
  BY <1>1, <1>2, <1>3, <1>4 DEF RestThere, Chunks
<1> QED
  BY <1>5, <1>6

\* Once disturbed, always.
LEMMA UndisturbedBefore ==
    ASSUME Typed, [Next]_vars, Undisturbed'
    PROVE  Undisturbed /\ (~crossed' => ~crossed)
<1>1. crossed => crossed'
  BY DEF Typed, Next, vars, sender, TxChunk, TxMeta, TxFails, TxCut, Deliver, Check, Copy,
         Remove, Missing, RemoveMeta, Rename, Stop, Step
<1>2. version' = version \/ version' = version + 1
  BY DEF Next, vars, sender, TxChunk, TxMeta, TxFails, TxCut, Deliver, Check, Copy,
         Remove, Missing, RemoveMeta, Rename, Stop, Step
<1> QED
  BY <1>1, <1>2, ChunkedAssumption DEF Undisturbed, Typed

LEMMA JoiningStep ==
    ASSUME Typed, Settled, Single, Joining, Undisturbed', [Next]_vars
    PROVE  Joining'
<1> SUFFICES ASSUME NEW r \in Reassemblers, reass'[r].at # "idle"
             PROVE  Joined(r)' /\ (crossed' \/ RestThere(r)')
  BY DEF Joining
<1>1. Undisturbed /\ (~crossed' => ~crossed)
  BY UndisturbedBefore
<1>2. CASE reass'[r] = reass[r]
  BY <1>1, <1>2, JoinedStays, RestStays DEF Joining
<1>3. CASE reass'[r] # reass[r]
  <2>1. Check(r) \/ Copy(r) \/ Remove(r) \/ Missing(r) \/ RemoveMeta(r)
           \/ Rename(r) \/ Stop(r)
    BY <1>3, RunSteps
  <2>2. ~(Missing(r) \/ Rename(r) \/ Stop(r))
    BY DEF Missing, Rename, Stop, Step, Idle, Typed
  <2> QED
    BY <1>1, <2>1, <2>2, CheckJoins, CopyJoins, RemoveJoins, RemoveMetaJoins
<1> QED
  BY <1>2, <1>3

-----------------------------------------------------------------------------
(* What is put together *)

LEMMA WrittenIsAll ==
    ASSUME Typed, NEW r \in Reassemblers, Joined(r),
           reass[r].at = "written"
    PROVE  reass[r].v \in Versions /\ reass[r].tmp = Content(reass[r].v)
<1> DEFINE run == reass[r]
<1>1. /\ run.v \in Versions /\ sent[run.v] = FileSize[run.v]
      /\ run.next = Chunks(run.v) + 1 /\ Len(run.tmp) = run.next - 1
      /\ \A k \in 1..Len(run.tmp) : run.tmp[k] = File(k, run.v)
  BY DEF Joined
<1>2. run.tmp \in Seq(PartFiles)
  BY DEF Typed, Run, Beginnings
<1>3. Chunks(run.v) \in Nat \ {0} /\ Chunks(run.v) = ChunksOf(FileSize[run.v])
  BY <1>1, ChunksType DEF Chunks, Typed
<1>4. Len(run.tmp) = ChunksOf(FileSize[run.v])
  BY <1>1, <1>3
<1>5. run.tmp = [k \in 1..Len(run.tmp) |-> run.tmp[k]]
  BY <1>2, LenProperties
<1> QED
  BY <1>1, <1>4, <1>5 DEF Content

LEMMA OneVersionStep ==
    ASSUME Typed, Joining, OneVersion, [Next]_vars
    PROVE  OneVersion'
<1>1. CASE UNCHANGED whole
  BY <1>1 DEF OneVersion, Content, File
<1>2. ASSUME NEW r \in Reassemblers, Rename(r) PROVE OneVersion'
  <2>1. reass[r].at = "written" /\ Joined(r) /\ whole' = whole \cup {reass[r].tmp}
    BY <1>2 DEF Rename, Joining
  <2>2. reass[r].v \in Versions /\ reass[r].tmp = Content(reass[r].v)
    BY <2>1, WrittenIsAll
  <2> QED
    BY <2>1, <2>2 DEF OneVersion, Content, File
<1> QED
  BY <1>1, <1>2
  DEF Next, vars, sender, TxChunk, TxMeta, TxFails, TxCut, Deliver, Check, Copy,
      Remove, Missing, RemoveMeta, Stop, Step

-----------------------------------------------------------------------------
(* What has arrived *)

\* Whoever removes a chunk has copied it and all before it.
LEMMA RemoverHolds ==
    ASSUME Typed, Joining, NEW s \in Reassemblers, Remove(s),
           NEW v \in Versions, reass[s].v = v, File(Meta, v) \in dir,
           \A k \in 1..Chunks(v) : File(k, v) \in dir \/ k <= reass[s].next
    PROVE  Underway(s, v)'
<1> DEFINE run == reass[s]
<1>1. /\ run \in Run /\ run.at = "copied" /\ s \notin Keep /\ Len(run.tmp) = run.next
      /\ run.next \in Nat \ {0}
  BY DEF Remove, Joining, Joined, Typed, Run, Numbers
<1>2. /\ reass'[s].v = v /\ reass'[s].tmp = run.tmp
      /\ reass'[s].at = "open" /\ reass'[s].next = run.next + 1
  BY <1>1 DEF Remove, Step, Typed, Run
<1>3. dir' = dir \ Present(run.next) /\ sent' = sent
  BY DEF Remove, Step, sender
<1>4. File(Meta, v) \in dir'
  BY <1>1, <1>3, FileHas DEF Present, Meta
<1>5. \A k \in 1..Chunks(v) : File(k, v) \in dir' \/ k <= Len(run.tmp)
  <2> SUFFICES ASSUME NEW k \in 1..Chunks(v), ~(k <= run.next) PROVE File(k, v) \in dir'
    BY <1>1
  <2>1. File(k, v) \in dir /\ File(k, v).part # run.next
    BY <1>1, FileHas
  <2> QED
    BY <1>3, <2>1 DEF Present
<1> QED
  BY <1>1, <1>2, <1>3, <1>4, <1>5 DEF Underway, Chunks

LEMMA MetaRemoverHolds ==
    ASSUME Typed, Joining, NEW s \in Reassemblers,
           RemoveMeta(s), s \notin Keep, NEW v \in Versions, reass[s].v = v
    PROVE  Underway(s, v)'
<1> DEFINE run == reass[s]
<1>1. /\ run \in Run /\ run.at = "open" /\ run.next > Chunks(v)
      /\ Len(run.tmp) = run.next - 1 /\ run.next \in Nat
  BY DEF RemoveMeta, Joining, Joined, Typed, Run, Numbers
<1>2. reass'[s].v = v /\ reass'[s].tmp = run.tmp /\ reass'[s].at = "written"
  BY <1>1 DEF RemoveMeta, Step, Typed, Run
<1>3. sent' = sent /\ Chunks(v) \in Nat
  BY ChunksType DEF RemoveMeta, Step, sender, Chunks, Typed
<1> QED
  BY <1>1, <1>2, <1>3 DEF Underway, Chunks

\* A run that removes has a version's meta file beside it only if it is its own.
LEMMA RemoversVersion ==
    ASSUME Typed, Settled, Single, Joining, Undisturbed, NEW v \in Versions, Over(v),
           File(Meta, v) \in dir, NEW s \in Reassemblers \ Keep,
           reass[s].at \in {"open", "copied"}
    PROVE  reass[s].v = v
<1>1. Joined(s) /\ (crossed \/ RestThere(s))
  BY DEF Joining
<1>2. CASE version = 1
  BY <1>1, <1>2, FirstVersion DEF Joined
<1>3. CASE RestThere(s)
  <2>1. File(Meta, reass[s].v) \in dir
    BY <1>3 DEF RestThere
  <2> QED
    BY <2>1, FileHas DEF Single
<1> QED
  BY <1>1, <1>2, <1>3 DEF Undisturbed

LEMMA InDirStays ==
    ASSUME Typed, Settled, Single, Joining, Undisturbed, [Next]_vars,
           NEW v \in Versions, Over(v),
           \A part \in Parts(v) : File(part, v) \in dir
    PROVE  Found(v)'
<1>1. Chunks(v)' = Chunks(v) /\ Chunks(v) \in Nat \ {0}
  BY OverStays, ChunksType DEF Chunks, Typed
<1>2. File(Meta, v) \in dir /\ \A k \in 1..Chunks(v) : File(k, v) \in dir
  BY <1>1 DEF Parts, Meta
<1>3. CASE dir \subseteq dir'
  BY <1>1, <1>3 DEF Found, Parts, File, Meta
<1>4. ASSUME NEW s \in Reassemblers, Remove(s) PROVE Found(v)'
  <2>1. reass[s].at = "copied" /\ s \notin Keep
    BY <1>4 DEF Remove, Joining, Joined
  <2>2. reass[s].v = v
    BY <1>2, <2>1, RemoversVersion
  <2> QED
    BY <1>2, <1>4, <2>2, RemoverHolds DEF Found
<1>5. ASSUME NEW s \in Reassemblers, RemoveMeta(s), s \notin Keep PROVE Found(v)'
  <2>1. reass[s].v = v
    BY <1>2, <1>5, RemoversVersion DEF RemoveMeta
  <2> QED
    BY <1>5, <2>1, MetaRemoverHolds DEF Found
<1> QED
  BY <1>3, <1>4, <1>5, DirSteps DEF Deliver

\* A run goes on with what it holds, until it has put all of it together.
LEMMA UnderwayMoves ==
    ASSUME Typed, Joining, [Next]_vars, NEW v \in Versions, Over(v),
           ~broken', NEW r \in Reassemblers, Underway(r, v), reass'[r] # reass[r]
    PROVE  Found(v)'
<1> DEFINE run == reass[r]
<1>1. /\ run \in Run /\ run.next \in Nat \ {0} /\ run.tmp \in Seq(PartFiles)
      /\ r \notin Keep /\ run.at # "idle" /\ run.v = v /\ Joined(r)
      /\ \A k \in 1..Chunks(v) : File(k, v) \in dir \/ k <= Len(run.tmp)
  BY DEF Underway, Joining, Typed, Run, Numbers, Beginnings
<1>2. Chunks(v)' = Chunks(v) /\ Chunks(v) \in Nat \ {0}
  BY OverStays, ChunksType DEF Chunks, Typed
<1>3. ~Check(r) /\ ~Stop(r)
  BY <1>1 DEF Check, Stop, Underway
<1>4. CASE Copy(r)
  <2>1. PICK f \in dir :
            Step(r, [run EXCEPT !.tmp = Append(@, f),
                                !.at = IF r \in Keep THEN "open" ELSE "copied",
                                !.next = IF r \in Keep THEN @ + 1 ELSE @])
    BY <1>4 DEF Copy, Present
  <2>2. /\ reass'[r].v = v /\ reass'[r].at = "copied"
        /\ reass'[r].tmp = Append(run.tmp, f) /\ dir' = dir
    BY <1>1, <1>4, <2>1 DEF Copy, Step, Typed, Run
  <2>3. Len(Append(run.tmp, f)) = Len(run.tmp) + 1 /\ Len(run.tmp) \in Nat
    BY <1>1, <2>1, AppendProperties, LenProperties DEF Typed
  <2>4. File(Meta, v) \in dir
    BY <1>4 DEF Copy, Underway
  <2>5. Underway(r, v)'
    BY <1>1, <1>2, <2>2, <2>3, <2>4 DEF Underway, File, Meta
  <2> QED
    BY <2>5 DEF Found
<1>5. CASE Remove(r)
  <2>1. File(Meta, v) \in dir /\ Len(run.tmp) = run.next
    BY <1>1, <1>5 DEF Remove, Underway, Joined
  <2> QED
    BY <1>1, <1>5, <2>1, RemoverHolds DEF Found
<1>6. CASE Missing(r)
  <2>1. run.next \in 1..Chunks(v) /\ Len(run.tmp) = run.next - 1 /\ Present(run.next) = {}
    BY <1>1, <1>2, <1>6 DEF Missing, Joined
  <2>2. File(run.next, v) \in dir
    BY <1>1, <2>1
  <2> QED
    BY <2>1, <2>2, FileHas DEF Present
<1>7. CASE RemoveMeta(r)
  BY <1>1, <1>7, MetaRemoverHolds DEF Found
<1>8. CASE Rename(r)
  <2>1. run.at = "written" /\ run.tmp \in whole'
    BY <1>8 DEF Rename
  <2>2. run.tmp = Content(v)
    BY <1>1, <2>1, WrittenIsAll
  <2> QED
    BY <2>1, <2>2 DEF Found, Content, File
<1> QED
  BY <1>3, <1>4, <1>5, <1>6, <1>7, <1>8, RunSteps

\* While it stands still, another may remove a chunk it has yet to copy; then
\* that one has got further.
LEMMA UnderwayStays ==
    ASSUME Typed, Settled, Single, Joining, Undisturbed, [Next]_vars,
           NEW v \in Versions, Over(v),
           NEW r \in Reassemblers, Underway(r, v), reass'[r] = reass[r]
    PROVE  Found(v)'
<1> DEFINE run == reass[r]
<1>1. /\ r \notin Keep /\ run.at # "idle" /\ run.v = v /\ Joined(r)
      /\ run.at = "written" \/ File(Meta, v) \in dir
      /\ \A k \in 1..Chunks(v) : File(k, v) \in dir \/ k <= Len(run.tmp)
  BY DEF Underway, Joining
<1>2. Chunks(v)' = Chunks(v) /\ Chunks(v) \in Nat \ {0}
  BY OverStays, ChunksType DEF Chunks, Typed
<1> DEFINE Spared(part) ==
        File(part, v) \in dir => \/ File(part, v) \in dir'
                                 \/ part = Meta /\ run.at = "written"
                                 \/ part # Meta /\ part <= Len(run.tmp)
<1>3. ASSUME \A part \in Parts(v) : Spared(part) PROVE Found(v)'
  <2>1. run.at = "written" \/ File(Meta, v) \in dir'
    BY <1>1, <1>2, <1>3 DEF Parts, Meta
  <2>2. \A k \in 1..Chunks(v) : File(k, v) \in dir' \/ k <= Len(run.tmp)
    BY <1>1, <1>2, <1>3 DEF Parts, Meta
  <2>3. Underway(r, v)'
    BY <1>1, <1>2, <2>1, <2>2 DEF Underway, File, Meta
  <2> QED
    BY <2>3 DEF Found
<1>4. ASSUME NEW s \in Reassemblers, Remove(s) \/ (RemoveMeta(s) /\ s \notin Keep),
             run.at # "written"
      PROVE  reass[s].v = v
  <2>1. reass[s].at \in {"open", "copied"} /\ s \notin Keep
    BY <1>4 DEF Remove, RemoveMeta, Joining, Joined
  <2> QED
    BY <1>1, <1>4, <2>1, RemoversVersion
<1>5. CASE run.at = "written"
  <2>1. Len(run.tmp) = Chunks(v)
    BY <1>1, <1>2, <1>5 DEF Joined
  <2>2. \A part \in Parts(v) : Spared(part)
    BY <1>2, <1>5, <2>1 DEF Parts, Meta
  <2> QED
    BY <1>3, <2>2
<1>6. ASSUME NEW s \in Reassemblers, Remove(s), run.at # "written" PROVE Found(v)'
  <2>1. reass[s].v = v
    BY <1>4, <1>6
  <2>2. reass[s].next \in Nat \ {0} /\ dir' = dir \ Present(reass[s].next)
    BY <1>6 DEF Remove, Typed, Run, Numbers
  <2>3. Len(run.tmp) \in Nat
    BY LenProperties DEF Typed, Run, Beginnings
  <2>4. CASE reass[s].next <= Len(run.tmp)
    <3>1. ASSUME NEW part \in Parts(v) PROVE Spared(part)
      <4>1. CASE part = reass[s].next
        BY <2>2, <2>4, <4>1 DEF Meta
      <4>2. CASE part # reass[s].next
        BY <2>2, <4>2, FileHas DEF Present
      <4> QED
        BY <4>1, <4>2
    <3> QED
      BY <1>3, <3>1
  <2>5. CASE ~(reass[s].next <= Len(run.tmp))
    <3>1. reass[s].next <= Chunks(v)
      BY <1>6, <2>1 DEF Joining, Joined, Remove
    <3>3. \A k \in 1..Chunks(v) : File(k, v) \in dir \/ k <= reass[s].next
      BY <1>1, <1>2, <2>2, <2>3, <2>5
    <3> QED
      BY <1>1, <1>6, <2>1, <3>3, RemoverHolds DEF Found
  <2> QED
    BY <2>4, <2>5
<1>7. ASSUME NEW s \in Reassemblers, RemoveMeta(s), s \notin Keep, run.at # "written"
      PROVE  Found(v)'
  BY <1>4, <1>7, MetaRemoverHolds DEF Found
<1>8. CASE dir \subseteq dir'
  <2>1. \A part \in Parts(v) : Spared(part)
    BY <1>8
  <2> QED
    BY <1>3, <2>1
<1> QED
  BY <1>5, <1>6, <1>7, <1>8, DirSteps DEF Deliver

LEMMA UnlostStep ==
    ASSUME Typed, Settled, Single, Joining, Undisturbed, Unlost, [Next]_vars
    PROVE  Unlost'
<1> SUFFICES ASSUME ~broken', NEW v \in arrived' PROVE Found(v)'
  BY DEF Unlost
<1>1. ~broken
  BY DEF Next, vars, TxChunk, TxMeta, TxFails, TxCut, Deliver, Check, Copy,
         Remove, Missing, RemoveMeta, Rename, Stop, Step, Typed
<1>2. CASE v \in arrived
  <2>1. v \in Versions /\ Over(v) /\ Found(v)
    BY <1>1, <1>2 DEF Settled, Typed, Unlost
  <2>2. CASE Content(v) \in whole
    <3>1. whole \subseteq whole'
      BY DEF Next, vars, sender, TxChunk, TxMeta, TxFails, TxCut, Deliver, Check, Copy,
             Remove, Missing, RemoveMeta, Rename, Stop, Step
    <3> QED
      BY <2>2, <3>1 DEF Found, Content, File
  <2>3. CASE \A part \in Parts(v) : File(part, v) \in dir
    BY <2>1, <2>3, InDirStays
  <2>4. CASE \E r \in Reassemblers : Underway(r, v)
    BY <2>1, <2>4, UnderwayMoves, UnderwayStays
  <2> QED
    BY <2>1, <2>2, <2>3, <2>4 DEF Found
<1>3. CASE v \notin arrived
  <2>1. PICK f \in flight : Deliver(f)
    BY <1>3
    DEF Next, vars, sender, TxChunk, TxMeta, TxFails, TxCut, Check, Copy, Remove,
        Missing, RemoveMeta, Rename, Stop, Step
  <2>2. \A part \in Parts(v) : File(part, v) \in dir'
    BY <1>3, <2>1 DEF Deliver
  <2>3. Parts(v)' = Parts(v)
    BY <2>1 DEF Deliver, sender, Parts, Chunks, Meta
  <2> QED
    BY <2>2, <2>3 DEF Found, File
<1> QED
  BY <1>2, <1>3

-----------------------------------------------------------------------------
\* Chunked files (src/src/tx.go, src/src/cmd/nncp-reass/main.go): for every size
\* of files and chunks, however uploads fail or are cut short, in whatever order
\* chunks arrive and wherever runs of nncp-reass stop, what is put together is
\* one version of the file in full; and what has arrived is put together or can
\* still be, unless a run that removes chunks was stopped. Excepted are second
\* uploads when one run has removed what another had still to copy or remove.
THEOREM ChunkedRight == Spec => []ChunkedOK
<1>1. Init => Invariant
  BY Initially
<1>2. Invariant /\ [Next]_vars => Invariant'
  <2> SUFFICES ASSUME Invariant, [Next]_vars PROVE Invariant'
    OBVIOUS
  <2>1. Typed' /\ Settled' /\ Single'
    BY TypedStep, SettledStep, SingleStep DEF Invariant
  <2>2. ASSUME Undisturbed' PROVE (Joining /\ OneVersion /\ Unlost)'
    BY <2>2, UndisturbedBefore, JoiningStep, OneVersionStep, UnlostStep DEF Invariant
  <2> QED
    BY <2>1, <2>2 DEF Invariant
<1>3. Invariant => ChunkedOK
  <2> SUFFICES ASSUME Invariant, Undisturbed PROVE NotLost
    BY DEF ChunkedOK, Invariant
  <2> SUFFICES ASSUME ~broken, NEW v \in arrived PROVE Held(v)
    BY DEF NotLost
  <2>1. Found(v)
    BY DEF Invariant, Unlost
  <2>2. \A r \in Reassemblers : Underway(r, v) => Held(v)
    BY DEF Underway, Held
  <2> QED
    BY <2>1, <2>2 DEF Found, Held
<1> QED
  BY <1>1, <1>2, <1>3, PTL DEF Spec

-----------------------------------------------------------------------------
(* Tx *)

Callers == {"starting", "collecting", "committing", "noting", "sent", "unsent",
            "done", "failed"}
Last == IF area THEN hops + 2 ELSE hops + 1
Closed == {g \in 1..Last : stage[g] = "closed"}

PipeTyped ==
    /\ hops \in 1..MaxHops /\ area \in BOOLEAN
    /\ stage \in [1..(MaxHops + 2) -> {"off", "running", "reporting", "closed"}]
    /\ got \in Nat /\ ignored \in BOOLEAN /\ caller \in Callers

\* What lacks something lacks it because of an error at or before it, which was
\* reported before the next one went on.
Caused == \A g \in lacking : \E h \in err : h = g \/ stage[h] = "closed"

\* A result that was taken was looked at, but for the first of an area's.
LookedAt ==
    \A g \in err : stage[g] = "closed" => ignored \/ caller \in {"unsent", "failed"}

\* The caller has the results of all when it commits, and tmp.Commit fails with
\* the copy.
Collected ==
    /\ got = Cardinality(Closed)
    /\ caller \in {"committing", "noting", "sent", "done"} => Closed = 1..Last
    /\ caller \in {"noting", "sent", "done"} => Last \notin err

Unstarted ==
    caller = "starting" =>
        stage = [g \in 1..(MaxHops + 2) |-> "off"] /\ err = {} /\ lacking = {}

PipeInvariant ==
    /\ PipeTyped /\ err \subseteq 1..Last
    /\ Unstarted /\ Caused /\ LookedAt /\ Collected

USE HopsAreNat

LEMMA SameCardinality == \A S : Pipe!Cardinality(S) = Cardinality(S)
BY DEF Pipe!Cardinality, Cardinality

LEMMA PipeCounts ==
    ASSUME PipeTyped
    PROVE  /\ Last \in 2..(MaxHops + 2)
           /\ Pipe!Layers = 1..(Last - 1) /\ Pipe!Copier = Last
           /\ Pipe!Goroutines = 1..Last
<1>1. Last \in 2..(MaxHops + 2)
  BY DEF PipeTyped, Last
<1>2. Pipe!Layers = 1..(Last - 1)
  BY DEF PipeTyped, Last, Pipe!Layers
<1>3. Cardinality(1..(Last - 1)) = Last - 1
  BY <1>1, FS_Interval
<1>4. Pipe!Copier = Last
  BY <1>1, <1>2, <1>3, SameCardinality DEF Pipe!Copier
<1>5. Pipe!Goroutines = 1..Last
  BY <1>1, <1>2, <1>4 DEF Pipe!Goroutines
<1> QED
  BY <1>1, <1>2, <1>4, <1>5

LEMMA PipeInit == Pipe!Init => PipeInvariant
<1> SUFFICES ASSUME Pipe!Init PROVE PipeInvariant
  OBVIOUS
<1>1. PipeTyped
  BY DEF Pipe!Init, PipeTyped, Callers
<1>2. Last \in 2..(MaxHops + 2)
  BY <1>1, PipeCounts
<1>3. Closed = {}
  BY <1>2 DEF Pipe!Init, Closed
<1>4. Collected
  BY <1>3, FS_EmptySet DEF Pipe!Init, Collected
<1> QED
  BY <1>1, <1>4 DEF Pipe!Init, PipeInvariant, Unstarted, Caused, LookedAt

\* A goroutine ends; it says so before anybody takes its result.
LEMMA ReportStep ==
    ASSUME PipeInvariant, NEW g \in 1..Last,
           stage[g] = "running", stage' = [stage EXCEPT ![g] = "reporting"],
           UNCHANGED <<hops, area, got, ignored, caller>>,
           \/ err' = err /\ lacking' = lacking
           \/ err' = err /\ lacking' = lacking \cup {g}
                 /\ \E h \in lacking : stage[h] = "closed"
           \/ err' = err \cup {g} /\ lacking' = lacking \cup {g}
    PROVE  PipeInvariant'
<1>1. /\ PipeTyped /\ err \subseteq 1..Last
      /\ Unstarted /\ Caused /\ LookedAt /\ Collected
      /\ Last \in 2..(MaxHops + 2)
  BY PipeCounts DEF PipeInvariant
<1>2. /\ stage[g] = "running" /\ stage' = [stage EXCEPT ![g] = "reporting"]
      /\ UNCHANGED <<hops, area, got, ignored, caller>>
  OBVIOUS
<1>3. Last' = Last /\ g \in 1..(MaxHops + 2)
  BY <1>1, <1>2 DEF Last
<1>4. \A h \in 1..(MaxHops + 2) : stage'[h] = "closed" <=> stage[h] = "closed"
  BY <1>1, <1>2, <1>3 DEF PipeTyped
<1>5. Closed' = Closed
  BY <1>1, <1>3, <1>4 DEF Closed
<1>6. PipeTyped'
  BY <1>1, <1>2, <1>3 DEF PipeTyped
<1>7. err' \subseteq 1..Last'
  BY <1>1, <1>2, <1>3
<1>8. Caused'
  <2> SUFFICES ASSUME NEW k \in lacking'
               PROVE  \E h \in err' : h = k \/ stage'[h] = "closed"
    BY DEF Caused
  <2>1. \A h \in err : h \in err' /\ (stage[h] = "closed" => stage'[h] = "closed")
    BY <1>1, <1>2, <1>3, <1>4
  <2>2. CASE k \in lacking
    BY <1>1, <2>1, <2>2 DEF Caused
  <2>3. CASE k = g /\ g \in err'
    BY <2>3
  <2>4. CASE \E l \in lacking : stage[l] = "closed"
    <3>1. PICK l \in lacking : stage[l] = "closed"
      BY <2>4
    <3>2. PICK h \in err : h = l \/ stage[h] = "closed"
      BY <1>1, <3>1 DEF Caused
    <3> QED
      BY <2>1, <3>1, <3>2
  <2> QED
    BY <2>2, <2>3, <2>4
<1>9. LookedAt'
  <2> SUFFICES ASSUME NEW h \in err', stage'[h] = "closed"
               PROVE  ignored \/ caller \in {"unsent", "failed"}
    BY <1>2 DEF LookedAt
  <2>1. h \in 1..(MaxHops + 2)
    BY <1>1, <1>3, <1>7
  <2>2. stage[h] = "closed" /\ h # g
    BY <1>2, <1>4, <2>1
  <2> QED
    BY <1>1, <2>2 DEF LookedAt
<1>10. Collected'
  <2>1. caller \in {"noting", "sent", "done"} => FALSE
    BY <1>1, <1>2 DEF Collected, Closed
  <2> QED
    BY <1>1, <1>2, <1>3, <1>5, <2>1 DEF Collected
<1>11. Unstarted'
  BY <1>1, <1>2, <1>3 DEF Unstarted
<1> QED
  BY <1>6, <1>7, <1>8, <1>9, <1>10, <1>11 DEF PipeInvariant

LEMMA TakeStep ==
    ASSUME PipeInvariant, NEW g \in 1..Last, Pipe!Take(g)
    PROVE  PipeInvariant'
<1>1. /\ PipeTyped /\ err \subseteq 1..Last /\ Caused /\ LookedAt /\ Collected
      /\ Last \in 2..(MaxHops + 2) /\ Pipe!Copier = Last
  BY PipeCounts DEF PipeInvariant
<1>2. /\ caller = "collecting" /\ stage[g] = "reporting"
      /\ stage' = [stage EXCEPT ![g] = "closed"] /\ got' = got + 1
      /\ ignored' = (ignored \/ (Pipe!First /\ g \in err))
      /\ caller' = IF g \in err /\ ~Pipe!First THEN "unsent"
                   ELSE IF got + 1 = Last THEN "committing" ELSE "collecting"
      /\ UNCHANGED <<hops, area, source, err, lacking, feed>>
  BY <1>1 DEF Pipe!Take, Pipe!args
<1>3. Last' = Last /\ g \in 1..(MaxHops + 2)
  BY <1>1, <1>2 DEF Last
<1>4. /\ stage'[g] = "closed"
      /\ \A h \in 1..(MaxHops + 2) : h # g => stage'[h] = stage[h]
  BY <1>1, <1>2, <1>3 DEF PipeTyped
<1>5. Closed' = Closed \cup {g} /\ g \notin Closed
  BY <1>1, <1>2, <1>3, <1>4 DEF Closed
<1>6. IsFiniteSet(1..Last) /\ Cardinality(1..Last) = Last
  BY <1>1, FS_Interval
<1>7. IsFiniteSet(Closed) /\ Closed' \in SUBSET (1..Last)
  <2>1. Closed \in SUBSET (1..Last)
    BY DEF Closed
  <2> QED
    BY <1>5, <1>6, <2>1, FS_Subset
<1>8. Cardinality(Closed') = got + 1
  BY <1>1, <1>5, <1>7, FS_AddElement DEF Collected
<1>9. PipeTyped'
  BY <1>1, <1>2, <1>3 DEF PipeTyped, Callers
<1>10. Caused'
  BY <1>1, <1>2, <1>3, <1>4 DEF Caused
<1>11. LookedAt'
  <2> SUFFICES ASSUME NEW h \in err, stage'[h] = "closed"
               PROVE  ignored' \/ caller' = "unsent"
    BY <1>2 DEF LookedAt
  <2>1. CASE h = g
    BY <1>2, <2>1
  <2>2. CASE h # g
    <3>1. h \in 1..(MaxHops + 2)
      BY <1>1
    <3>2. stage[h] = "closed"
      BY <1>4, <2>2, <3>1
    <3> QED
      BY <1>1, <1>2, <3>2 DEF LookedAt
  <2> QED
    BY <2>1, <2>2
<1>12. Collected'
  <2>1. caller' = "committing" => Closed' = 1..Last
    <3>1. Cardinality(Closed') = Cardinality(1..Last) => 1..Last = Closed'
      BY <1>6, <1>7, FS_Subset
    <3> QED
      BY <1>2, <1>6, <1>8, <3>1
  <2> QED
    BY <1>2, <1>3, <1>8, <2>1 DEF Collected
<1> QED
  BY <1>1, <1>2, <1>3, <1>9, <1>10, <1>11, <1>12 DEF PipeInvariant, Unstarted

LEMMA PipeStep ==
    ASSUME PipeInvariant, [Pipe!Next]_(Pipe!vars)
    PROVE  PipeInvariant'
<1>1. /\ PipeTyped /\ err \subseteq 1..Last
      /\ Unstarted /\ Caused /\ LookedAt /\ Collected
      /\ Last \in 2..(MaxHops + 2) /\ Pipe!Copier = Last
      /\ Pipe!Layers = 1..(Last - 1) /\ Pipe!Goroutines = 1..Last
  BY PipeCounts DEF PipeInvariant
<1>2. CASE Pipe!Start
  <2>1. /\ caller = "starting" /\ caller' = "collecting"
        /\ stage' = [g \in 1..(MaxHops + 2) |-> "running"]
        /\ UNCHANGED <<hops, area, source, err, lacking, got, ignored, feed>>
    BY <1>1, <1>2 DEF Pipe!Start, Pipe!args, PipeTyped
  <2>2. /\ stage = [g \in 1..(MaxHops + 2) |-> "off"] /\ err = {} /\ lacking = {}
        /\ Last' = Last
    <3>1. Last' = Last
      BY <2>1 DEF Last
    <3> QED
      BY <1>1, <2>1, <3>1 DEF Unstarted
  <2>3. PipeTyped'
    BY <1>1, <2>1 DEF PipeTyped, Callers
  <2>4. Closed = {} /\ Closed' = {}
    <3>1. \A g \in 1..Last : stage[g] = "off" /\ stage'[g] = "running"
      BY <1>1, <2>1, <2>2
    <3> QED
      BY <2>2, <3>1 DEF Closed
  <2>5. Collected'
    BY <1>1, <2>1, <2>2, <2>4 DEF Collected
  <2> QED
    BY <2>1, <2>2, <2>3, <2>5 DEF PipeInvariant, Unstarted, Caused, LookedAt
<1>3. CASE UNCHANGED <<hops, area, stage, err, lacking, got, ignored, caller>>
  BY <1>1, <1>3
  DEF PipeInvariant, PipeTyped, Unstarted, Caused, LookedAt, Collected, Closed, Last
<1>4. ASSUME UNCHANGED <<hops, area, stage, err, lacking, got, ignored>>,
             caller' \in Callers \ {"starting", "collecting", "committing"},
             caller \in {"unsent", "failed"} => caller' = "failed",
             caller' \in {"noting", "sent", "done"} =>
                 /\ caller \in {"committing", "noting", "sent"}
                 /\ Last \notin err
      PROVE  PipeInvariant'
  <2>1. PipeTyped'
    BY <1>1, <1>4 DEF PipeTyped, Callers
  <2>2. Last' = Last /\ Closed' = Closed
    BY <1>4 DEF Last, Closed
  <2>3. Collected'
    BY <1>1, <1>4, <2>2 DEF Collected, Callers
  <2>4. LookedAt'
    BY <1>1, <1>4 DEF LookedAt
  <2> QED
    BY <1>1, <1>4, <2>1, <2>2, <2>3, <2>4 DEF PipeInvariant, Unstarted, Caused
<1>5. ASSUME NEW g \in 1..(Last - 1), Pipe!Encrypt(g) \/ Pipe!EncryptFails(g)
      PROVE  PipeInvariant'
  <2>1. g \in 1..Last
    BY <1>1
  <2>2. /\ stage[g] = "running" /\ stage' = [stage EXCEPT ![g] = "reporting"]
        /\ UNCHANGED <<hops, area, got, ignored, caller>>
    BY <1>5 DEF Pipe!Encrypt, Pipe!EncryptFails, Pipe!Report, Pipe!args
  <2>3. CASE Pipe!Encrypt(g)
    <3>1. \/ err' = err /\ lacking' = lacking
          \/ err' = err /\ lacking' = lacking \cup {g}
                /\ \E h \in lacking : stage[h] = "closed"
      BY <1>1, <2>1, <2>3 DEF Pipe!Encrypt, Pipe!Report, Pipe!Flows
    <3> QED
      BY <2>1, <2>2, <3>1, ReportStep
  <2>4. CASE Pipe!EncryptFails(g)
    <3>1. err' = err \cup {g} /\ lacking' = lacking \cup {g}
      BY <2>4 DEF Pipe!EncryptFails, Pipe!Report
    <3> QED
      BY <2>1, <2>2, <3>1, ReportStep
  <2> QED
    BY <1>5, <2>3, <2>4
<1>6. CASE Pipe!Copy \/ Pipe!CopyFails
  <2>1. Last \in 1..Last
    BY <1>1
  <2>2. /\ stage[Last] = "running" /\ stage' = [stage EXCEPT ![Last] = "reporting"]
        /\ UNCHANGED <<hops, area, got, ignored, caller>>
    BY <1>1, <1>6 DEF Pipe!Copy, Pipe!CopyFails, Pipe!Report, Pipe!args
  <2>3. CASE Pipe!Copy
    <3>1. \/ err' = err /\ lacking' = lacking
          \/ err' = err /\ lacking' = lacking \cup {Last}
                /\ \E h \in lacking : stage[h] = "closed"
      BY <1>1, <2>3 DEF Pipe!Copy, Pipe!Report
    <3> QED
      BY <2>1, <2>2, <3>1, ReportStep
  <2>4. CASE Pipe!CopyFails
    <3>1. err' = err \cup {Last} /\ lacking' = lacking \cup {Last}
      BY <1>1, <2>4 DEF Pipe!CopyFails, Pipe!Report
    <3> QED
      BY <2>1, <2>2, <3>1, ReportStep
  <2> QED
    BY <1>6, <2>3, <2>4
<1>7. ASSUME NEW g \in 1..Last, Pipe!Take(g) PROVE PipeInvariant'
  BY <1>7, TakeStep
<1>8. CASE Pipe!Refuse \/ Pipe!Commit \/ Pipe!Note \/ Pipe!Return \/ Pipe!ReturnFile
  <2>1. UNCHANGED <<hops, area, stage, err, lacking, got, ignored>>
    BY <1>8
    DEF Pipe!Refuse, Pipe!Commit, Pipe!Note, Pipe!Return, Pipe!ReturnFile, Pipe!args
  <2>2. /\ caller' \in Callers \ {"starting", "collecting", "committing"}
        /\ caller \in {"unsent", "failed"} => caller' = "failed"
    BY <1>8
    DEF Pipe!Refuse, Pipe!Commit, Pipe!Note, Pipe!Return, Pipe!ReturnFile, Callers
  <2>3. caller' \in {"noting", "sent", "done"} =>
            caller \in {"committing", "noting", "sent"} /\ Last \notin err
    BY <1>1, <1>8
    DEF Pipe!Refuse, Pipe!Commit, Pipe!Note, Pipe!Return, Pipe!ReturnFile, Collected
  <2> QED
    BY <1>4, <2>1, <2>2, <2>3
<1>9. CASE \/ Pipe!Feed \/ Pipe!FeedFails \/ Pipe!Archive \/ Pipe!ArchiveFails
           \/ Pipe!FeedBlocks \/ UNCHANGED Pipe!vars
  BY <1>3, <1>9
  DEF Pipe!Feed, Pipe!FeedFails, Pipe!Archive, Pipe!ArchiveFails, Pipe!FeedBlocks,
      Pipe!vars, Pipe!args
<1> QED
  BY <1>1, <1>2, <1>5, <1>6, <1>7, <1>8, <1>9 DEF Pipe!Next

\* Ctx.Tx (src/src/tx.go:50-270): for any number of hops, whichever goroutine
\* fails and in whatever order the results come, a packet that is said to be
\* sent is complete, unless it is for an area and its first result was an error.
THEOREM SentIsWhole == Pipe!Spec => []Pipe!SentWhole
<1>1. Pipe!Init => PipeInvariant
  BY PipeInit
<1>2. PipeInvariant /\ [Pipe!Next]_(Pipe!vars) => PipeInvariant'
  BY PipeStep
<1>3. PipeInvariant => Pipe!SentWhole
  <2> SUFFICES ASSUME PipeInvariant, caller \in {"sent", "done"}, Last \in lacking
               PROVE  ignored
    BY PipeCounts DEF Pipe!SentWhole, PipeInvariant
  <2>1. PICK h \in err : h = Last \/ stage[h] = "closed"
    BY DEF PipeInvariant, Caused
  <2>2. h # Last
    BY DEF PipeInvariant, Collected
  <2> QED
    BY <2>1, <2>2 DEF PipeInvariant, LookedAt
<1> QED
  BY <1>1, <1>2, <1>3, PTL DEF Pipe!Spec

-----------------------------------------------------------------------------
(* Tx is not stuck *)

Ended(g) == stage[g] \in {"reporting", "closed"}

\* What ended without an error has read all of its source, ...
Drained ==
    \A g \in 1..Last : Ended(g) /\ g \notin err =>
        IF g = 1 THEN source = "plain" \/ feed = "fed" ELSE stage[g - 1] = "closed"

\* ... so that the results are taken in the order of the pipes, as long as none
\* is an error.
InTurn ==
    caller = "collecting" =>
        /\ \A g \in 1..Last : stage[g] # "off"
        /\ ~ignored => Closed = 1..got /\ got < Last

Reported ==
    /\ \A g \in err : Ended(g)
    /\ feed = "blocked" => err # {} \/ caller \in {"unsent", "failed"}

Orderly ==
    /\ source \in Pipe!Sources /\ feed \in {"going", "fed", "broken", "blocked"}
    /\ source = "plain" => feed = "going"
    /\ Drained /\ InTurn /\ Reported

LEMMA OrderlyReport ==
    ASSUME PipeInvariant, Orderly, NEW g \in 1..Last,
           stage[g] = "running", stage' = [stage EXCEPT ![g] = "reporting"],
           UNCHANGED <<hops, area, source, got, ignored, feed, caller>>,
           \/ err' = err \cup {g}
           \/ err' = err /\ (IF g = 1 THEN source = "plain" \/ feed = "fed"
                                      ELSE stage[g - 1] = "closed")
    PROVE  Orderly'
<1>1. /\ PipeTyped /\ err \subseteq 1..Last
      /\ Last \in 2..(MaxHops + 2) /\ Last' = Last
      /\ Drained /\ InTurn /\ Reported
  BY PipeCounts DEF PipeInvariant, Orderly, Last
<1>2. g \in 1..(MaxHops + 2) /\ 1..Last \subseteq 1..(MaxHops + 2)
  BY <1>1
<1>3. /\ stage'[g] = "reporting"
      /\ \A h \in 1..Last : h # g => stage'[h] = stage[h]
  BY <1>1, <1>2 DEF PipeTyped
<1>4. \A h \in 1..Last : stage[h] = "closed" <=> stage'[h] = "closed"
  BY <1>3
<1>5. Closed' = Closed
  BY <1>1, <1>4 DEF Closed
<1>6. Drained'
  <2> SUFFICES ASSUME NEW h \in 1..Last, Ended(h)', h \notin err'
               PROVE  IF h = 1 THEN source = "plain" \/ feed = "fed"
                               ELSE stage'[h - 1] = "closed"
    BY <1>1 DEF Drained
  <2>1. h # g => Ended(h) /\ h \notin err
    BY <1>3 DEF Ended
  <2>2. IF h = 1 THEN source = "plain" \/ feed = "fed" ELSE stage[h - 1] = "closed"
    BY <1>1, <2>1 DEF Drained
  <2>3. h # 1 => h - 1 \in 1..Last
    BY <1>1
  <2> QED
    BY <1>4, <2>2, <2>3
<1>7. InTurn'
  BY <1>1, <1>3, <1>5 DEF InTurn
<1>8. Reported'
  BY <1>1, <1>3 DEF Reported, Ended
<1> QED
  BY <1>6, <1>7, <1>8 DEF Orderly

LEMMA OrderlyTake ==
    ASSUME PipeInvariant, Orderly, NEW g \in 1..Last, Pipe!Take(g)
    PROVE  Orderly'
<1>1. /\ PipeTyped /\ err \subseteq 1..Last /\ Collected
      /\ Last \in 2..(MaxHops + 2) /\ Pipe!Copier = Last
      /\ Drained /\ InTurn /\ Reported
  BY PipeCounts DEF PipeInvariant, Orderly
<1>2. /\ caller = "collecting" /\ stage[g] = "reporting"
      /\ stage' = [stage EXCEPT ![g] = "closed"] /\ got' = got + 1
      /\ ignored' = (ignored \/ (Pipe!First /\ g \in err))
      /\ caller' = IF g \in err /\ ~Pipe!First THEN "unsent"
                   ELSE IF got + 1 = Last THEN "committing" ELSE "collecting"
      /\ UNCHANGED <<hops, area, source, err, lacking, feed>>
  BY <1>1 DEF Pipe!Take, Pipe!args
<1>3. Last' = Last /\ 1..Last \subseteq 1..(MaxHops + 2)
  BY <1>1, <1>2 DEF Last
<1>4. /\ stage'[g] = "closed"
      /\ \A h \in 1..Last : h # g => stage'[h] = stage[h]
  BY <1>1, <1>2, <1>3 DEF PipeTyped
<1>5. Drained'
  <2> SUFFICES ASSUME NEW h \in 1..Last, Ended(h)', h \notin err
               PROVE  IF h = 1 THEN source = "plain" \/ feed = "fed"
                               ELSE stage'[h - 1] = "closed"
    BY <1>2, <1>3 DEF Drained
  <2>1. Ended(h)
    BY <1>2, <1>4 DEF Ended
  <2>2. IF h = 1 THEN source = "plain" \/ feed = "fed" ELSE stage[h - 1] = "closed"
    BY <1>1, <2>1 DEF Drained
  <2>3. h # 1 => h - 1 \in 1..Last
    BY <1>1
  <2> QED
    BY <1>4, <2>2, <2>3
<1>6. InTurn'
  <2> SUFFICES ASSUME caller' = "collecting"
               PROVE  /\ \A h \in 1..Last : stage'[h] # "off"
                      /\ ~ignored' => Closed' = 1..(got + 1) /\ got + 1 < Last
    BY <1>2, <1>3 DEF InTurn
  <2>1. \A h \in 1..Last : stage'[h] # "off"
    BY <1>1, <1>2, <1>4 DEF InTurn
  <2>2. ASSUME ~ignored' PROVE Closed' = 1..(got + 1) /\ got + 1 < Last
    <3>1. g \notin err
      BY <1>2, <2>2
    <3>2. Closed = 1..got /\ got < Last /\ got \in Nat /\ got + 1 # Last
      BY <1>1, <1>2, <2>2 DEF InTurn, PipeTyped
    <3>3. g = 1 \/ stage[g - 1] = "closed"
      BY <1>1, <1>2, <3>1 DEF Drained, Ended
    <3>4. g = 1 \/ g - 1 \in Closed
      BY <1>1, <3>3 DEF Closed
    <3>5. g \notin Closed
      BY <1>2 DEF Closed
    <3>6. g = got + 1
      BY <3>2, <3>4, <3>5
    <3>7. Closed' = Closed \cup {g}
      BY <1>3, <1>4 DEF Closed
    <3> QED
      BY <1>1, <3>2, <3>6, <3>7
  <2> QED
    BY <2>1, <2>2
<1>7. Reported'
  BY <1>1, <1>2, <1>4 DEF Reported, Ended
<1> QED
  BY <1>2, <1>5, <1>6, <1>7 DEF Orderly

LEMMA OrderlyStep ==
    ASSUME PipeInvariant, Orderly, [Pipe!Next]_(Pipe!vars)
    PROVE  Orderly'
<1>1. /\ PipeTyped /\ err \subseteq 1..Last /\ Unstarted
      /\ Last \in 2..(MaxHops + 2) /\ Pipe!Copier = Last
      /\ Pipe!Layers = 1..(Last - 1) /\ Pipe!Goroutines = 1..Last
      /\ Drained /\ InTurn /\ Reported /\ Collected
      /\ source \in Pipe!Sources /\ feed \in {"going", "fed", "broken", "blocked"}
      /\ source = "plain" => feed = "going"
  BY PipeCounts DEF PipeInvariant, Orderly
<1>2. CASE Pipe!Start
  <2>1. /\ caller = "starting" /\ caller' = "collecting"
        /\ stage' = [g \in 1..(MaxHops + 2) |-> "running"]
        /\ UNCHANGED <<hops, area, source, err, got, ignored, feed>>
    BY <1>1, <1>2 DEF Pipe!Start, Pipe!args, PipeTyped
  <2>2. stage = [g \in 1..(MaxHops + 2) |-> "off"] /\ err = {} /\ Last' = Last
    BY <1>1, <2>1 DEF Unstarted, Last
  <2>3. \A g \in 1..Last : stage[g] = "off" /\ stage'[g] = "running"
    BY <1>1, <2>1, <2>2
  <2>4. Closed = {} /\ Closed' = {} /\ got = 0
    <3>1. Closed = {} /\ Closed' = {}
      BY <2>2, <2>3 DEF Closed
    <3> QED
      BY <1>1, <3>1, FS_EmptySet DEF Collected
  <2> QED
    BY <1>1, <2>1, <2>2, <2>3, <2>4 DEF Orderly, Drained, InTurn, Reported, Ended
<1>3. CASE /\ UNCHANGED <<hops, area, source, stage, err, got, ignored, caller>>
           /\ feed' = feed
              \/ (source # "plain" /\ feed = "going" /\ feed' \in {"fed", "broken"})
              \/ (source # "plain" /\ feed = "going" /\ feed' = "blocked"
                     /\ (err # {} \/ caller = "unsent"))
  BY <1>1, <1>3 DEF Orderly, Drained, InTurn, Reported, Ended, Closed, Last
<1>4. CASE \/ Pipe!Feed \/ Pipe!FeedFails \/ Pipe!Archive \/ Pipe!ArchiveFails
           \/ Pipe!FeedBlocks \/ UNCHANGED Pipe!vars
  BY <1>3, <1>4
  DEF Pipe!Feed, Pipe!FeedFails, Pipe!Archive, Pipe!ArchiveFails, Pipe!FeedBlocks,
      Pipe!vars, Pipe!args
<1>5. ASSUME NEW g \in 1..(Last - 1), Pipe!Encrypt(g) \/ Pipe!EncryptFails(g)
      PROVE  Orderly'
  <2>1. g \in 1..Last
    BY <1>1
  <2>2. /\ stage[g] = "running" /\ stage' = [stage EXCEPT ![g] = "reporting"]
        /\ UNCHANGED <<hops, area, source, got, ignored, feed, caller>>
    BY <1>5 DEF Pipe!Encrypt, Pipe!EncryptFails, Pipe!Report, Pipe!args
  <2>3. \/ err' = err \cup {g}
        \/ err' = err /\ (IF g = 1 THEN source = "plain" \/ feed = "fed"
                                   ELSE stage[g - 1] = "closed")
    BY <1>5 DEF Pipe!Encrypt, Pipe!EncryptFails, Pipe!Report, Pipe!Flows
  <2> QED
    BY <2>1, <2>2, <2>3, OrderlyReport
<1>6. CASE Pipe!Copy \/ Pipe!CopyFails
  <2>1. Last \in 1..Last /\ Last # 1
    BY <1>1
  <2>2. /\ stage[Last] = "running" /\ stage' = [stage EXCEPT ![Last] = "reporting"]
        /\ UNCHANGED <<hops, area, source, got, ignored, feed, caller>>
    BY <1>1, <1>6 DEF Pipe!Copy, Pipe!CopyFails, Pipe!Report, Pipe!args
  <2>3. err' = err \cup {Last} \/ (err' = err /\ stage[Last - 1] = "closed")
    BY <1>1, <1>6 DEF Pipe!Copy, Pipe!CopyFails, Pipe!Report
  <2> QED
    BY <2>1, <2>2, <2>3, OrderlyReport
<1>7. ASSUME NEW g \in 1..Last, Pipe!Take(g) PROVE Orderly'
  BY <1>7, OrderlyTake
<1>8. CASE Pipe!Refuse \/ Pipe!Commit \/ Pipe!Note \/ Pipe!Return \/ Pipe!ReturnFile
  <2>1. UNCHANGED <<hops, area, source, stage, err, got, ignored, feed>>
    BY <1>8
    DEF Pipe!Refuse, Pipe!Commit, Pipe!Note, Pipe!Return, Pipe!ReturnFile, Pipe!args
  <2>2. /\ caller' # "collecting"
        /\ caller \in {"unsent", "failed"} => caller' = "failed"
    BY <1>8
    DEF Pipe!Refuse, Pipe!Commit, Pipe!Note, Pipe!Return, Pipe!ReturnFile
  <2> QED
    BY <1>1, <2>1, <2>2 DEF Orderly, Drained, InTurn, Reported, Ended, Last
<1> QED
  BY <1>1, <1>2, <1>4, <1>5, <1>6, <1>7, <1>8 DEF Pipe!Next

\* While the caller collects, the first goroutine whose result it has not taken
\* has reported or can go on, unless it waits for what feeds it.
LEMMA CollectingGoesOn ==
    ASSUME PipeInvariant, Orderly, caller = "collecting", ~ignored
    PROVE  \/ Pipe!GoesOn
           \/ source = "exec" /\ feed = "broken" /\ stage[1] = "running"
           \/ source = "exec" /\ feed = "blocked"
<1>1. /\ PipeTyped /\ err \subseteq 1..Last /\ LookedAt
      /\ Last \in 2..(MaxHops + 2) /\ Pipe!Copier = Last
      /\ Pipe!Layers = 1..(Last - 1) /\ Pipe!Goroutines = 1..Last
      /\ Drained /\ InTurn /\ Reported
      /\ source \in Pipe!Sources /\ feed \in {"going", "fed", "broken", "blocked"}
  BY PipeCounts DEF PipeInvariant, Orderly
<1> SUFFICES ASSUME \A g \in 1..Last : stage[g] # "reporting",
                    ~(source = "exec" /\ feed = "broken" /\ stage[1] = "running"),
                    ~(source = "exec" /\ feed = "blocked")
             PROVE  Pipe!GoesOn
  BY <1>1 DEF Pipe!GoesOn
<1>2. /\ \A g \in 1..Last : stage[g] # "off" /\ stage[g] # "reporting"
      /\ Closed = 1..got /\ got < Last /\ got \in Nat
  BY <1>1 DEF InTurn, PipeTyped
<1>3. \A g \in 1..Last : stage[g] \in {"running", "closed"}
  <2> SUFFICES ASSUME NEW g \in 1..Last PROVE stage[g] \in {"running", "closed"}
    OBVIOUS
  <2>1. g \in 1..(MaxHops + 2)
    BY <1>1
  <2> QED
    BY <1>1, <1>2, <2>1 DEF PipeTyped
<1>4. \A g \in 1..Last : stage[g] = "closed" <=> g <= got
  BY <1>1, <1>2 DEF Closed
<1>5. PICK k \in 1..Last : k = got + 1
  BY <1>1, <1>2
<1>6. /\ stage[k] = "running"
      /\ k # 1 => stage[k - 1] = "closed"
      /\ k # Last => stage[k + 1] = "running"
  <2>1. k # 1 => k - 1 \in 1..Last
    BY <1>1
  <2>2. k # Last => k + 1 \in 1..Last
    BY <1>1
  <2> QED
    BY <1>1, <1>2, <1>3, <1>4, <1>5, <2>1, <2>2
<1>7. feed # "blocked"
  <2>1. \A h \in err : stage[h] = "closed"
    BY <1>1, <1>3 DEF Reported, Ended
  <2>2. err = {}
    BY <1>1, <2>1 DEF LookedAt
  <2> QED
    BY <1>1, <2>2 DEF Reported
<1>8. CASE k = Last
  BY <1>1, <1>6, <1>8 DEF Pipe!GoesOn
<1>9. CASE k # Last /\ k # 1
  <2>1. k \in Pipe!Layers
    BY <1>1, <1>9
  <2> QED
    BY <1>6, <1>9, <2>1 DEF Pipe!GoesOn, Pipe!Flows
<1>10. CASE k = 1
  <2>1. 1 \in Pipe!Layers /\ k # Last
    BY <1>1, <1>10
  <2>2. CASE source = "plain" \/ feed = "fed"
    <3>1. Pipe!Flows(1)
      BY <1>6, <1>10, <2>1, <2>2 DEF Pipe!Flows
    <3> QED
      BY <1>6, <1>10, <2>1, <3>1 DEF Pipe!GoesOn
  <2>3. CASE source # "plain" /\ feed # "fed"
    BY <1>1, <1>6, <1>7, <1>10, <2>3 DEF Pipe!GoesOn, Pipe!Sources
  <2> QED
    BY <2>2, <2>3
<1> QED
  BY <1>8, <1>9, <1>10

\* Ctx.Tx (src/src/tx.go:50-270): for any number of hops and whatever fails, its
\* caller never waits for a result nobody will give: somebody can go on without
\* a further failure. Excepted are an area's first result that was an error and
\* TxExec's compressor, whose pipe is left open or not read to its end.
THEOREM SendingGoesOn == Pipe!Spec => []Pipe!NeverStuck
<1>1. Pipe!Init => PipeInvariant /\ Orderly
  <2> SUFFICES ASSUME Pipe!Init PROVE PipeInvariant /\ Orderly
    OBVIOUS
  <2>1. PipeInvariant /\ Last \in 2..(MaxHops + 2)
    BY PipeInit, PipeCounts DEF PipeInvariant
  <2>2. \A g \in 1..Last : stage[g] = "off"
    BY <2>1 DEF Pipe!Init
  <2> QED
    BY <2>1, <2>2 DEF Pipe!Init, Orderly, Drained, InTurn, Reported, Ended
<1>2. PipeInvariant /\ Orderly /\ [Pipe!Next]_(Pipe!vars) => PipeInvariant' /\ Orderly'
  BY PipeStep, OrderlyStep
<1>3. PipeInvariant /\ Orderly => Pipe!NeverStuck
  <2> SUFFICES ASSUME PipeInvariant, Orderly, caller \notin {"done", "failed"}, ~ignored,
                      ~(source = "exec" /\ feed = "broken" /\ stage[1] = "running"),
                      ~(source = "exec" /\ feed = "blocked")
               PROVE  Pipe!GoesOn
    BY DEF Pipe!NeverStuck
  <2>1. /\ PipeTyped /\ err \subseteq 1..Last /\ LookedAt /\ Collected
        /\ Last \in 2..(MaxHops + 2)
        /\ Drained /\ source \in Pipe!Sources
        /\ feed \in {"going", "fed", "broken", "blocked"}
    BY PipeCounts DEF PipeInvariant, Orderly
  <2>2. CASE caller = "collecting"
    BY <2>2, CollectingGoesOn
  <2>3. CASE caller \in {"starting", "committing", "noting"}
    BY <2>3 DEF Pipe!GoesOn
  <2>4. CASE caller = "unsent"
    BY <2>1, <2>4 DEF Pipe!GoesOn
  <2>5. CASE caller = "sent"
    <3>1. 1 \in Closed
      BY <2>1, <2>5 DEF Collected
    <3>2. stage[1] = "closed" /\ 1 \in 1..Last
      BY <2>1, <3>1 DEF Closed
    <3>3. 1 \notin err
      BY <2>1, <2>5, <3>2 DEF LookedAt
    <3>4. source = "plain" \/ feed = "fed"
      BY <2>1, <3>2, <3>3 DEF Drained, Ended
    <3> QED
      BY <2>5, <3>4 DEF Pipe!GoesOn
  <2> QED
    BY <2>1, <2>2, <2>3, <2>4, <2>5 DEF PipeTyped, Callers
<1> QED
  BY <1>1, <1>2, <1>3, PTL DEF Pipe!Spec

\* Ctx.Tx, what the run checks of it but for ENABLED: what is sent is complete,
\* and sending goes on.
THEOREM TxCorrect == Pipe!Spec => []TxOK
<1>1. TxOK <=> Pipe!SentWhole /\ Pipe!NeverStuck
  BY DEF TxOK, Pipe!TxOK
<1> QED
  BY <1>1, SentIsWhole, SendingGoesOn, PTL

-----------------------------------------------------------------------------
(* Induction *)

LEMMA SmallestOf == ASSUME NEW T, T \subseteq Nat, T # {} PROVE \E x \in T : \A y \in T : x <= y
<1> DEFINE Up(k) == 0..k
           Ups == {Up(k) : k \in T}
<1>1. Ups \subseteq FiniteSubsetsOf(Nat)
  <2> SUFFICES ASSUME NEW k \in T PROVE Up(k) \in FiniteSubsetsOf(Nat)
    OBVIOUS
  <2>1. k \in Int /\ 0 \in Int
    OBVIOUS
  <2>2. IsFiniteSet(0..k)
    BY <2>1, FS_Interval
  <2>3. 0..k \in SUBSET Nat
    OBVIOUS
  <2> QED
    BY <2>2, <2>3 DEF FiniteSubsetsOf
<1>2. PICK x \in Ups : \A y \in Ups : ~(<<y, x>> \in StrictSubsetOrdering(Nat))
  <2>1. IsWellFoundedOn(StrictSubsetOrdering(Nat), FiniteSubsetsOf(Nat))
    BY FS_StrictSubsetOrderingWellFounded
  <2>2. IsWellFoundedOn(StrictSubsetOrdering(Nat), Ups)
    BY <1>1, <2>1, IsWellFoundedOnSubset, Zenon
  <2>3. PICK k \in T : TRUE
    OBVIOUS
  <2>4. Up(k) \in Ups
    BY <2>3
  <2> HIDE DEF Ups, Up
  <2> QED
    BY <2>2, <2>4, WFMin, Zenon
<1>3. PICK k \in T : x = Up(k)
  OBVIOUS
<1>4. ASSUME NEW j \in T, ~(k <= j) PROVE FALSE
  <2>1. Up(j) \subseteq Up(k) /\ Up(j) # Up(k)
    BY <1>4
  <2>2. Up(j) \in SUBSET Nat /\ Up(k) \in SUBSET Nat
    OBVIOUS
  <2> HIDE DEF Up
  <2>3. <<Up(j), Up(k)>> \in StrictSubsetOrdering(Nat)
    BY <2>1, <2>2 DEF StrictSubsetOrdering
  <2> QED
    BY <1>2, <1>3, <2>3
<1> QED
  BY <1>4

LEMMA Induction ==
    ASSUME NEW S, 0 \in S, \A n \in Nat : n \in S => n + 1 \in S
    PROVE  Nat \subseteq S
<1> SUFFICES ASSUME Nat \ S # {} PROVE FALSE
  OBVIOUS
<1>1. PICK x \in Nat \ S : \A y \in Nat \ S : x <= y
  BY SmallestOf
<1>2. x # 0 /\ x - 1 \in Nat
  BY <1>1
<1>3. x - 1 \in S
  BY <1>1, <1>2
<1> QED
  BY <1>1, <1>2, <1>3

\* A sequence of values each of which is computed from the one before it.
Links(f, a, g, n) == f[0] = a /\ \A i \in 1..n : f[i] = g[f[i - 1]]

LEMMA Chain ==
    ASSUME NEW S, NEW a \in S, NEW g \in [S -> S], NEW n \in Nat
    PROVE  \E f \in [0..n -> S] : Links(f, a, g, n)
<1> DEFINE Good(k) == \E f \in [0..k -> S] : Links(f, a, g, k)
           T == {k \in Nat : Good(k)}
<1>1. Good(0)
  <2> WITNESS [i \in 0..0 |-> a] \in [0..0 -> S]
  <2> QED
    BY DEF Links
<1>2. ASSUME NEW k \in Nat, Good(k) PROVE Good(k + 1)
  <2>1. PICK f \in [0..k -> S] : Links(f, a, g, k)
    BY <1>2
  <2> DEFINE h == [i \in 0..(k + 1) |-> IF i <= k THEN f[i] ELSE g[f[k]]]
  <2>2. h \in [0..(k + 1) -> S]
    OBVIOUS
  <2>3. h[0] = a
    BY <2>1 DEF Links
  <2>4. \A i \in 1..(k + 1) : h[i] = g[h[i - 1]]
    <3> TAKE i \in 1..(k + 1)
    <3>1. CASE i = k + 1
      BY <3>1
    <3>2. CASE i <= k
      <4>1. h[i] = f[i] /\ h[i - 1] = f[i - 1]
        BY <3>2
      <4> QED
        BY <2>1, <3>2, <4>1 DEF Links
    <3> QED
      BY <3>1, <3>2
  <2> HIDE DEF h
  <2>5. Links(h, a, g, k + 1)
    BY <2>3, <2>4 DEF Links
  <2> QED
    BY <2>2, <2>5
<1> HIDE DEF Good
<1>3. \A k \in T : k \in Nat /\ Good(k)
  OBVIOUS
<1>4. 0 \in T /\ \A k \in Nat : k \in T => k + 1 \in T
  BY <1>1, <1>2
<1> HIDE DEF T
<1>5. n \in T
  BY <1>4, Induction
<1> QED
  BY <1>3, <1>5 DEF Good

-----------------------------------------------------------------------------
(* Parts of the payload *)

Part(from, n) == [j \in 1..n |-> from + j]

LEMMA PartType ==
    ASSUME NEW a \in Nat, NEW n \in Nat
    PROVE  /\ Part(a, n) \in Seq(Nat) /\ Len(Part(a, n)) = n
           /\ \A j \in 1..n : Part(a, n)[j] = a + j
BY DEF Part

LEMMA PlainIsPart == \A n : Pkt!Plain(n) = [j \in 1..n |-> j]
BY DEF Pkt!Plain

LEMMA SameNumbers ==
    ASSUME NEW s \in Seq(Nat), NEW t \in Seq(Nat), Len(s) = Len(t),
           \A i \in 1..Len(s) : s[i] = t[i]
    PROVE  s = t
BY SeqEqual

LEMMA PartOfPart ==
    ASSUME NEW a \in Nat, NEW n \in Nat, NEW i \in 1..(n + 1), NEW j \in (i - 1)..n
    PROVE  SubSeq(Part(a, n), i, j) = Part(a + i - 1, j - i + 1)
<1>1. \A k \in i..j : Part(a, n)[k] = a + k
  BY DEF Part
<1>2. SubSeq(Part(a, n), i, j) \in Seq(Nat) /\ Len(SubSeq(Part(a, n), i, j)) = j - i + 1
      /\ \A k \in 1..(j - i + 1) : SubSeq(Part(a, n), i, j)[k] = Part(a, n)[i + k - 1]
  BY <1>1, SubSeqProperties
<1>3. \A k \in 1..(j - i + 1) : SubSeq(Part(a, n), i, j)[k] = a + i - 1 + k
  BY <1>1, <1>2
<1>4. a + i - 1 \in Nat /\ j - i + 1 \in Nat
  OBVIOUS
<1> QED
  <2> DEFINE s == SubSeq(Part(a, n), i, j)
             t == Part(a + i - 1, j - i + 1)
  <2>1. t \in Seq(Nat) /\ Len(t) = j - i + 1 /\ \A k \in 1..(j - i + 1) : t[k] = a + i - 1 + k
    BY <1>4, PartType
  <2>2. s \in Seq(Nat) /\ Len(s) = j - i + 1 /\ \A k \in 1..(j - i + 1) : s[k] = a + i - 1 + k
    BY <1>2, <1>3
  <2> HIDE DEF s, t
  <2>3. s = t
    BY <2>1, <2>2, SameNumbers
  <2> QED
    BY <2>3 DEF s, t

LEMMA PartsMeet ==
    ASSUME NEW a \in Nat, NEW n \in Nat, NEW m \in Nat
    PROVE  Part(a, n) \o Part(a + n, m) = Part(a, n + m)
<1> DEFINE s == Part(a, n)
           u == Part(a + n, m)
           w == Part(a, n + m)
<1>1. s \in Seq(Nat) /\ Len(s) = n /\ \A k \in 1..n : s[k] = a + k
  BY PartType
<1>2. u \in Seq(Nat) /\ Len(u) = m /\ \A k \in 1..m : u[k] = a + n + k
  <2>1. a + n \in Nat
    OBVIOUS
  <2> QED
    BY <2>1, PartType
<1>3. w \in Seq(Nat) /\ Len(w) = n + m /\ \A k \in 1..(n + m) : w[k] = a + k
  BY PartType
<1> HIDE DEF s, u, w
<1>4. /\ s \o u \in Seq(Nat) /\ Len(s \o u) = n + m
      /\ \A k \in 1..(n + m) : (s \o u)[k] = IF k <= n THEN s[k] ELSE u[k - n]
  BY <1>1, <1>2, ConcatProperties
<1>5. \A k \in 1..(n + m) : (s \o u)[k] = a + k
  BY <1>1, <1>2, <1>4
<1>6. s \o u = w
  BY <1>3, <1>4, <1>5, SameNumbers
<1> QED
  BY <1>6 DEF s, u, w

LEMMA FirstParts ==
    ASSUME NEW n \in Nat, NEW m \in Nat
    PROVE  /\ Part(0, n) \in Seq(Nat) /\ Len(Part(0, n)) = n
           /\ Part(0, n) \o Part(n, m) = Part(0, n + m)
<1>1. PICK z \in Nat : z = 0
  OBVIOUS
<1>2. Part(z, n) \in Seq(Nat) /\ Len(Part(z, n)) = n
  BY PartType
<1>3. Part(z, n) \o Part(z + n, m) = Part(z, n + m)
  BY PartsMeet
<1>4. z + n = n
  BY <1>1
<1> QED
  BY <1>1, <1>2, <1>3, <1>4

-----------------------------------------------------------------------------
(* Sealed blocks in a sequence *)

Bytes == [key : {"header", "pad", "full", "size", "junk"}, nonce : Nat, pt : Seq(Nat), k : Nat]
ByteSeqs == Seq(Bytes)

Sits(w, p, ct) ==
    /\ p \in Nat /\ p + Len(ct) <= Len(w)
    /\ \A k \in 1..Len(ct) : w[p + k] = ct[k]

LEMMA SealType ==
    ASSUME NEW key \in {"full", "size"}, NEW n \in Nat, NEW pt \in Seq(Nat)
    PROVE  /\ Pkt!Seal(key, n, pt) \in ByteSeqs
           /\ Len(Pkt!Seal(key, n, pt)) = Len(pt) + TagSize
           /\ \A k \in 1..(Len(pt) + TagSize) : Pkt!Seal(key, n, pt)[k] = Pkt!Byte(key, n, pt, k)
<1>1. Len(pt) + TagSize \in Nat
  BY PacketAssumption
<1>2. \A k \in 1..(Len(pt) + TagSize) : Pkt!Byte(key, n, pt, k) \in Bytes
  BY DEF Pkt!Byte, Bytes
<1> QED
  BY <1>1, <1>2 DEF Pkt!Seal, ByteSeqs

LEMMA HeaderType ==
    /\ Pkt!Header \in ByteSeqs /\ Len(Pkt!Header) = PktEncOverhead
    /\ \A k \in 1..PktEncOverhead : Pkt!Header[k] = Pkt!Byte("header", 0, <<>>, k)
<1>1. \A k \in 1..PktEncOverhead : Pkt!Byte("header", 0, <<>>, k) \in Bytes
  BY DEF Pkt!Byte, Bytes
<1> QED
  BY <1>1, PacketAssumption DEF Pkt!Header, ByteSeqs

LEMMA XofType ==
    ASSUME NEW n \in Nat
    PROVE  /\ Pkt!Xof(n) \in ByteSeqs /\ Len(Pkt!Xof(n)) = n
           /\ \A k \in 1..n : Pkt!Xof(n)[k] = Pkt!Byte("pad", 0, <<>>, k)
<1>1. \A k \in 1..n : Pkt!Byte("pad", 0, <<>>, k) \in Bytes
  BY DEF Pkt!Byte, Bytes
<1> QED
  BY <1>1 DEF Pkt!Xof, ByteSeqs

LEMMA Joins ==
    ASSUME NEW a \in ByteSeqs, NEW b \in ByteSeqs
    PROVE  /\ a \o b \in ByteSeqs /\ Len(a \o b) = Len(a) + Len(b)
           /\ Len(a) \in Nat /\ Len(b) \in Nat
           /\ \A k \in 1..Len(a) : (a \o b)[k] = a[k]
           /\ \A k \in 1..Len(b) : (a \o b)[Len(a) + k] = b[k]
<1>1. /\ a \o b \in ByteSeqs /\ Len(a \o b) = Len(a) + Len(b)
      /\ \A k \in 1..(Len(a) + Len(b)) : (a \o b)[k] = IF k <= Len(a) THEN a[k] ELSE b[k - Len(a)]
  BY ConcatProperties DEF ByteSeqs
<1>2. Len(a) \in Nat /\ Len(b) \in Nat
  BY DEF ByteSeqs
<1> QED
  BY <1>1, <1>2

LEMMA SitsInFirst ==
    ASSUME NEW a \in ByteSeqs, NEW b \in ByteSeqs, NEW p, NEW ct \in ByteSeqs, Sits(a, p, ct)
    PROVE  Sits(a \o b, p, ct)
<1>1. Len(ct) \in Nat /\ p \in Nat /\ p + Len(ct) <= Len(a)
      /\ \A k \in 1..Len(ct) : a[p + k] = ct[k]
  BY DEF ByteSeqs, Sits
<1>2. p + Len(ct) <= Len(a \o b)
  BY <1>1, Joins
<1>3. \A k \in 1..Len(ct) : (a \o b)[p + k] = ct[k]
  <2> TAKE k \in 1..Len(ct)
  <2>1. p + k \in 1..Len(a)
    BY <1>1, Joins
  <2>2. (a \o b)[p + k] = a[p + k]
    BY <2>1, Joins
  <2> QED
    BY <1>1, <2>2
<1> QED
  BY <1>1, <1>2, <1>3 DEF Sits

LEMMA SitsBehind ==
    ASSUME NEW a \in ByteSeqs, NEW b \in ByteSeqs, NEW p, NEW ct \in ByteSeqs, Sits(b, p, ct)
    PROVE  Sits(a \o b, Len(a) + p, ct)
<1>1. Len(ct) \in Nat /\ p \in Nat /\ p + Len(ct) <= Len(b)
      /\ \A k \in 1..Len(ct) : b[p + k] = ct[k]
  BY DEF ByteSeqs, Sits
<1>2. Len(a) + p \in Nat /\ Len(a) + p + Len(ct) <= Len(a \o b)
  <2>1. Len(a) \in Nat /\ Len(b) \in Nat /\ Len(a \o b) = Len(a) + Len(b)
    BY Joins
  <2> QED
    BY <1>1, <2>1
<1>3. \A k \in 1..Len(ct) : (a \o b)[Len(a) + p + k] = ct[k]
  <2> TAKE k \in 1..Len(ct)
  <2>1. p + k \in 1..Len(b)
    <3>1. Len(b) \in Nat
      BY Joins
    <3> QED
      BY <1>1, <3>1
  <2>2. (a \o b)[Len(a) + (p + k)] = b[p + k]
    BY <2>1, Joins
  <2>3. Len(a) + (p + k) = Len(a) + p + k
    BY <1>1, Joins
  <2> QED
    BY <1>1, <2>2, <2>3
<1> QED
  BY <1>2, <1>3 DEF Sits

LEMMA SitsWhole ==
    ASSUME NEW a \in ByteSeqs
    PROVE  Sits(a, 0, a)
BY DEF ByteSeqs, Sits

-----------------------------------------------------------------------------
(* The layout of a packet *)

\* What is left of n bytes when whole blocks are taken, and where the last text
\* begins in the payload.
Whole(n)  == n \div EncBlkSize
Rest(n)   == n - Whole(n) * EncBlkSize
Fits(n)   == Rest(n) <= Pkt!Room
LastAt(n) == IF Fits(n) THEN Whole(n) * EncBlkSize ELSE Whole(n) * EncBlkSize + Pkt!Room
Zeroed(n, pad) == Pkt!PadZeros(Pkt!Plain(n), pad)
RestText(n, pad) == Part(LastAt(n), n - LastAt(n)) \o Pkt!Zeros(Zeroed(n, pad))
Pos(n) == PktEncOverhead + n * Pkt!Sealed

LEMMA Sizes ==
    /\ EncBlkSize \in Nat /\ EncBlkSize > 2 /\ TagSize \in Nat /\ TagSize > 0
    /\ PktEncOverhead \in Nat
    /\ Pkt!Sealed = EncBlkSize + TagSize /\ Pkt!Sealed \in Nat
    /\ Pkt!Room = EncBlkSize - 2 /\ Pkt!Room \in Nat \ {0}
BY PacketAssumption DEF Pkt!Sealed, Pkt!Room, Pkt!PktSizeOverhead

LEMMA Divided ==
    ASSUME NEW n \in Nat
    PROVE  /\ Whole(n) \in Nat /\ Rest(n) \in 0..(EncBlkSize - 1)
           /\ Whole(n) * EncBlkSize \in Nat /\ Whole(n) * EncBlkSize + Rest(n) = n
           /\ LastAt(n) \in 0..n
           /\ Fits(n) => n - LastAt(n) = Rest(n) /\ LastAt(n) = Whole(n) * EncBlkSize
           /\ ~Fits(n) => /\ n - LastAt(n) = 1 /\ Rest(n) = EncBlkSize - 1
                          /\ LastAt(n) = Whole(n) * EncBlkSize + Pkt!Room
<1>1. EncBlkSize \in Nat \ {0} /\ EncBlkSize > 2 /\ Pkt!Room = EncBlkSize - 2
  BY Sizes
<1>2. /\ n \div EncBlkSize \in Nat /\ n % EncBlkSize \in 0..(EncBlkSize - 1)
      /\ n = EncBlkSize * (n \div EncBlkSize) + (n % EncBlkSize)
  BY <1>1, Quotient
<1>3. EncBlkSize * (n \div EncBlkSize) = (n \div EncBlkSize) * EncBlkSize
  BY <1>1, <1>2
<1>4. (n \div EncBlkSize) * EncBlkSize \in Int
  BY <1>1, <1>2
<1>5. Rest(n) = n % EncBlkSize
  BY <1>2, <1>3, <1>4 DEF Rest, Whole
<1> DEFINE W == (n \div EncBlkSize) * EncBlkSize
<1>6. W = n - Rest(n) /\ W \in Nat
  BY <1>1, <1>2, <1>3, <1>4, <1>5
<1>7. Whole(n) * EncBlkSize = W /\ Whole(n) \in Nat
  BY <1>2 DEF Whole
<1> HIDE DEF W
<1>8. /\ Fits(n) <=> Rest(n) <= Pkt!Room
      /\ LastAt(n) = IF Fits(n) THEN W ELSE W + Pkt!Room
  BY <1>7 DEF Fits, LastAt
<1>9. /\ LastAt(n) \in 0..n
      /\ Fits(n) => n - LastAt(n) = Rest(n) /\ LastAt(n) = W
      /\ ~Fits(n) => /\ n - LastAt(n) = 1 /\ Rest(n) = EncBlkSize - 1
                     /\ LastAt(n) = W + Pkt!Room
  <2>1. Rest(n) \in 0..(EncBlkSize - 1)
    BY <1>2, <1>5
  <2>2. CASE Fits(n)
    BY <1>1, <1>6, <1>8, <2>1, <2>2
  <2>3. CASE ~Fits(n)
    BY <1>1, <1>6, <1>8, <2>1, <2>3
  <2> QED
    BY <2>2, <2>3
<1> QED
  BY <1>2, <1>5, <1>6, <1>7, <1>9

LEMMA PlainText ==
    ASSUME NEW n \in Nat
    PROVE  /\ Pkt!Plain(n) = Part(0, n) /\ Pkt!Plain(n) \in Seq(Nat) /\ Len(Pkt!Plain(n)) = n
           /\ Pkt!Whole(Pkt!Plain(n)) = Whole(n)
<1>1. Pkt!Plain(n) = Part(0, n)
  BY DEF Pkt!Plain, Part
<1> QED
  BY <1>1, PartType DEF Pkt!Whole, Whole

LEMMA RemainsText ==
    ASSUME NEW n \in Nat
    PROVE  /\ Pkt!Remains(Pkt!Plain(n)) = Part(Whole(n) * EncBlkSize, Rest(n))
           /\ Len(Pkt!Remains(Pkt!Plain(n))) = Rest(n)
           /\ Pkt!Splits(Pkt!Plain(n)) <=> ~Fits(n)
<1> DEFINE W == Whole(n) * EncBlkSize
<1>1. W \in Nat /\ Rest(n) \in Nat /\ W + Rest(n) = n
  BY Divided, Sizes
<1>2. Pkt!Remains(Pkt!Plain(n)) = SubSeq(Part(0, n), W + 1, n)
  BY PlainText DEF Pkt!Remains, Pkt!Drop
<1> HIDE DEF W
<1>3. SubSeq(Part(0, n), W + 1, n) = Part(0 + (W + 1) - 1, n - (W + 1) + 1)
  <2>1. W + 1 \in 1..(n + 1) /\ n \in (W + 1 - 1)..n
    BY <1>1
  <2> QED
    BY <2>1, PartOfPart
<1>4. 0 + (W + 1) - 1 = W /\ n - (W + 1) + 1 = Rest(n)
  BY <1>1
<1>5. Pkt!Remains(Pkt!Plain(n)) = Part(W, Rest(n))
  BY <1>2, <1>3, <1>4
<1>6. Len(Pkt!Remains(Pkt!Plain(n))) = Rest(n)
  BY <1>1, <1>5, PartType
<1>7. Pkt!Splits(Pkt!Plain(n)) <=> ~Fits(n)
  BY <1>1, <1>6, Sizes DEF Pkt!Splits, Fits
<1> QED
  BY <1>5, <1>6, <1>7 DEF W

LEMMA BesideText ==
    ASSUME NEW n \in Nat
    PROVE  /\ Fits(n) => Pkt!BesideSizes(Pkt!Plain(n)) = Part(LastAt(n), n - LastAt(n))
           /\ ~Fits(n) => /\ Pkt!BesideSizes(Pkt!Plain(n)) = Part(Whole(n) * EncBlkSize, Pkt!Room)
                          /\ Pkt!Drop(Pkt!Remains(Pkt!Plain(n)), Pkt!Room)
                             = Part(LastAt(n), n - LastAt(n))
<1> DEFINE W == Whole(n) * EncBlkSize
           R == Rest(n)
           m == Pkt!Room
<1>1. W \in Nat /\ R \in Nat /\ m \in Nat /\ (Fits(n) <=> R <= m)
  BY Divided, Sizes DEF Fits
<1>2. /\ Pkt!BesideSizes(Pkt!Plain(n)) = SubSeq(Part(W, R), 1, IF m < R THEN m ELSE R)
      /\ Pkt!Drop(Pkt!Remains(Pkt!Plain(n)), m) = SubSeq(Part(W, R), m + 1, R)
  BY RemainsText DEF Pkt!BesideSizes, Pkt!Least, Pkt!Drop
<1>3. /\ Fits(n) => n - LastAt(n) = R /\ LastAt(n) = W
      /\ ~Fits(n) => n - LastAt(n) = R - m /\ LastAt(n) = W + m
  BY Divided, Sizes
<1> HIDE DEF W, R, m
<1>4. CASE Fits(n)
  <2>1. SubSeq(Part(W, R), 1, R) = Part(W + 1 - 1, R - 1 + 1)
    <3>1. 1 \in 1..(R + 1) /\ R \in (1 - 1)..R
      BY <1>1
    <3> QED
      BY <1>1, <3>1, PartOfPart
  <2>2. W + 1 - 1 = W /\ R - 1 + 1 = R /\ (IF m < R THEN m ELSE R) = R
    BY <1>1, <1>4
  <2> QED
    BY <1>2, <1>3, <1>4, <2>1, <2>2
<1>5. CASE ~Fits(n)
  <2>1. SubSeq(Part(W, R), 1, m) = Part(W + 1 - 1, m - 1 + 1)
    <3>1. 1 \in 1..(R + 1) /\ m \in (1 - 1)..R
      BY <1>1, <1>5
    <3> QED
      BY <1>1, <3>1, PartOfPart
  <2>2. SubSeq(Part(W, R), m + 1, R) = Part(W + (m + 1) - 1, R - (m + 1) + 1)
    <3> DEFINE i == m + 1
    <3>1. i \in 1..(R + 1) /\ R \in (i - 1)..R
      BY <1>1, <1>5
    <3> HIDE DEF i
    <3>2. SubSeq(Part(W, R), i, R) = Part(W + i - 1, R - i + 1)
      BY <1>1, <3>1, PartOfPart
    <3> QED
      BY <3>2 DEF i
  <2>3. /\ W + 1 - 1 = W /\ m - 1 + 1 = m /\ (IF m < R THEN m ELSE R) = m
        /\ W + (m + 1) - 1 = W + m /\ R - (m + 1) + 1 = R - m
    BY <1>1, <1>5
  <2>4. /\ Pkt!BesideSizes(Pkt!Plain(n)) = Part(W, m)
        /\ Pkt!Drop(Pkt!Remains(Pkt!Plain(n)), m) = Part(LastAt(n), n - LastAt(n))
    BY <1>2, <1>3, <1>5, <2>1, <2>2, <2>3
  <2> QED
    BY <1>5, <2>4 DEF W, m
<1> QED
  BY <1>4, <1>5

LEMMA Times ==
    ASSUME NEW a \in Nat, NEW b \in Nat, NEW c \in Nat, a <= b
    PROVE  a * c \in Nat /\ b * c \in Nat /\ a * c <= b * c /\ (a + 1) * c = a * c + c
OBVIOUS

LEMMA PlaceOf ==
    ASSUME NEW c \in Nat \ {0}, NEW b \in Nat, NEW k \in 1..c
    PROVE  (b * c + k - 1) \div c = b
<1> DEFINE s == b * c + k - 1
<1>1. b * c \in Nat /\ b * c = c * b
  OBVIOUS
<1>2. s \in Nat /\ s = c * b + (k - 1)
  BY <1>1
<1> HIDE DEF s
<1>3. s \div c \in Nat /\ s % c \in 0..(c - 1) /\ s = c * (s \div c) + (s % c)
  BY <1>2, Quotient
<1>4. c * (s \div c) \in Nat /\ c * b \in Nat
  BY <1>1, <1>3
<1>5. c * b <= c * (s \div c) + (c - 1) /\ c * (s \div c) <= c * b + (c - 1)
  BY <1>2, <1>3, <1>4
<1> DEFINE q == s \div c
<1>6. q \in Int /\ b \in Int /\ c * b <= c * q + (c - 1) /\ c * q <= c * b + (c - 1)
  BY <1>3, <1>5
<1> HIDE DEF q
<1>7. q = b
  BY <1>6, Between, Zenon
<1> QED
  BY <1>7 DEF s, q

LEMMA BlockText ==
    ASSUME NEW n \in Nat, NEW b \in Nat, b < Whole(n)
    PROVE  Pkt!Block(Pkt!Plain(n), b) = Part(b * EncBlkSize, EncBlkSize)
<1> DEFINE p == b * EncBlkSize
<1>1. EncBlkSize \in Nat \ {0} /\ Whole(n) \in Nat /\ Whole(n) * EncBlkSize \in Nat
      /\ Whole(n) * EncBlkSize <= n
  <2>1. EncBlkSize \in Nat \ {0} /\ EncBlkSize - 1 \in Nat
    BY Sizes
  <2>2. /\ Whole(n) \in Nat /\ Whole(n) * EncBlkSize \in Nat
        /\ Rest(n) \in 0..(EncBlkSize - 1) /\ Whole(n) * EncBlkSize + Rest(n) = n
    BY Divided
  <2> QED
    BY <2>1, <2>2
<1>2. p \in Nat /\ (b + 1) * EncBlkSize = p + EncBlkSize /\ p + EncBlkSize <= n
  <2>1. b + 1 \in Nat /\ b + 1 <= Whole(n)
    BY <1>1
  <2>2. (b + 1) * EncBlkSize <= Whole(n) * EncBlkSize
    BY <1>1, <2>1, Times
  <2>3. p \in Nat /\ (b + 1) * EncBlkSize = p + EncBlkSize
    BY <1>1, Times
  <2> QED
    BY <1>1, <2>2, <2>3
<1>3. Pkt!Block(Pkt!Plain(n), b) = SubSeq(Part(0, n), p + 1, p + EncBlkSize)
  BY <1>2, PlainText DEF Pkt!Block
<1> HIDE DEF p
<1> DEFINE i == p + 1
           j == p + EncBlkSize
<1>4. i \in 1..(n + 1) /\ j \in (i - 1)..n /\ 0 + i - 1 = p /\ j - i + 1 = EncBlkSize
  BY <1>1, <1>2
<1> HIDE DEF i, j
<1>5. SubSeq(Part(0, n), i, j) = Part(0 + i - 1, j - i + 1)
  BY <1>4, PartOfPart
<1>6. Pkt!Block(Pkt!Plain(n), b) = Part(p, EncBlkSize)
  BY <1>3, <1>4, <1>5 DEF i, j
<1> QED
  BY <1>6 DEF p

LEMMA BlocksLayout ==
    ASSUME NEW n \in Nat
    PROVE  LET w == Pkt!WholeBlocks(Pkt!Plain(n)) IN
           /\ w \in ByteSeqs /\ Len(w) = Whole(n) * Pkt!Sealed
           /\ \A b \in Nat : b < Whole(n) =>
                 Sits(w, b * Pkt!Sealed,
                      Pkt!Seal("full", b, Part(b * EncBlkSize, EncBlkSize)))
<1> DEFINE B == Pkt!Sealed
           F == Whole(n)
           block(b) == Pkt!Seal("full", b, Part(b * EncBlkSize, EncBlkSize))
           at(i) == block((i - 1) \div B)[i - ((i - 1) \div B) * B]
           w == Pkt!WholeBlocks(Pkt!Plain(n))
<1>1. F \in Nat /\ B \in Nat \ {0} /\ B = EncBlkSize + TagSize /\ EncBlkSize \in Nat
  BY Divided, Sizes
<1>2. \A b \in Nat : /\ block(b) \in ByteSeqs /\ Len(block(b)) = B
                     /\ \A k \in 1..B : block(b)[k] \in Bytes
  <2> TAKE b \in Nat
  <2>1. b * EncBlkSize \in Nat
    BY <1>1
  <2>2. Part(b * EncBlkSize, EncBlkSize) \in Seq(Nat)
        /\ Len(Part(b * EncBlkSize, EncBlkSize)) = EncBlkSize
    BY <1>1, <2>1, PartType
  <2> HIDE DEF B
  <2>3. block(b) \in ByteSeqs /\ Len(block(b)) = B
    BY <1>1, <2>2, SealType
  <2> HIDE DEF block
  <2> QED
    BY <2>3, ElementOfSeq DEF ByteSeqs
<1>3. F * B \in Nat
  BY <1>1
<1>4. \A i \in 1..(F * B) :
         /\ (i - 1) \div B \in Nat /\ (i - 1) \div B < F
         /\ i - ((i - 1) \div B) * B \in 1..B
  <2> TAKE i \in 1..(F * B)
  <2> DEFINE q == (i - 1) \div B
  <2> HIDE DEF F, B
  <2>1. i - 1 \in Nat
    BY <1>3
  <2>2. q \in Nat /\ (i - 1) % B \in 0..(B - 1) /\ i - 1 = B * q + ((i - 1) % B)
    BY <1>1, <2>1, Quotient
  <2> HIDE DEF q
  <2>3. B * q = q * B /\ q * B \in Nat
    BY <1>1, <2>2
  <2>4. i - q * B \in 1..B
    BY <1>1, <2>2, <2>3
  <2>5. q < F
    <3> SUFFICES ASSUME F <= q PROVE FALSE
      BY <1>1, <2>2
    <3>1. F * B <= q * B
      BY <1>1, <2>2, Times
    <3> QED
      BY <1>1, <1>3, <2>3, <2>4, <3>1
  <2> QED
    BY <2>2, <2>4, <2>5 DEF q
<1>5. w = [i \in 1..(F * B) |-> at(i)]
  <2>1. w = [i \in 1..(F * B) |->
               Pkt!Seal("full", (i - 1) \div B,
                        Pkt!Block(Pkt!Plain(n), (i - 1) \div B))[i - ((i - 1) \div B) * B]]
    BY PlainText DEF Pkt!WholeBlocks
  <2>2. \A i \in 1..(F * B) : Pkt!Block(Pkt!Plain(n), (i - 1) \div B)
            = Part(((i - 1) \div B) * EncBlkSize, EncBlkSize)
    BY <1>4, BlockText
  <2> QED
    BY <2>1, <2>2
<1> HIDE DEF B, F, block, w
<1>6. \A i \in 1..(F * B) : at(i) \in Bytes
  BY <1>2, <1>4
<1>7. w \in ByteSeqs /\ Len(w) = F * B
  <2> HIDE DEF at
  <2> QED
    BY <1>3, <1>5, <1>6 DEF ByteSeqs
<1>8. ASSUME NEW b \in Nat, b < F
      PROVE  Sits(w, b * B, block(b))
  <2>1. b * B \in Nat /\ b * B + B <= F * B
    <3>1. b + 1 \in Nat /\ b + 1 <= F
      BY <1>1, <1>8
    <3>2. (b + 1) * B <= F * B
      BY <1>1, <3>1, Times
    <3>3. b * B \in Nat /\ (b + 1) * B = b * B + B
      BY <1>1, Times
    <3> QED
      BY <3>2, <3>3
  <2>2. \A k \in 1..B : w[b * B + k] = block(b)[k]
    <3> TAKE k \in 1..B
    <3> DEFINE i == b * B + k
    <3>1. i \in 1..(F * B)
      BY <1>1, <1>3, <2>1
    <3>2. (i - 1) \div B = b
      BY <1>1, PlaceOf
    <3>3. i - b * B = k
      BY <1>1, <2>1
    <3> HIDE DEF i
    <3>4. w[i] = at(i)
      BY <1>5, <3>1
    <3>5. at(i) = block(b)[k]
      BY <3>2, <3>3
    <3> QED
      BY <3>4, <3>5 DEF i
  <2>3. Len(block(b)) = B
    BY <1>2
  <2> QED
    BY <1>7, <2>1, <2>2, <2>3 DEF Sits
<1> QED
  BY <1>7, <1>8 DEF w, F, B, block

LEMMA ZerosType ==
    ASSUME NEW n \in Nat
    PROVE  /\ Pkt!Zeros(n) \in Seq(Nat) /\ Len(Pkt!Zeros(n)) = n
           /\ \A k \in 1..n : Pkt!Zeros(n)[k] = 0
BY DEF Pkt!Zeros

LEMMA Texts ==
    ASSUME NEW s \in Seq(Nat), NEW t \in Seq(Nat)
    PROVE  s \o t \in Seq(Nat) /\ Len(s \o t) = Len(s) + Len(t)
           /\ Len(s) \in Nat /\ Len(t) \in Nat
BY ConcatProperties

LEMMA Pair ==
    ASSUME NEW a \in Nat, NEW b \in Nat
    PROVE  <<a, b>> \in Seq(Nat) /\ Len(<<a, b>>) = 2
OBVIOUS

\* The last text is a whole block if any padding is left for behind it.
LEMMA LastTexts ==
    ASSUME NEW n \in Nat, NEW pad \in Nat
    PROVE  LET z == Zeroed(n, pad)
               rest == RestText(n, pad)
               last == Pkt!LastText(Pkt!Plain(n), pad)
           IN  /\ z \in 0..pad
               /\ rest \in Seq(Nat) /\ Len(rest) = n - LastAt(n) + z
               /\ last \in Seq(Nat) /\ Len(last) <= EncBlkSize
               /\ z < pad => Len(last) = EncBlkSize
               /\ Fits(n) => last = <<n, pad>> \o rest /\ Len(last) = 2 + Len(rest)
               /\ ~Fits(n) =>
                     /\ last = rest
                     /\ Pkt!SizeText(Pkt!Plain(n), pad)
                        = <<n, pad>> \o Part(Whole(n) * EncBlkSize, Pkt!Room)
<1> DEFINE z == Zeroed(n, pad)
           end == Part(LastAt(n), n - LastAt(n))
           m == n - LastAt(n)
           d == Pkt!Plain(n)
<1>1. /\ LastAt(n) \in Nat /\ m \in Nat
      /\ Fits(n) => m <= EncBlkSize - 2
      /\ ~Fits(n) => m = 1
  <2>1. /\ LastAt(n) \in 0..n /\ Rest(n) \in Int /\ Pkt!Room = EncBlkSize - 2
        /\ Fits(n) => m = Rest(n) /\ Rest(n) <= Pkt!Room
        /\ ~Fits(n) => m = 1
    BY Divided, Sizes DEF Fits
  <2> QED
    BY <2>1
<1>2. end \in Seq(Nat) /\ Len(end) = m
  BY <1>1, PartType
<1>3. /\ Fits(n) => Pkt!Last(d, pad) = <<n, pad>> \o end
      /\ ~Fits(n) => /\ Pkt!Last(d, pad) = end
                     /\ Pkt!SizeText(d, pad)
                        = <<n, pad>> \o Part(Whole(n) * EncBlkSize, Pkt!Room)
  BY BesideText, PlainText, RemainsText DEF Pkt!Last, Pkt!SizeText
<1>4. /\ z = LET room == EncBlkSize - Len(Pkt!Last(d, pad))
             IN  IF pad < room THEN pad ELSE room
      /\ Pkt!LastText(d, pad) = Pkt!Last(d, pad) \o Pkt!Zeros(z)
      /\ RestText(n, pad) = end \o Pkt!Zeros(z)
  BY DEF Zeroed, Pkt!PadZeros, Pkt!Least, Pkt!LastText, RestText
<1> HIDE DEF z, end, m, d
<1>5. EncBlkSize \in Nat /\ EncBlkSize > 2
  BY Sizes
<1>6. CASE Fits(n)
  <2>1. <<n, pad>> \in Seq(Nat) /\ Len(<<n, pad>>) = 2
    BY Pair
  <2>2. <<n, pad>> \o end \in Seq(Nat) /\ Len(<<n, pad>> \o end) = 2 + m
    BY <1>2, <2>1, Texts
  <2>3. z = IF pad < EncBlkSize - (2 + m) THEN pad ELSE EncBlkSize - (2 + m)
    BY <1>3, <1>4, <1>6, <2>2
  <2>4. z \in 0..pad /\ 2 + m + z <= EncBlkSize /\ (z < pad => 2 + m + z = EncBlkSize)
    BY <1>1, <1>5, <1>6, <2>3
  <2>5. Pkt!Zeros(z) \in Seq(Nat) /\ Len(Pkt!Zeros(z)) = z
    BY <2>4, ZerosType
  <2>6. end \o Pkt!Zeros(z) \in Seq(Nat) /\ Len(end \o Pkt!Zeros(z)) = m + z
    BY <1>2, <2>5, Texts
  <2>7. (<<n, pad>> \o end) \o Pkt!Zeros(z) = <<n, pad>> \o (end \o Pkt!Zeros(z))
    BY <1>2, <2>1, <2>5, ConcatAssociative
  <2>8. /\ <<n, pad>> \o (end \o Pkt!Zeros(z)) \in Seq(Nat)
        /\ Len(<<n, pad>> \o (end \o Pkt!Zeros(z))) = 2 + (m + z)
    BY <2>1, <2>6, Texts
  <2>9. Pkt!LastText(d, pad) = <<n, pad>> \o RestText(n, pad)
    BY <1>3, <1>4, <1>6, <2>7
  <2>10. /\ RestText(n, pad) \in Seq(Nat) /\ Len(RestText(n, pad)) = m + z
         /\ Pkt!LastText(d, pad) \in Seq(Nat) /\ Len(Pkt!LastText(d, pad)) = 2 + (m + z)
    BY <1>4, <2>6, <2>8, <2>9
  <2>11. m + z = n - LastAt(n) + z
    BY DEF m
  <2>12. /\ Len(Pkt!LastText(d, pad)) <= EncBlkSize
         /\ z < pad => Len(Pkt!LastText(d, pad)) = EncBlkSize
         /\ Len(Pkt!LastText(d, pad)) = 2 + Len(RestText(n, pad))
    BY <1>1, <2>4, <2>10
  <2> QED
    BY <1>6, <2>4, <2>9, <2>10, <2>11, <2>12 DEF z, d
<1>7. CASE ~Fits(n)
  <2>3. z = IF pad < EncBlkSize - m THEN pad ELSE EncBlkSize - m
    BY <1>2, <1>3, <1>4, <1>7
  <2>4. z \in 0..pad /\ m + z <= EncBlkSize /\ (z < pad => m + z = EncBlkSize)
    BY <1>1, <1>5, <1>7, <2>3
  <2>5. Pkt!Zeros(z) \in Seq(Nat) /\ Len(Pkt!Zeros(z)) = z
    BY <2>4, ZerosType
  <2>6. end \o Pkt!Zeros(z) \in Seq(Nat) /\ Len(end \o Pkt!Zeros(z)) = m + z
    BY <1>2, <2>5, Texts
  <2>7. Pkt!LastText(d, pad) = RestText(n, pad)
    BY <1>3, <1>4, <1>7
  <2>8. m + z = n - LastAt(n) + z
    BY DEF m
  <2>9. /\ RestText(n, pad) \in Seq(Nat) /\ Len(RestText(n, pad)) = m + z
        /\ Len(RestText(n, pad)) <= EncBlkSize
        /\ z < pad => Len(RestText(n, pad)) = EncBlkSize
    BY <1>4, <2>4, <2>6
  <2> QED
    BY <1>3, <1>7, <2>4, <2>7, <2>8, <2>9 DEF z, d
<1> QED
  BY <1>6, <1>7

Sent(n, pad) == Pkt!Encrypted(Pkt!Plain(n), pad)

LEMMA Layout ==
    ASSUME NEW n \in Nat, NEW pad \in Nat
    PROVE  LET w == Sent(n, pad)
               z == Zeroed(n, pad)
               F == Whole(n)
               rest == RestText(n, pad)
           IN  /\ w \in ByteSeqs
               /\ Sits(w, 0, Pkt!Header)
               /\ \A b \in Nat : b < F =>
                     Sits(w, Pos(b), Pkt!Seal("full", b, Part(b * EncBlkSize, EncBlkSize)))
               /\ Fits(n) =>
                     /\ Sits(w, Pos(F), Pkt!Seal("size", F, <<n, pad>> \o rest))
                     /\ Len(w) = Pos(F) + (2 + Len(rest)) + TagSize + (pad - z)
               /\ ~Fits(n) =>
                     /\ Sits(w, Pos(F), Pkt!Seal("size", F,
                                            <<n, pad>> \o Part(F * EncBlkSize, Pkt!Room)))
                     /\ Sits(w, Pos(F) + Pkt!Sealed, Pkt!Seal("full", F + 1, rest))
                     /\ Len(w) = Pos(F) + Pkt!Sealed + Len(rest) + TagSize + (pad - z)
               /\ Sits(w, Len(w) - (pad - z), Pkt!Xof(pad - z))
<1> DEFINE F == Whole(n)
           B == Pkt!Sealed
           z == Zeroed(n, pad)
           rest == RestText(n, pad)
           blocks == Pkt!WholeBlocks(Pkt!Plain(n))
           front == Pkt!Header \o blocks
           text == IF Fits(n) THEN <<n, pad>> \o rest
                              ELSE <<n, pad>> \o Part(F * EncBlkSize, Pkt!Room)
           one == Pkt!Seal("size", F, text)
           two == Pkt!Seal("full", F + 1, rest)
           mid == IF Fits(n) THEN one ELSE one \o two
           pads == Pkt!Xof(pad - z)
           w == Sent(n, pad)
<1>1. /\ F \in Nat /\ B \in Nat /\ PktEncOverhead \in Nat /\ F * B \in Nat
      /\ F * EncBlkSize \in Nat /\ Pkt!Room \in Nat /\ TagSize \in Nat
      /\ B = EncBlkSize + TagSize /\ Pkt!Room = EncBlkSize - 2 /\ EncBlkSize \in Nat
  <2>1. F \in Nat /\ F * EncBlkSize \in Nat
    BY Divided
  <2>2. /\ B \in Nat /\ PktEncOverhead \in Nat /\ Pkt!Room \in Nat /\ TagSize \in Nat
        /\ B = EncBlkSize + TagSize /\ Pkt!Room = EncBlkSize - 2 /\ EncBlkSize \in Nat
    BY Sizes
  <2>3. F * B \in Nat
    BY <2>1, <2>2
  <2> QED
    BY <2>1, <2>2, <2>3
<1>2. /\ z \in 0..pad /\ rest \in Seq(Nat) /\ Len(rest) \in Nat
      /\ Fits(n) => Pkt!LastText(Pkt!Plain(n), pad) = <<n, pad>> \o rest
      /\ ~Fits(n) =>
            /\ Pkt!LastText(Pkt!Plain(n), pad) = rest
            /\ Pkt!SizeText(Pkt!Plain(n), pad) = <<n, pad>> \o Part(F * EncBlkSize, Pkt!Room)
  <2>1. /\ z \in 0..pad /\ rest \in Seq(Nat)
        /\ Fits(n) => Pkt!LastText(Pkt!Plain(n), pad) = <<n, pad>> \o rest
        /\ ~Fits(n) =>
              /\ Pkt!LastText(Pkt!Plain(n), pad) = rest
              /\ Pkt!SizeText(Pkt!Plain(n), pad)
                 = <<n, pad>> \o Part(F * EncBlkSize, Pkt!Room)
    BY LastTexts
  <2> HIDE DEF rest
  <2>2. Len(rest) \in Nat
    BY <2>1
  <2> QED
    BY <2>1, <2>2
<1>3. w = (front \o mid) \o pads
  BY <1>2, PlainText, RemainsText DEF Sent, Pkt!Encrypted, Zeroed
<1>4. /\ text \in Seq(Nat)
      /\ Fits(n) => Len(text) = 2 + Len(rest)
      /\ ~Fits(n) => Len(text) = EncBlkSize
  <2>1. <<n, pad>> \in Seq(Nat) /\ Len(<<n, pad>>) = 2
    BY Pair
  <2>2. /\ Part(F * EncBlkSize, Pkt!Room) \in Seq(Nat)
        /\ Len(Part(F * EncBlkSize, Pkt!Room)) = Pkt!Room
    BY <1>1, PartType
  <2> HIDE DEF rest, F
  <2>3. /\ <<n, pad>> \o rest \in Seq(Nat) /\ Len(<<n, pad>> \o rest) = 2 + Len(rest)
    BY <1>2, <2>1, Texts
  <2>4. /\ <<n, pad>> \o Part(F * EncBlkSize, Pkt!Room) \in Seq(Nat)
        /\ Len(<<n, pad>> \o Part(F * EncBlkSize, Pkt!Room)) = 2 + Pkt!Room
    BY <2>1, <2>2, Texts
  <2> QED
    BY <1>1, <2>3, <2>4
<1>5. one \in ByteSeqs /\ Len(one) = Len(text) + TagSize
  <2> HIDE DEF text, F
  <2> QED
    BY <1>1, <1>4, SealType
<1>6. two \in ByteSeqs /\ Len(two) = Len(rest) + TagSize
  <2> HIDE DEF rest, F
  <2>1. F + 1 \in Nat
    BY <1>1
  <2> QED
    BY <1>2, <2>1, SealType
<1>7. pads \in ByteSeqs /\ Len(pads) = pad - z
  <2> HIDE DEF z
  <2>1. pad - z \in Nat
    BY <1>2
  <2> QED
    BY <2>1, XofType
<1>8. Pkt!Header \in ByteSeqs /\ Len(Pkt!Header) = PktEncOverhead
  BY HeaderType
<1>9. /\ blocks \in ByteSeqs /\ Len(blocks) = F * B
      /\ \A b \in Nat : b < F =>
            Sits(blocks, b * B, Pkt!Seal("full", b, Part(b * EncBlkSize, EncBlkSize)))
  BY BlocksLayout
<1>10. \A b \in Nat : Pos(b) = PktEncOverhead + b * B
  BY DEF Pos
<1>11. \A b \in Nat : Pkt!Seal("full", b, Part(b * EncBlkSize, EncBlkSize)) \in ByteSeqs
  <2> TAKE b \in Nat
  <2>1. b * EncBlkSize \in Nat
    BY <1>1
  <2>2. Part(b * EncBlkSize, EncBlkSize) \in Seq(Nat)
    BY <1>1, <2>1, PartType
  <2> QED
    BY <2>2, SealType
<1> HIDE DEF one, two, text, pads, blocks, F, B, z, rest, w
<1>12. /\ front \in ByteSeqs /\ Len(front) = PktEncOverhead + F * B
       /\ Sits(front, 0, Pkt!Header)
       /\ \A b \in Nat : b < F =>
             Sits(front, Pos(b), Pkt!Seal("full", b, Part(b * EncBlkSize, EncBlkSize)))
  <2>1. front \in ByteSeqs /\ Len(front) = PktEncOverhead + F * B
    BY <1>8, <1>9, Joins
  <2>2. Sits(front, 0, Pkt!Header)
    BY <1>8, <1>9, SitsWhole, SitsInFirst
  <2>3. ASSUME NEW b \in Nat, b < F
        PROVE  Sits(front, Pos(b), Pkt!Seal("full", b, Part(b * EncBlkSize, EncBlkSize)))
    <3> DEFINE ct == Pkt!Seal("full", b, Part(b * EncBlkSize, EncBlkSize))
    <3>1. ct \in ByteSeqs /\ Sits(blocks, b * B, ct)
      BY <1>9, <1>11, <2>3
    <3> HIDE DEF ct
    <3>2. Sits(front, Len(Pkt!Header) + b * B, ct)
      BY <1>8, <1>9, <3>1, SitsBehind
    <3> QED
      BY <1>8, <1>10, <3>2 DEF ct
  <2> QED
    BY <2>1, <2>2, <2>3
<1>13. Len(front) = Pos(F) /\ Pos(F) \in Nat
  BY <1>1, <1>10, <1>12
<1>14. /\ mid \in ByteSeqs /\ Sits(mid, 0, one)
       /\ ~Fits(n) => Sits(mid, B, two)
       /\ Fits(n) => Len(mid) = (2 + Len(rest)) + TagSize
       /\ ~Fits(n) => Len(mid) = B + Len(rest) + TagSize
  <2>1. CASE Fits(n)
    BY <1>4, <1>5, <2>1, SitsWhole
  <2>2. CASE ~Fits(n)
    <3>1. Len(one) = B
      BY <1>1, <1>4, <1>5, <2>2
    <3>2. one \o two \in ByteSeqs /\ Len(one \o two) = B + (Len(rest) + TagSize)
      BY <1>5, <1>6, <3>1, Joins
    <3>3. Sits(one \o two, 0, one)
      BY <1>5, <1>6, SitsWhole, SitsInFirst
    <3>4. Sits(one \o two, B + 0, two)
      BY <1>5, <1>6, <3>1, SitsWhole, SitsBehind
    <3> QED
      BY <1>1, <1>2, <2>2, <3>2, <3>3, <3>4
  <2> QED
    BY <2>1, <2>2
<1> DEFINE body == front \o mid
<1> HIDE DEF front, mid
<1>15. /\ body \in ByteSeqs /\ Len(body) = Pos(F) + Len(mid) /\ Len(mid) \in Nat
       /\ Sits(body, 0, Pkt!Header)
       /\ \A b \in Nat : b < F =>
             Sits(body, Pos(b), Pkt!Seal("full", b, Part(b * EncBlkSize, EncBlkSize)))
       /\ Sits(body, Pos(F) + 0, one)
       /\ ~Fits(n) => Sits(body, Pos(F) + B, two)
  <2>1. body \in ByteSeqs /\ Len(body) = Pos(F) + Len(mid) /\ Len(mid) \in Nat
    BY <1>12, <1>13, <1>14, Joins
  <2>2. Sits(body, 0, Pkt!Header)
    BY <1>8, <1>12, <1>14, SitsInFirst
  <2>3. ASSUME NEW b \in Nat, b < F
        PROVE  Sits(body, Pos(b), Pkt!Seal("full", b, Part(b * EncBlkSize, EncBlkSize)))
    BY <1>11, <1>12, <1>14, <2>3, SitsInFirst
  <2>4. Sits(body, Pos(F) + 0, one)
    BY <1>5, <1>12, <1>13, <1>14, SitsBehind
  <2>5. ~Fits(n) => Sits(body, Pos(F) + B, two)
    BY <1>6, <1>12, <1>13, <1>14, SitsBehind
  <2> QED
    BY <2>1, <2>2, <2>3, <2>4, <2>5
<1>16. w = body \o pads
  BY <1>3
<1> HIDE DEF body
<1>17. /\ w \in ByteSeqs /\ Len(w) = Len(body) + (pad - z)
       /\ Sits(w, 0, Pkt!Header)
       /\ \A b \in Nat : b < F =>
             Sits(w, Pos(b), Pkt!Seal("full", b, Part(b * EncBlkSize, EncBlkSize)))
       /\ Sits(w, Pos(F), one)
       /\ ~Fits(n) => Sits(w, Pos(F) + B, two)
       /\ Sits(w, Len(body), pads)
  <2>1. w \in ByteSeqs /\ Len(w) = Len(body) + (pad - z)
    BY <1>7, <1>15, <1>16, Joins
  <2>2. Sits(w, 0, Pkt!Header)
    BY <1>7, <1>8, <1>15, <1>16, SitsInFirst
  <2>3. ASSUME NEW b \in Nat, b < F
        PROVE  Sits(w, Pos(b), Pkt!Seal("full", b, Part(b * EncBlkSize, EncBlkSize)))
    BY <1>7, <1>11, <1>15, <1>16, <2>3, SitsInFirst
  <2>4. Sits(w, Pos(F) + 0, one)
    BY <1>5, <1>7, <1>15, <1>16, SitsInFirst
  <2>5. ~Fits(n) => Sits(w, Pos(F) + B, two)
    BY <1>6, <1>7, <1>15, <1>16, SitsInFirst
  <2>6. Sits(w, Len(body) + 0, pads)
    BY <1>7, <1>15, <1>16, SitsWhole, SitsBehind
  <2>7. Pos(F) + 0 = Pos(F) /\ Len(body) + 0 = Len(body)
    BY <1>13, <1>15
  <2> QED
    BY <2>1, <2>2, <2>3, <2>4, <2>5, <2>6, <2>7
<1>18. Len(w) - (pad - z) = Len(body)
  BY <1>2, <1>13, <1>15, <1>17
<1>19. /\ Fits(n) => Len(w) = Pos(F) + (2 + Len(rest)) + TagSize + (pad - z)
       /\ ~Fits(n) => Len(w) = Pos(F) + B + Len(rest) + TagSize + (pad - z)
  <2>1. Len(w) = Pos(F) + Len(mid) + (pad - z)
    BY <1>15, <1>17
  <2>2. Pos(F) \in Nat /\ B \in Nat /\ Len(rest) \in Nat /\ TagSize \in Nat
    BY <1>1, <1>2, <1>13
  <2>3. Fits(n) => Len(w) = Pos(F) + (2 + Len(rest)) + TagSize + (pad - z)
    <3>1. \A p, a, b, c \in Int : p + (a + b) + c = p + a + b + c
      OBVIOUS
    <3>2. pad - z \in Int /\ 2 + Len(rest) \in Int
      BY <1>2
    <3> QED
      BY <1>14, <2>1, <2>2, <3>1, <3>2
  <2>4. ~Fits(n) => Len(w) = Pos(F) + B + Len(rest) + TagSize + (pad - z)
    <3>1. Len(mid) = B + Len(rest) + TagSize => Len(w) = Pos(F) + B + Len(rest) + TagSize + (pad - z)
      <4>1. \A p, a, b, c, d \in Int : p + (a + b + c) + d = p + a + b + c + d
        OBVIOUS
      <4>2. pad - z \in Int
        BY <1>2
      <4> QED
        BY <2>1, <2>2, <4>1, <4>2
    <3> QED
      BY <1>14, <3>1
  <2> QED
    BY <2>3, <2>4
<1>20. /\ Fits(n) => one = Pkt!Seal("size", F, <<n, pad>> \o rest)
       /\ ~Fits(n) => one = Pkt!Seal("size", F, <<n, pad>> \o Part(F * EncBlkSize, Pkt!Room))
       /\ two = Pkt!Seal("full", F + 1, rest)
       /\ pads = Pkt!Xof(pad - z)
  BY DEF one, two, text, pads
<1> QED
  BY <1>17, <1>18, <1>19, <1>20 DEF w, z, F, rest, B

-----------------------------------------------------------------------------
(* What is read of a packet that may have been damaged *)

Harms(w) == [kind : {"none", "more"}, at : {0}] \cup [kind : {"cut", "junk"}, at : 1..Len(w)]
Junk == Pkt!Byte("junk", 0, <<>>, 0)

\* What is not junk is as it was written, and at its place.
Stems(s, w) == \A j \in 1..Len(s) : s[j].key = "junk" \/ (j <= Len(w) /\ s[j] = w[j])
Clean(s, p) == \A j \in 1..p : s[j].key # "junk"

LEMMA Harm ==
    ASSUME NEW w \in ByteSeqs, NEW d \in Harms(w)
    PROVE  LET s == Pkt!Damaged(w, d) IN
           /\ s \in ByteSeqs /\ Stems(s, w)
           /\ d.kind = "none" => s = w
           /\ Len(w) <= Len(s) /\ Clean(s, Len(w)) => d.kind \in {"none", "more"}
<1>1. Junk \in Bytes /\ Junk.key = "junk"
  BY DEF Junk, Bytes, Pkt!Byte
<1>2. Len(w) \in Nat /\ \A j \in 1..Len(w) : w[j] \in Bytes
  BY ElementOfSeq DEF ByteSeqs
<1> HIDE DEF Bytes
<1>3. CASE d.kind = "none"
  <2>1. Pkt!Damaged(w, d) = w
    BY <1>3 DEF Pkt!Damaged
  <2> QED
    BY <1>2, <1>3, <2>1 DEF Stems
<1>4. CASE d.kind = "more"
  <2>1. Pkt!Damaged(w, d) = Append(w, Junk)
    BY <1>4 DEF Pkt!Damaged, Junk
  <2>2. /\ Append(w, Junk) \in ByteSeqs /\ Len(Append(w, Junk)) = Len(w) + 1
        /\ \A j \in 1..(Len(w) + 1) :
              Append(w, Junk)[j] = IF j <= Len(w) THEN w[j] ELSE Junk
    BY <1>1, <1>2 DEF ByteSeqs
  <2> QED
    BY <1>1, <1>2, <1>4, <2>1, <2>2 DEF Stems
<1>5. CASE d.kind = "cut"
  <2>1. Pkt!Damaged(w, d) = SubSeq(w, 1, d.at - 1) /\ d.at \in 1..Len(w)
    BY <1>5 DEF Pkt!Damaged, Harms
  <2> DEFINE m == d.at - 1
  <2>2. m \in Int /\ m < Len(w) /\ m >= 0 /\ \A i \in 1..m : w[i] \in Bytes
    BY <1>2, <2>1
  <2> HIDE DEF m
  <2>3. /\ SubSeq(w, 1, m) \in Seq(Bytes)
        /\ Len(SubSeq(w, 1, m)) = IF 1 <= m THEN m - 1 + 1 ELSE 0
        /\ \A i \in 1..(m - 1 + 1) : SubSeq(w, 1, m)[i] = w[1 + i - 1]
    BY <2>2, SubSeqProperties
  <2>4. Len(SubSeq(w, 1, m)) = m /\ \A i \in 1..m : SubSeq(w, 1, m)[i] = w[i]
    BY <2>2, <2>3
  <2>5. Pkt!Damaged(w, d) = SubSeq(w, 1, m)
    BY <2>1 DEF m
  <2> QED
    BY <1>2, <1>5, <2>2, <2>3, <2>4, <2>5 DEF Stems, ByteSeqs
<1>6. CASE d.kind = "junk"
  <2>1. Pkt!Damaged(w, d) = [w EXCEPT ![d.at] = Junk] /\ d.at \in 1..Len(w)
    BY <1>6 DEF Pkt!Damaged, Harms, Junk
  <2> DEFINE s == [w EXCEPT ![d.at] = Junk]
  <2>2. /\ s \in ByteSeqs /\ Len(s) = Len(w)
        /\ \A j \in 1..Len(w) : s[j] = IF j = d.at THEN Junk ELSE w[j]
    BY <1>1, <2>1, ExceptSeq DEF ByteSeqs
  <2> HIDE DEF s
  <2>3. ~Clean(s, Len(w))
    BY <1>1, <2>1, <2>2 DEF Clean
  <2>4. Stems(s, w)
    BY <1>1, <1>2, <2>2 DEF Stems
  <2>5. Pkt!Damaged(w, d) = s
    BY <2>1 DEF s
  <2> QED
    BY <1>6, <2>2, <2>3, <2>4, <2>5
<1> QED
  BY <1>3, <1>4, <1>5, <1>6 DEF Harms

\* The first p bytes were read, and none of them is junk.
Read(d, p, s) == p \in Nat /\ p <= Len(d) /\ s = SubSeq(d, p + 1, Len(d)) /\ Clean(d, p)

Taken(s) == SubSeq(s, 1, Pkt!Least(Pkt!Sealed, Len(s)))

LEMMA SubBytes ==
    ASSUME NEW s \in ByteSeqs, NEW i \in Nat \ {0}, NEW j \in Nat, j <= Len(s), i <= j + 1
    PROVE  /\ SubSeq(s, i, j) \in ByteSeqs /\ Len(SubSeq(s, i, j)) = j - i + 1
           /\ \A k \in 1..(j - i + 1) : SubSeq(s, i, j)[k] = s[i + k - 1]
<1>1. Len(s) \in Nat /\ \A k \in 1..Len(s) : s[k] \in Bytes
  BY ElementOfSeq DEF ByteSeqs
<1>2. \A k \in i..j : s[k] \in Bytes
  BY <1>1
<1>3. /\ SubSeq(s, i, j) \in Seq(Bytes)
      /\ Len(SubSeq(s, i, j)) = IF i <= j THEN j - i + 1 ELSE 0
      /\ \A k \in 1..(j - i + 1) : SubSeq(s, i, j)[k] = s[i + k - 1]
  BY <1>2, SubSeqProperties
<1> QED
  BY <1>3 DEF ByteSeqs

LEMMA SameBytes ==
    ASSUME NEW s \in ByteSeqs, NEW t \in ByteSeqs, Len(s) = Len(t),
           \A i \in 1..Len(s) : s[i] = t[i]
    PROVE  s = t
BY SeqEqual DEF ByteSeqs

LEMMA Taking ==
    ASSUME NEW d \in ByteSeqs, NEW p, NEW s, Read(d, p, s)
    PROVE  /\ s \in ByteSeqs /\ Len(s) \in Nat /\ Len(s) = Len(d) - p
           /\ \A k \in 1..Len(s) : s[k] = d[p + k]
           /\ Taken(s) \in ByteSeqs /\ Len(Taken(s)) \in Nat
           /\ Len(Taken(s)) = IF Pkt!Sealed < Len(s) THEN Pkt!Sealed ELSE Len(s)
           /\ \A k \in 1..Len(Taken(s)) : Taken(s)[k] = d[p + k]
<1>1. p \in Nat /\ p <= Len(d) /\ s = SubSeq(d, p + 1, Len(d)) /\ Len(d) \in Nat
  BY DEF Read, ByteSeqs
<1> DEFINE i == p + 1
<1>2. i \in Nat \ {0} /\ i <= Len(d) + 1 /\ i = p + 1
  BY <1>1
<1> HIDE DEF i
<1>3. /\ SubSeq(d, i, Len(d)) \in ByteSeqs /\ Len(SubSeq(d, i, Len(d))) = Len(d) - i + 1
      /\ \A k \in 1..(Len(d) - i + 1) : SubSeq(d, i, Len(d))[k] = d[i + k - 1]
  <2>1. Len(d) \in Nat /\ Len(d) <= Len(d)
    BY <1>1
  <2> QED
    BY <1>2, <2>1, SubBytes
<1>4. s = SubSeq(d, i, Len(d))
  BY <1>1 DEF i
<1>5. s \in ByteSeqs /\ Len(s) \in Nat /\ Len(s) = Len(d) - p
  BY <1>1, <1>2, <1>3, <1>4
<1>6. \A k \in 1..Len(s) : s[k] = d[p + k]
  <2> TAKE k \in 1..Len(s)
  <2>1. k \in 1..(Len(d) - i + 1) /\ i + k - 1 = p + k
    BY <1>1, <1>2, <1>5
  <2> QED
    BY <1>3, <1>4, <2>1
<1> DEFINE m == IF Pkt!Sealed < Len(s) THEN Pkt!Sealed ELSE Len(s)
<1>7. m \in Nat /\ m <= Len(s)
  BY <1>5, Sizes
<1>8. Taken(s) = SubSeq(s, 1, m)
  BY DEF Taken, Pkt!Least
<1> HIDE DEF m
<1>9. /\ SubSeq(s, 1, m) \in ByteSeqs /\ Len(SubSeq(s, 1, m)) = m - 1 + 1
      /\ \A k \in 1..(m - 1 + 1) : SubSeq(s, 1, m)[k] = s[1 + k - 1]
  BY <1>5, <1>7, SubBytes
<1>10. Taken(s) \in ByteSeqs /\ Len(Taken(s)) = m /\ \A k \in 1..m : Taken(s)[k] = s[k]
  BY <1>7, <1>8, <1>9
<1>11. \A k \in 1..m : Taken(s)[k] = d[p + k]
  BY <1>6, <1>7, <1>10
<1> QED
  BY <1>5, <1>6, <1>7, <1>10, <1>11 DEF m

LEMMA Onward ==
    ASSUME NEW d \in ByteSeqs, NEW p, NEW s, Read(d, p, s),
           NEW m \in Nat, m <= Len(s), \A k \in 1..m : s[k].key # "junk"
    PROVE  Read(d, p + m, Pkt!Drop(s, m))
<1>1. p \in Nat /\ p <= Len(d) /\ Len(d) \in Nat /\ Clean(d, p)
  BY DEF Read, ByteSeqs
<1>2. s \in ByteSeqs /\ Len(s) = Len(d) - p /\ \A k \in 1..Len(s) : s[k] = d[p + k]
  BY Taking
<1>3. p + m \in Nat /\ p + m <= Len(d) /\ Len(s) \in Nat
  BY <1>1, <1>2
<1>4. Clean(d, p + m)
  <2> SUFFICES ASSUME NEW j \in 1..(p + m), j > p PROVE d[j].key # "junk"
    BY <1>1 DEF Clean
  <2>1. j - p \in 1..m /\ j - p \in 1..Len(s) /\ p + (j - p) = j
    BY <1>1, <1>3
  <2> QED
    BY <1>2, <2>1
<1> DEFINE i == m + 1
           q == p + m + 1
<1>5. i \in Nat \ {0} /\ q \in Nat \ {0} /\ i <= Len(s) + 1 /\ q <= Len(d) + 1
      /\ Len(s) - i + 1 = Len(d) - q + 1 /\ Len(s) - i + 1 \in Nat /\ q = p + i
  BY <1>1, <1>2, <1>3
<1> HIDE DEF i, q
<1>6. /\ SubSeq(s, i, Len(s)) \in ByteSeqs /\ Len(SubSeq(s, i, Len(s))) = Len(s) - i + 1
      /\ \A k \in 1..(Len(s) - i + 1) : SubSeq(s, i, Len(s))[k] = s[i + k - 1]
  BY <1>2, <1>3, <1>5, SubBytes
<1>7. /\ SubSeq(d, q, Len(d)) \in ByteSeqs /\ Len(SubSeq(d, q, Len(d))) = Len(d) - q + 1
      /\ \A k \in 1..(Len(d) - q + 1) : SubSeq(d, q, Len(d))[k] = d[q + k - 1]
  BY <1>1, <1>5, SubBytes
<1>8. \A k \in 1..(Len(s) - i + 1) : SubSeq(s, i, Len(s))[k] = SubSeq(d, q, Len(d))[k]
  <2> TAKE k \in 1..(Len(s) - i + 1)
  <2>1. i + k - 1 \in 1..Len(s) /\ p + (i + k - 1) = q + k - 1
    <3> DEFINE len == Len(s)
    <3>1. /\ p \in Nat /\ len \in Nat /\ i \in Nat /\ i >= 1 /\ q = p + i
          /\ k \in 1..(len - i + 1)
      BY <1>1, <1>3, <1>5
    <3> HIDE DEF len
    <3>2. i + k - 1 \in 1..len /\ p + (i + k - 1) = q + k - 1
      BY ONLY <3>1
    <3> QED
      BY <3>2 DEF len
  <2>2. s[i + k - 1] = d[q + k - 1]
    BY <1>2, <2>1
  <2> QED
    BY <1>5, <1>6, <1>7, <2>2
<1>9. SubSeq(s, i, Len(s)) = SubSeq(d, q, Len(d))
  <2> DEFINE a == SubSeq(s, i, Len(s))
             b == SubSeq(d, q, Len(d))
  <2>1. a \in ByteSeqs /\ b \in ByteSeqs /\ Len(a) = Len(b)
    BY <1>5, <1>6, <1>7
  <2>2. \A k \in 1..Len(a) : a[k] = b[k]
    BY <1>6, <1>8
  <2> HIDE DEF a, b
  <2>3. a = b
    BY <2>1, <2>2, SameBytes
  <2> QED
    BY <2>3 DEF a, b
<1> QED
  BY <1>3, <1>4, <1>9 DEF Read, Pkt!Drop, i, q

LEMMA Opened ==
    ASSUME NEW d \in ByteSeqs, NEW w \in ByteSeqs, Stems(d, w),
           NEW p, NEW s, Read(d, p, s),
           NEW key \in {"full", "size"}, NEW nonce \in Nat,
           NEW of \in {"full", "size"}, NEW n \in Nat, NEW text \in Seq(Nat),
           Sits(w, p, Pkt!Seal(of, n, text)),
           Pkt!Opens(key, nonce, Taken(s))
    PROVE  /\ key = of /\ nonce = n /\ Taken(s)[1].pt = text
           /\ Len(Taken(s)) = Len(text) + TagSize
           /\ Read(d, p + (Len(text) + TagSize), Pkt!Drop(s, Len(Taken(s))))
<1> DEFINE ct == Taken(s)
           pt == ct[1].pt
<1>1. /\ s \in ByteSeqs /\ Len(s) \in Nat /\ Len(s) = Len(d) - p
      /\ \A k \in 1..Len(s) : s[k] = d[p + k]
      /\ ct \in ByteSeqs /\ Len(ct) \in Nat
      /\ Len(ct) = IF Pkt!Sealed < Len(s) THEN Pkt!Sealed ELSE Len(s)
      /\ \A k \in 1..Len(ct) : ct[k] = d[p + k]
  BY Taking
<1>2. ct # <<>> /\ ct = Pkt!Seal(key, nonce, pt)
  BY DEF Pkt!Opens
<1> HIDE DEF ct
<1>3. Len(ct) >= 1
  BY <1>1, <1>2, EmptySeq DEF ByteSeqs
<1>4. ct[1] \in Bytes
  BY <1>1, <1>3, ElementOfSeq DEF ByteSeqs
<1>5. pt \in Seq(Nat)
  BY <1>4 DEF Bytes
<1> HIDE DEF pt
<1>6. Len(ct) = Len(pt) + TagSize /\ \A k \in 1..Len(ct) : ct[k] = Pkt!Byte(key, nonce, pt, k)
  BY <1>2, <1>5, SealType
<1>7. \A k \in 1..Len(ct) : ct[k].key = key
  BY <1>6 DEF Pkt!Byte
<1>8. p \in Nat /\ Len(d) \in Nat /\ Len(text) + TagSize \in Nat /\ Len(text) + TagSize >= 1
  BY Sizes DEF Read, ByteSeqs
<1>9. d[p + 1] = w[p + 1]
  <2>1. p + 1 \in 1..Len(d)
    BY <1>1, <1>3, <1>8
  <2>2. d[p + 1].key # "junk"
    BY <1>1, <1>3, <1>7
  <2> QED
    BY <2>1, <2>2 DEF Stems
<1>10. w[p + 1] = Pkt!Byte(of, n, text, 1)
  <2>1. /\ Len(Pkt!Seal(of, n, text)) = Len(text) + TagSize
        /\ Pkt!Seal(of, n, text)[1] = Pkt!Byte(of, n, text, 1)
    BY <1>8, SealType
  <2> QED
    BY <1>8, <2>1 DEF Sits
<1>11. Pkt!Byte(of, n, text, 1) = Pkt!Byte(key, nonce, pt, 1)
  BY <1>1, <1>3, <1>6, <1>9, <1>10
<1>12. key = of /\ nonce = n /\ pt = text
  BY <1>11 DEF Pkt!Byte
<1>13. \A k \in 1..Len(ct) : s[k].key # "junk"
  BY <1>1, <1>7, Sizes
<1>14. Len(ct) <= Len(s)
  BY <1>1, Sizes
<1>15. Read(d, p + Len(ct), Pkt!Drop(s, Len(ct)))
  BY <1>1, <1>13, <1>14, Onward
<1> QED
  BY <1>6, <1>12, <1>15 DEF ct, pt

LEMMA Completes ==
    ASSUME NEW w \in ByteSeqs, NEW p, NEW s, Read(w, p, s),
           NEW of \in {"full", "size"}, NEW n \in Nat, NEW text \in Seq(Nat),
           Sits(w, p, Pkt!Seal(of, n, text)),
           \/ Len(text) = EncBlkSize
           \/ Len(text) <= EncBlkSize /\ p + (Len(text) + TagSize) = Len(w)
    PROVE  Pkt!Opens(of, n, Taken(s)) /\ Len(Taken(s)) = Len(text) + TagSize
<1> DEFINE ct == Taken(s)
           seal == Pkt!Seal(of, n, text)
<1>1. /\ Len(s) \in Nat /\ Len(s) = Len(w) - p
      /\ ct \in ByteSeqs /\ Len(ct) \in Nat
      /\ Len(ct) = IF Pkt!Sealed < Len(s) THEN Pkt!Sealed ELSE Len(s)
      /\ \A k \in 1..Len(ct) : ct[k] = w[p + k]
  BY Taking
<1>2. /\ seal \in ByteSeqs /\ Len(seal) = Len(text) + TagSize
      /\ \A k \in 1..(Len(text) + TagSize) : seal[k] = Pkt!Byte(of, n, text, k)
  BY SealType
<1>3. /\ p \in Nat /\ p + Len(seal) <= Len(w)
      /\ \A k \in 1..Len(seal) : w[p + k] = seal[k]
  BY DEF Sits
<1>4. Len(w) \in Nat /\ Len(text) \in Nat
  BY DEF ByteSeqs
<1> HIDE DEF ct, seal
<1>5. Len(ct) = Len(seal)
  <2>1. Pkt!Sealed = EncBlkSize + TagSize /\ EncBlkSize \in Nat /\ TagSize \in Nat
    BY Sizes
  <2>2. /\ Len(s) \in Nat /\ Len(s) = Len(w) - p
        /\ Len(ct) = IF Pkt!Sealed < Len(s) THEN Pkt!Sealed ELSE Len(s)
    BY <1>1
  <2>3. p \in Nat /\ p + Len(seal) <= Len(w) /\ Len(seal) = Len(text) + TagSize
    BY <1>2, <1>3
  <2>4. CASE Len(text) = EncBlkSize
    BY <1>4, <2>1, <2>2, <2>3, <2>4
  <2>5. CASE Len(text) <= EncBlkSize /\ p + (Len(text) + TagSize) = Len(w)
    BY <1>4, <2>1, <2>2, <2>3, <2>5
  <2> QED
    BY <2>4, <2>5
<1>6. ct = seal
  BY <1>1, <1>2, <1>3, <1>5, SameBytes
<1>7. Len(seal) >= 1 /\ 1 \in 1..(Len(text) + TagSize)
  BY <1>2, <1>4, Sizes
<1>8. seal # <<>>
  BY <1>2, <1>7, EmptySeq
<1>9. seal[1].pt = text
  BY <1>2, <1>7 DEF Pkt!Byte
<1>10. Pkt!Opens(of, n, ct)
  BY <1>6, <1>8, <1>9 DEF Pkt!Opens, seal
<1> QED
  BY <1>2, <1>5, <1>10 DEF ct

-----------------------------------------------------------------------------
(* The inductive invariant of a packet's reading *)

ReadStages == {"header", "blocks", "rest", "pad", "done", "error"}
Readers == [stage : ReadStages, nonce : Nat, out : Seq(Nat), pt : Seq(Nat),
            left : Int, pad : Int]

\* How far the reader r is in a packet of n bytes, padded by pad, of which s is left.
InBlocks(n, d, s, r) ==
    /\ r.nonce <= Whole(n) /\ r.out = Part(0, r.nonce * EncBlkSize)
    /\ Read(d, Pos(r.nonce), s)
InSplit(n, d, s, r) ==
    /\ ~Fits(n)
    /\ r.nonce = Whole(n) /\ r.out = Part(0, Whole(n) * EncBlkSize)
    /\ r.left = Rest(n) /\ r.pt = Part(Whole(n) * EncBlkSize, Pkt!Room)
    /\ Read(d, Pos(Whole(n)) + Pkt!Sealed, s)
InLast(n, pad, d, s, r) ==
    /\ r.out = Part(0, LastAt(n)) /\ r.left = n - LastAt(n) /\ r.pt = RestText(n, pad)
    /\ Read(d, Len(Sent(n, pad)) - (pad - Zeroed(n, pad)), s)
InPad(n, pad, d, s, r) ==
    /\ r.out = Part(0, n)
    /\ r.pad \in 1..(pad - Zeroed(n, pad)) /\ r.left = (pad - Zeroed(n, pad)) - r.pad
    /\ Read(d, Len(Sent(n, pad)) - r.pad, s)
Reading(n, pad, harm, s, r) ==
    LET d == Pkt!Damaged(Sent(n, pad), harm) IN
    /\ r \in Readers
    /\ \E o \in 0..n : r.out = Part(0, o)
    /\ r.stage = "header" => r.nonce = 0 /\ r.out = Part(0, 0) /\ Read(d, 0, s)
    /\ r.stage = "blocks" => InBlocks(n, d, s, r)
    /\ r.stage = "rest" => r.pad = pad /\ (InSplit(n, d, s, r) \/ InLast(n, pad, d, s, r))
    /\ r.stage = "pad" => InPad(n, pad, d, s, r)
    /\ r.stage = "done" => r.out = Part(0, n) /\ harm.kind \in {"none", "more"}
    /\ r.stage = "error" => harm.kind # "none"

Padding == Pkt!sizePadCalc(Len(Pkt!Plain(payload)), minSize, 1)
PacketInvariant ==
    /\ payload \in Nat /\ minSize \in Nat /\ Padding \in Nat
    /\ damage \in Harms(Sent(payload, Padding))
    /\ Reading(payload, Padding, damage, stream, reader)

LEMMA Apart ==
    ASSUME NEW s \in Seq(Nat), NEW t \in Seq(Nat)
    PROVE  /\ SubSeq(s \o t, 1, Len(s)) = s
           /\ SubSeq(s \o t, Len(s) + 1, Len(s \o t)) = t
<1> DEFINE c == s \o t
           m == Len(s)
           l == Len(t)
           i == m + 1
<1>1. /\ c \in Seq(Nat) /\ Len(c) = m + l /\ m \in Nat /\ l \in Nat
      /\ \A k \in 1..(m + l) : c[k] = IF k <= m THEN s[k] ELSE t[k - m]
  BY ConcatProperties
<1>2. \A k \in 1..(m + l) : c[k] \in Nat
  BY <1>1, ElementOfSeq
<1> HIDE DEF c, m, l
<1>3. /\ SubSeq(c, 1, m) \in Seq(Nat)
      /\ Len(SubSeq(c, 1, m)) = IF 1 <= m THEN m - 1 + 1 ELSE 0
      /\ \A k \in 1..(m - 1 + 1) : SubSeq(c, 1, m)[k] = c[1 + k - 1]
  <2>1. 1 \in Int /\ m \in Int /\ \A k \in 1..m : c[k] \in Nat
    BY <1>1, <1>2
  <2> QED
    BY <2>1, SubSeqProperties
<1>4. SubSeq(c, 1, m) = s
  <2> DEFINE a == SubSeq(c, 1, m)
  <2>1. a \in Seq(Nat) /\ Len(a) = m /\ \A k \in 1..m : a[k] = s[k]
    BY <1>1, <1>3
  <2> HIDE DEF a
  <2>2. a = s
    BY <2>1, SameNumbers DEF m
  <2> QED
    BY <2>2 DEF a
<1>5. i \in Int /\ m + l \in Int /\ i = m + 1
  BY <1>1
<1> HIDE DEF i
<1>6. /\ SubSeq(c, i, m + l) \in Seq(Nat)
      /\ Len(SubSeq(c, i, m + l)) = IF i <= m + l THEN (m + l) - i + 1 ELSE 0
      /\ \A k \in 1..((m + l) - i + 1) : SubSeq(c, i, m + l)[k] = c[i + k - 1]
  <2>1. \A k \in i..(m + l) : c[k] \in Nat
    BY <1>1, <1>2, <1>5
  <2> DEFINE e == m + l
  <2>2. i \in Int /\ e \in Int /\ \A k \in i..e : c[k] \in Nat
    BY <1>5, <2>1
  <2> HIDE DEF e
  <2>3. /\ SubSeq(c, i, e) \in Seq(Nat)
        /\ Len(SubSeq(c, i, e)) = IF i <= e THEN e - i + 1 ELSE 0
        /\ \A k \in 1..(e - i + 1) : SubSeq(c, i, e)[k] = c[i + k - 1]
    BY <2>2, SubSeqProperties
  <2> QED
    BY <2>3 DEF e
<1>7. SubSeq(c, i, m + l) = t
  <2> DEFINE a == SubSeq(c, i, m + l)
  <2>1. a \in Seq(Nat) /\ Len(a) = l
    BY <1>1, <1>5, <1>6
  <2>2. \A k \in 1..l : a[k] = t[k]
    <3> TAKE k \in 1..l
    <3>1. k \in 1..((m + l) - i + 1) /\ i + k - 1 = m + k /\ m + k \in 1..(m + l)
          /\ ~(m + k <= m) /\ m + k - m = k
      BY <1>1, <1>5
    <3>2. a[k] = c[m + k]
      BY <1>6, <3>1
    <3>3. c[m + k] = IF m + k <= m THEN s[m + k] ELSE t[m + k - m]
      BY <1>1, <3>1
    <3>4. c[m + k] = t[k]
      BY <3>1, <3>3
    <3> QED
      BY <3>2, <3>4
  <2> HIDE DEF a
  <2>3. a = t
    BY <2>1, <2>2, SameNumbers DEF l
  <2> QED
    BY <2>3 DEF a
<1> QED
  BY <1>1, <1>4, <1>5, <1>7 DEF c, m, i

LEMMA BlockEnds ==
    ASSUME NEW b \in Nat
    PROVE  /\ Pos(b) \in Nat /\ Pos(b) + (EncBlkSize + TagSize) = Pos(b + 1)
           /\ Pos(b) + Pkt!Sealed = Pos(b + 1) /\ Pos(0) = PktEncOverhead
           /\ b * EncBlkSize \in Nat /\ (b + 1) * EncBlkSize = b * EncBlkSize + EncBlkSize
<1>1. /\ Pkt!Sealed \in Nat /\ Pkt!Sealed = EncBlkSize + TagSize
      /\ PktEncOverhead \in Nat /\ EncBlkSize \in Nat
  BY Sizes
<1>2. /\ b * Pkt!Sealed \in Nat /\ (b + 1) * Pkt!Sealed = b * Pkt!Sealed + Pkt!Sealed
      /\ b * EncBlkSize \in Nat /\ (b + 1) * EncBlkSize = b * EncBlkSize + EncBlkSize
  BY <1>1, Times
<1>3. 0 * Pkt!Sealed = 0
  BY <1>1
<1> QED
  BY <1>1, <1>2, <1>3 DEF Pos

\* What the rest of this section is about: a packet w that was written, and what
\* arrived of it.
LEMMA Arrives ==
    ASSUME NEW n \in Nat, NEW pad \in Nat, NEW harm \in Harms(Sent(n, pad))
    PROVE  LET w == Sent(n, pad)
               d == Pkt!Damaged(w, harm)
           IN  /\ w \in ByteSeqs /\ Len(w) \in Nat
               /\ d \in ByteSeqs /\ Len(d) \in Nat /\ Stems(d, w)
               /\ harm.kind = "none" => d = w
               /\ Len(w) <= Len(d) /\ Clean(d, Len(w)) => harm.kind \in {"none", "more"}
<1>1. Sent(n, pad) \in ByteSeqs
  BY Layout
<1>2. \A s \in ByteSeqs : Len(s) \in Nat
  BY DEF ByteSeqs
<1> QED
  BY <1>1, <1>2, Harm

LEMMA HeaderGoes ==
    ASSUME NEW n \in Nat, NEW pad \in Nat, NEW harm \in Harms(Sent(n, pad)),
           NEW s, NEW r, Reading(n, pad, harm, s, r), r.stage = "header"
    PROVE  LET ok == Len(s) >= PktEncOverhead /\ SubSeq(s, 1, PktEncOverhead) = Pkt!Header
           IN  Reading(n, pad, harm, Pkt!Drop(s, PktEncOverhead),
                       [r EXCEPT !.stage = IF ok THEN "blocks" ELSE "error"])
<1> DEFINE w == Sent(n, pad)
           d == Pkt!Damaged(w, harm)
           H == PktEncOverhead
           ok == Len(s) >= H /\ SubSeq(s, 1, H) = Pkt!Header
           r2 == [r EXCEPT !.stage = IF ok THEN "blocks" ELSE "error"]
<1>1. /\ w \in ByteSeqs /\ Len(w) \in Nat
      /\ d \in ByteSeqs /\ Len(d) \in Nat /\ Stems(d, w)
      /\ harm.kind = "none" => d = w
  BY Arrives
<1>2. /\ r \in Readers /\ \E o \in 0..n : r.out = Part(0, o)
      /\ r.nonce = 0 /\ r.out = Part(0, 0) /\ Read(d, 0, s)
  BY DEF Reading
<1>3. H \in Nat
  BY Sizes
<1>4. /\ Pkt!Header \in ByteSeqs /\ Len(Pkt!Header) = H
      /\ \A k \in 1..H : Pkt!Header[k] = Pkt!Byte("header", 0, <<>>, k)
  BY HeaderType
<1>5. Sits(w, 0, Pkt!Header)
  BY Layout
<1> HIDE DEF w, d, H
<1>6. /\ s \in ByteSeqs /\ Len(s) \in Nat /\ Len(s) = Len(d) - 0
      /\ \A k \in 1..Len(s) : s[k] = d[0 + k]
  BY <1>1, <1>2, Taking
<1>7. H <= Len(s) => /\ SubSeq(s, 1, H) \in ByteSeqs /\ Len(SubSeq(s, 1, H)) = H
                     /\ \A k \in 1..H : SubSeq(s, 1, H)[k] = s[k]
  <2> HAVE H <= Len(s)
  <2>1. /\ SubSeq(s, 1, H) \in ByteSeqs /\ Len(SubSeq(s, 1, H)) = H - 1 + 1
        /\ \A k \in 1..(H - 1 + 1) : SubSeq(s, 1, H)[k] = s[1 + k - 1]
    <3>1. s \in ByteSeqs /\ 1 \in Nat \ {0} /\ H \in Nat /\ H <= Len(s) /\ 1 <= H + 1
      BY <1>3, <1>6
    <3> QED
      BY ONLY <3>1, SubBytes
  <2> QED
    BY <1>3, <2>1
<1>8. CASE ok
  <2>1. \A k \in 1..H : s[k].key # "junk"
    BY <1>4, <1>7, <1>8 DEF Pkt!Byte
  <2>2. Read(d, 0 + H, Pkt!Drop(s, H))
    BY <1>1, <1>2, <1>3, <1>8, <2>1, Onward
  <2>3. 0 + H = Pos(0) /\ 0 * EncBlkSize = 0 /\ 0 <= Whole(n)
    <3>1. Pos(0) = PktEncOverhead /\ EncBlkSize \in Nat /\ Whole(n) \in Nat
      BY BlockEnds, Sizes, Divided
    <3> QED
      BY <1>3, <3>1 DEF H
  <2>4. /\ r2 \in Readers /\ r2.stage = "blocks" /\ r2.nonce = 0 /\ r2.out = Part(0, 0)
        /\ r2.out = r.out
    BY <1>2, <1>8 DEF Readers, ReadStages
  <2> HIDE DEF r2
  <2>5. InBlocks(n, d, Pkt!Drop(s, H), r2)
    BY <2>2, <2>3, <2>4 DEF InBlocks
  <2>6. Reading(n, pad, harm, Pkt!Drop(s, H), r2)
    BY <1>2, <2>4, <2>5 DEF Reading, d, w
  <2> QED
    BY <2>6 DEF r2, H
<1>9. CASE ~ok
  <2>1. harm.kind # "none"
    <3> SUFFICES ASSUME harm.kind = "none" PROVE FALSE
      OBVIOUS
    <3>1. H <= Len(s) /\ \A k \in 1..H : s[k] = Pkt!Header[k]
      BY <1>1, <1>3, <1>4, <1>5, <1>6 DEF Sits
    <3> DEFINE a == SubSeq(s, 1, H)
    <3>2. a \in ByteSeqs /\ Len(a) = H /\ \A k \in 1..H : a[k] = Pkt!Header[k]
      BY <1>7, <3>1
    <3> HIDE DEF a
    <3>3. a = Pkt!Header
      BY <1>4, <3>2, SameBytes
    <3> QED
      BY <1>3, <1>6, <1>9, <3>1, <3>3 DEF a
  <2>2. r2 \in Readers /\ r2.stage = "error" /\ r2.out = r.out
    BY <1>2, <1>9 DEF Readers, ReadStages
  <2> HIDE DEF r2
  <2>3. Reading(n, pad, harm, Pkt!Drop(s, H), r2)
    BY <1>2, <2>1, <2>2 DEF Reading
  <2> QED
    BY <2>3 DEF r2, H
<1> QED
  BY <1>8, <1>9

\* The text of the block that tells the sizes.
Besides(n, pad) ==
    IF Fits(n) THEN RestText(n, pad) ELSE Part(Whole(n) * EncBlkSize, Pkt!Room)
Heads(n, pad) == <<n, pad>> \o Besides(n, pad)

LEMMA SizeBlock ==
    ASSUME NEW n \in Nat, NEW pad \in Nat
    PROVE  LET w == Sent(n, pad)
               z == Zeroed(n, pad)
               text == Heads(n, pad)
               from == Pos(Whole(n))
           IN  /\ text \in Seq(Nat) /\ text[1] = n /\ text[2] = pad
               /\ Besides(n, pad) \in Seq(Nat) /\ Pkt!Drop(text, 2) = Besides(n, pad)
               /\ Sits(w, from, Pkt!Seal("size", Whole(n), text))
               /\ \/ Len(text) = EncBlkSize
                  \/ Len(text) <= EncBlkSize /\ from + (Len(text) + TagSize) = Len(w)
               /\ Fits(n) => from + (Len(text) + TagSize) = Len(w) - (pad - z)
               /\ ~Fits(n) => from + (Len(text) + TagSize) = from + Pkt!Sealed
<1> DEFINE w == Sent(n, pad)
           z == Zeroed(n, pad)
           rest == RestText(n, pad)
           text == Heads(n, pad)
           side == Besides(n, pad)
           from == Pos(Whole(n))
           m == Pkt!Room
           at == Whole(n) * EncBlkSize
<1>1. /\ z \in 0..pad /\ rest \in Seq(Nat)
      /\ Fits(n) => 2 + Len(rest) <= EncBlkSize /\ (z < pad => 2 + Len(rest) = EncBlkSize)
  BY LastTexts
<1>2. /\ at \in Nat /\ m \in Nat /\ m = EncBlkSize - 2 /\ EncBlkSize \in Nat
      /\ TagSize \in Nat /\ Pkt!Sealed = EncBlkSize + TagSize /\ from \in Nat
  <2>1. /\ at \in Nat /\ Whole(n) \in Nat
    BY Divided
  <2>2. /\ m \in Nat /\ m = EncBlkSize - 2 /\ EncBlkSize \in Nat
        /\ TagSize \in Nat /\ Pkt!Sealed = EncBlkSize + TagSize
    BY Sizes
  <2>3. from \in Nat
    BY <2>1, BlockEnds
  <2> QED
    BY <2>1, <2>2, <2>3
<1>3. Part(at, m) \in Seq(Nat) /\ Len(Part(at, m)) = m
  BY <1>2, PartType
<1>4. /\ Fits(n) =>
            /\ Sits(w, from, Pkt!Seal("size", Whole(n), <<n, pad>> \o rest))
            /\ Len(w) = from + (2 + Len(rest)) + TagSize + (pad - z)
      /\ ~Fits(n) => Sits(w, from, Pkt!Seal("size", Whole(n), <<n, pad>> \o Part(at, m)))
      /\ w \in ByteSeqs
  BY Layout
<1>5. side = (IF Fits(n) THEN rest ELSE Part(at, m)) /\ text = <<n, pad>> \o side
  BY DEF Heads, Besides
<1> HIDE DEF w, z, rest, text, side, from, m, at
<1>6. side \in Seq(Nat) /\ Len(side) \in Nat
  <2>1. side \in Seq(Nat)
    BY <1>1, <1>3, <1>5
  <2> QED
    BY <2>1
<1>7. <<n, pad>> \in Seq(Nat) /\ Len(<<n, pad>>) = 2
  BY Pair
<1>8. text \in Seq(Nat) /\ Len(text) = 2 + Len(side)
  BY <1>5, <1>6, <1>7, Texts
<1>9. text[1] = n /\ text[2] = pad
  <2>1. \A k \in 1..(2 + Len(side)) :
           (<<n, pad>> \o side)[k] = IF k <= 2 THEN <<n, pad>>[k] ELSE side[k - 2]
    BY <1>6, <1>7, ConcatProperties
  <2>2. 1 \in 1..(2 + Len(side)) /\ 2 \in 1..(2 + Len(side))
    BY <1>6
  <2> QED
    BY <1>5, <2>1, <2>2
<1>10. Pkt!Drop(text, 2) = side
  <2>1. SubSeq(<<n, pad>> \o side, 2 + 1, Len(<<n, pad>> \o side)) = side
    BY <1>6, <1>7, Apart
  <2> QED
    BY <1>5, <2>1 DEF Pkt!Drop
<1>11. CASE Fits(n)
  <2>1. Len(rest) \in Nat /\ side = rest /\ text = <<n, pad>> \o rest
    BY <1>1, <1>5, <1>11
  <2>2. /\ Sits(w, from, Pkt!Seal("size", Whole(n), text))
        /\ Len(w) = from + (2 + Len(rest)) + TagSize + (pad - z)
    BY <1>4, <1>11, <2>1
  <2>3. from + (Len(text) + TagSize) = Len(w) - (pad - z)
    BY <1>1, <1>2, <1>8, <2>1, <2>2
  <2>4. \/ Len(text) = EncBlkSize
        \/ Len(text) <= EncBlkSize /\ from + (Len(text) + TagSize) = Len(w)
    <3>1. Len(w) \in Int
      BY <1>4 DEF ByteSeqs
    <3>2. z < pad \/ pad - z = 0
      BY <1>1
    <3> QED
      BY <1>1, <1>8, <1>11, <2>1, <2>3, <3>1, <3>2
  <2> QED
    BY <1>6, <1>8, <1>9, <1>10, <1>11, <2>2, <2>3, <2>4 DEF w, z, text, side, from
<1>12. CASE ~Fits(n)
  <2>1. side = Part(at, m) /\ text = <<n, pad>> \o Part(at, m)
    BY <1>5, <1>12
  <2>2. Sits(w, from, Pkt!Seal("size", Whole(n), text))
    BY <1>4, <1>12, <2>1
  <2>3. Len(text) = EncBlkSize /\ from + (Len(text) + TagSize) = from + Pkt!Sealed
    <3>1. Len(side) = m
      BY <1>3, <2>1
    <3>2. Len(text) = EncBlkSize
      BY <1>2, <1>8, <3>1
    <3> QED
      BY <1>2, <3>2
  <2> QED
    BY <1>6, <1>8, <1>9, <1>10, <1>12, <2>2, <2>3 DEF w, z, text, side, from
<1> QED
  BY <1>11, <1>12

LEMMA FullGoes ==
    ASSUME NEW n \in Nat, NEW pad \in Nat, NEW harm \in Harms(Sent(n, pad)),
           NEW s, NEW r, Reading(n, pad, harm, s, r), r.stage = "blocks",
           Pkt!Opens("full", r.nonce, Taken(s))
    PROVE  Reading(n, pad, harm, Pkt!Drop(s, Len(Taken(s))),
                   [r EXCEPT !.out = @ \o Taken(s)[1].pt, !.nonce = @ + 1])
<1> DEFINE w == Sent(n, pad)
           d == Pkt!Damaged(w, harm)
           F == Whole(n)
           b == r.nonce
           r2 == [r EXCEPT !.out = @ \o Taken(s)[1].pt, !.nonce = @ + 1]
           s2 == Pkt!Drop(s, Len(Taken(s)))
<1>1. /\ w \in ByteSeqs /\ Len(w) \in Nat
      /\ d \in ByteSeqs /\ Len(d) \in Nat /\ Stems(d, w)
  BY Arrives
<1>2. /\ r \in Readers /\ b <= F /\ r.out = Part(0, b * EncBlkSize) /\ Read(d, Pos(b), s)
  BY DEF Reading, InBlocks
<1>3. b \in Nat /\ F \in Nat
  BY <1>2, Divided DEF Readers
<1>4. /\ Pos(b) \in Nat /\ Pos(b) + (EncBlkSize + TagSize) = Pos(b + 1)
      /\ b * EncBlkSize \in Nat /\ (b + 1) * EncBlkSize = b * EncBlkSize + EncBlkSize
      /\ EncBlkSize \in Nat
  BY <1>3, BlockEnds, Sizes
<1>5. \E text \in Seq(Nat) :
         b = F => Sits(w, Pos(b), Pkt!Seal("size", b, text))
  BY SizeBlock
<1>6. b < F
  <2> SUFFICES ASSUME b = F PROVE FALSE
    BY <1>2, <1>3
  <2>1. PICK text \in Seq(Nat) : Sits(w, Pos(b), Pkt!Seal("size", b, text))
    BY <1>5
  <2> HIDE DEF w, d, b, F
  <2>2. "full" = "size"
    BY <1>1, <1>2, <1>3, <2>1, Opened DEF b
  <2> QED
    BY <2>2
<1>7. Sits(w, Pos(b), Pkt!Seal("full", b, Part(b * EncBlkSize, EncBlkSize)))
  BY <1>3, <1>6, Layout
<1> DEFINE text == Part(b * EncBlkSize, EncBlkSize)
<1>8. text \in Seq(Nat) /\ Len(text) = EncBlkSize
  BY <1>4, PartType
<1>9. /\ Taken(s)[1].pt = text
      /\ Read(d, Pos(b) + (Len(text) + TagSize), s2)
  <2> HIDE DEF w, d, text
  <2> QED
    BY <1>1, <1>2, <1>3, <1>7, <1>8, Opened DEF text
<1>10. Part(0, b * EncBlkSize) \o text = Part(0, (b + 1) * EncBlkSize)
  <2> DEFINE q == b * EncBlkSize
  <2>1. q \in Nat /\ EncBlkSize \in Nat /\ q + EncBlkSize = (b + 1) * EncBlkSize
    BY <1>4
  <2> HIDE DEF q
  <2>2. Part(0, q) \o Part(q, EncBlkSize) = Part(0, q + EncBlkSize)
    BY <2>1, FirstParts
  <2>3. Part(0, q) \o Part(q, EncBlkSize) = Part(0, (b + 1) * EncBlkSize)
    BY <2>1, <2>2
  <2> QED
    BY <2>3 DEF q
<1>11. (b + 1) * EncBlkSize \in 0..n
  <2>1. b + 1 \in Nat /\ b + 1 <= F
    BY <1>3, <1>6
  <2>2. (b + 1) * EncBlkSize <= F * EncBlkSize /\ (b + 1) * EncBlkSize \in Nat
    BY <1>3, <1>4, <2>1, Times
  <2>3. F * EncBlkSize \in Nat /\ F * EncBlkSize + Rest(n) = n /\ Rest(n) \in 0..(EncBlkSize - 1)
    BY Divided
  <2> QED
    BY <1>4, <2>2, <2>3
<1>12. Part(0, (b + 1) * EncBlkSize) \in Seq(Nat)
  <2> DEFINE q == (b + 1) * EncBlkSize
  <2>1. q \in Nat
    BY <1>11
  <2> HIDE DEF q
  <2> QED
    BY <2>1, FirstParts DEF q
<1>13. /\ r2 \in Readers /\ r2.stage = "blocks" /\ r2.nonce = b + 1
       /\ r2.out = Part(0, (b + 1) * EncBlkSize)
  <2>1. r.out \o Taken(s)[1].pt = Part(0, (b + 1) * EncBlkSize)
    BY <1>2, <1>9, <1>10
  <2> DEFINE o == r.out \o Taken(s)[1].pt
             c == r.nonce + 1
  <2>2. r \in Readers /\ o \in Seq(Nat) /\ c \in Nat
    <3>1. o \in Seq(Nat)
      BY <1>12, <2>1, Zenon
    <3>2. c \in Nat
      BY <1>3
    <3> QED
      BY <1>2, <3>1, <3>2
  <2>3. r2 = [[r EXCEPT !.out = o] EXCEPT !.nonce = c]
    OBVIOUS
  <2> HIDE DEF o, c, r2
  <2>4. r2 \in Readers /\ r2.stage = r.stage /\ r2.nonce = c /\ r2.out = o
    BY <2>2, <2>3 DEF Readers
  <2> QED
    BY <2>1, <2>4 DEF o, c
<1>14. InBlocks(n, d, s2, r2)
  <2>1. b + 1 <= F
    BY <1>3, <1>6
  <2>2. Read(d, Pos(b + 1), s2)
    BY <1>4, <1>8, <1>9
  <2> HIDE DEF r2, s2, d
  <2> QED
    BY <1>13, <2>1, <2>2 DEF InBlocks
<1> HIDE DEF r2, s2
<1>15. Reading(n, pad, harm, s2, r2)
  BY <1>11, <1>13, <1>14 DEF Reading
<1> QED
  BY <1>15 DEF r2, s2

LEMMA SizeGoes ==
    ASSUME NEW n \in Nat, NEW pad \in Nat, NEW harm \in Harms(Sent(n, pad)),
           NEW s, NEW r, Reading(n, pad, harm, s, r), r.stage = "blocks",
           Pkt!Opens("size", r.nonce, Taken(s))
    PROVE  Reading(n, pad, harm, Pkt!Drop(s, Len(Taken(s))),
                   [r EXCEPT !.stage = "rest",
                             !.pt = Pkt!Drop(Taken(s)[1].pt, Pkt!PktSizeOverhead),
                             !.left = Taken(s)[1].pt[1] - Len(r.out),
                             !.pad = Taken(s)[1].pt[2]])
<1> DEFINE w == Sent(n, pad)
           d == Pkt!Damaged(w, harm)
           F == Whole(n)
           b == r.nonce
           text == Heads(n, pad)
           z == Zeroed(n, pad)
           opened == Taken(s)[1].pt
           pt == Pkt!Drop(opened, Pkt!PktSizeOverhead)
           left == opened[1] - Len(r.out)
           of == opened[2]
           r2 == [r EXCEPT !.stage = "rest", !.pt = pt, !.left = left, !.pad = of]
           s2 == Pkt!Drop(s, Len(Taken(s)))
<1>1. /\ w \in ByteSeqs /\ Len(w) \in Nat
      /\ d \in ByteSeqs /\ Len(d) \in Nat /\ Stems(d, w)
  BY Arrives
<1>2. /\ r \in Readers /\ b <= F /\ r.out = Part(0, b * EncBlkSize) /\ Read(d, Pos(b), s)
      /\ \E o \in 0..n : r.out = Part(0, o)
  BY DEF Reading, InBlocks
<1>3. b \in Nat /\ F \in Nat
  BY <1>2, Divided DEF Readers
<1>4. b = F
  <2> SUFFICES ASSUME b < F PROVE FALSE
    BY <1>2, <1>3
  <2> DEFINE block == Part(b * EncBlkSize, EncBlkSize)
  <2>1. Sits(w, Pos(b), Pkt!Seal("full", b, block))
    BY <1>3, Layout
  <2>2. block \in Seq(Nat)
    BY <1>3, BlockEnds, Sizes, PartType
  <2> HIDE DEF w, d, b, F, block
  <2>3. "size" = "full"
    BY <1>1, <1>2, <1>3, <2>1, <2>2, Opened DEF b
  <2> QED
    BY <2>3
<1>5. /\ text \in Seq(Nat) /\ text[1] = n /\ text[2] = pad
      /\ Besides(n, pad) \in Seq(Nat) /\ Pkt!Drop(text, 2) = Besides(n, pad)
      /\ Sits(w, Pos(F), Pkt!Seal("size", F, text))
      /\ Fits(n) => Pos(F) + (Len(text) + TagSize) = Len(w) - (pad - z)
      /\ ~Fits(n) => Pos(F) + (Len(text) + TagSize) = Pos(F) + Pkt!Sealed
  BY SizeBlock
<1>6. opened = text /\ Read(d, Pos(F) + (Len(text) + TagSize), s2)
  <2> HIDE DEF w, d, text, F
  <2>1. Pkt!Opens("size", F, Taken(s)) /\ Read(d, Pos(F), s)
    BY <1>2, <1>4
  <2> QED
    BY <1>1, <1>3, <1>5, <2>1, Opened
<1>7. pt = Besides(n, pad) /\ left = n - F * EncBlkSize /\ of = pad
  <2>1. Pkt!PktSizeOverhead = 2
    BY DEF Pkt!PktSizeOverhead
  <2>2. Len(r.out) = F * EncBlkSize
    <3>1. F * EncBlkSize \in Nat
      BY Divided
    <3> QED
      BY <1>2, <1>4, <3>1, FirstParts
  <2> HIDE DEF opened, text
  <2>3. opened[1] = n /\ opened[2] = pad /\ Pkt!Drop(opened, 2) = Besides(n, pad)
    BY <1>5, <1>6
  <2> QED
    BY <2>1, <2>2, <2>3
<1>8. left \in Int /\ pt \in Seq(Nat) /\ of \in Int
  <2>1. n - F * EncBlkSize \in Int
    BY Divided
  <2> HIDE DEF left, pt, of
  <2> QED
    BY <1>5, <1>7, <2>1
<1>9. /\ r2 \in Readers /\ r2.stage = "rest" /\ r2.nonce = b /\ r2.out = r.out
      /\ r2.pt = Besides(n, pad) /\ r2.left = n - F * EncBlkSize /\ r2.pad = pad
  <2> HIDE DEF left, pt, of
  <2>1. /\ r2 \in Readers /\ r2.stage = "rest" /\ r2.nonce = r.nonce /\ r2.out = r.out
        /\ r2.pt = pt /\ r2.left = left /\ r2.pad = of
    BY <1>2, <1>8 DEF Readers, ReadStages
  <2> QED
    BY <1>7, <2>1
<1> HIDE DEF r2, s2, d, w, F, b, text, z
<1>10. CASE Fits(n)
  <2>1. /\ LastAt(n) = F * EncBlkSize /\ Besides(n, pad) = RestText(n, pad)
        /\ r2.out = Part(0, F * EncBlkSize)
    BY <1>2, <1>4, <1>9, <1>10, Divided DEF Besides, F
  <2>2. Read(d, Len(w) - (pad - z), s2)
    BY <1>5, <1>6, <1>10
  <2>3. InLast(n, pad, d, s2, r2)
    BY <1>9, <2>1, <2>2 DEF InLast, w, z
  <2> QED
    BY <1>2, <1>9, <2>3 DEF Reading, d, w, r2, s2
<1>11. CASE ~Fits(n)
  <2>1. /\ Besides(n, pad) = Part(F * EncBlkSize, Pkt!Room)
        /\ r2.out = Part(0, F * EncBlkSize)
    BY <1>2, <1>4, <1>9, <1>11 DEF Besides, F
  <2>2. Read(d, Pos(F) + Pkt!Sealed, s2)
    BY <1>5, <1>6, <1>11
  <2>3. n - F * EncBlkSize = Rest(n)
    BY DEF Rest, F
  <2>4. InSplit(n, d, s2, r2)
    BY <1>4, <1>9, <1>11, <2>1, <2>2, <2>3 DEF InSplit, F
  <2> QED
    BY <1>2, <1>9, <2>4 DEF Reading, d, w, r2, s2
<1> QED
  BY <1>10, <1>11

LEMMA BlockStays ==
    ASSUME NEW n \in Nat, NEW pad \in Nat, NEW harm \in Harms(Sent(n, pad)),
           NEW s, NEW r, Reading(n, pad, harm, s, r), r.stage = "blocks",
           ~(Len(Taken(s)) = Pkt!Sealed /\ Pkt!Opens("full", r.nonce, Taken(s))),
           ~Pkt!Opens("size", r.nonce, Taken(s))
    PROVE  harm.kind # "none"
<1> DEFINE w == Sent(n, pad)
           d == Pkt!Damaged(w, harm)
           F == Whole(n)
           b == r.nonce
           text == Heads(n, pad)
<1> SUFFICES ASSUME harm.kind = "none" PROVE FALSE
  OBVIOUS
<1>1. w \in ByteSeqs /\ d = w
  BY Arrives
<1>2. r \in Readers /\ b <= F /\ Read(w, Pos(b), s)
  BY <1>1 DEF Reading, InBlocks
<1>3. b \in Nat /\ F \in Nat
  BY <1>2, Divided DEF Readers
<1>4. CASE b < F
  <2> DEFINE block == Part(b * EncBlkSize, EncBlkSize)
  <2>1. Sits(w, Pos(b), Pkt!Seal("full", b, block))
    BY <1>3, <1>4, Layout
  <2>2. block \in Seq(Nat) /\ Len(block) = EncBlkSize
    BY <1>3, BlockEnds, Sizes, PartType
  <2> HIDE DEF w, b, block
  <2>3. Pkt!Opens("full", b, Taken(s)) /\ Len(Taken(s)) = Len(block) + TagSize
    BY <1>1, <1>2, <1>3, <2>1, <2>2, Completes
  <2>4. Len(Taken(s)) = Pkt!Sealed
    BY <2>2, <2>3, Sizes
  <2> QED
    BY <2>3, <2>4 DEF b
<1>5. CASE b = F
  <2>1. /\ text \in Seq(Nat)
        /\ Sits(w, Pos(F), Pkt!Seal("size", F, text))
        /\ \/ Len(text) = EncBlkSize
           \/ Len(text) <= EncBlkSize /\ Pos(F) + (Len(text) + TagSize) = Len(w)
    BY SizeBlock
  <2> HIDE DEF w, F, text
  <2>2. Pkt!Opens("size", F, Taken(s))
    BY <1>1, <1>2, <1>3, <1>5, <2>1, Completes
  <2> QED
    BY <1>5, <2>2
<1> QED
  BY <1>2, <1>3, <1>4, <1>5

\* What fails to open is an error, wherever the reader is.
LEMMA ErrorGoes ==
    ASSUME NEW n \in Nat, NEW pad \in Nat, NEW harm \in Harms(Sent(n, pad)),
           NEW s, NEW r, Reading(n, pad, harm, s, r), NEW s2, harm.kind # "none"
    PROVE  Reading(n, pad, harm, s2, [r EXCEPT !.stage = "error"])
<1> DEFINE r2 == [r EXCEPT !.stage = "error"]
<1>1. r \in Readers /\ \E o \in 0..n : r.out = Part(0, o)
  BY DEF Reading
<1>2. r2 \in Readers /\ r2.stage = "error" /\ r2.out = r.out
  BY <1>1 DEF Readers, ReadStages
<1> HIDE DEF r2
<1>3. Reading(n, pad, harm, s2, r2)
  BY <1>1, <1>2 DEF Reading
<1> QED
  BY <1>3 DEF r2

\* Only a packet that is split has more to come than what it holds.
LEMMA StillSplit ==
    ASSUME NEW n \in Nat, NEW pad \in Nat, NEW harm \in Harms(Sent(n, pad)),
           NEW s, NEW r, Reading(n, pad, harm, s, r), r.stage = "rest"
    PROVE  LET d == Pkt!Damaged(Sent(n, pad), harm) IN
           /\ r.pad = pad /\ r \in Readers
           /\ r.left > Len(r.pt) => InSplit(n, d, s, r)
           /\ r.left <= Len(r.pt) => InLast(n, pad, d, s, r)
<1> DEFINE d == Pkt!Damaged(Sent(n, pad), harm)
<1>1. /\ r \in Readers /\ r.pad = pad
      /\ InSplit(n, d, s, r) \/ InLast(n, pad, d, s, r)
  BY DEF Reading
<1> HIDE DEF d
<1>2. ASSUME InSplit(n, d, s, r) PROVE r.left > Len(r.pt)
  <2>1. /\ Whole(n) * EncBlkSize \in Nat /\ Pkt!Room \in Nat /\ Pkt!Room = EncBlkSize - 2
        /\ EncBlkSize \in Nat /\ ~Fits(n)
    BY <1>2, Divided, Sizes DEF InSplit
  <2>2. Len(r.pt) = Pkt!Room
    BY <1>2, <2>1, PartType DEF InSplit
  <2>3. r.left = EncBlkSize - 1
    BY <1>2, <2>1, Divided DEF InSplit
  <2> QED
    BY <2>1, <2>2, <2>3
<1>3. ASSUME InLast(n, pad, d, s, r) PROVE r.left <= Len(r.pt) /\ r.left \in Int /\ Len(r.pt) \in Int
  <2>1. /\ Zeroed(n, pad) \in 0..pad /\ Len(RestText(n, pad)) = n - LastAt(n) + Zeroed(n, pad)
        /\ LastAt(n) \in 0..n
    BY LastTexts, Divided
  <2>2. r.left = n - LastAt(n) /\ Len(r.pt) = n - LastAt(n) + Zeroed(n, pad)
    BY <1>3, <2>1 DEF InLast
  <2> QED
    BY <2>1, <2>2
<1>4. r.left \in Int /\ Len(r.pt) \in Int
  BY <1>1 DEF Readers
<1> QED
  BY <1>1, <1>2, <1>3, <1>4 DEF d

LEMMA SecondBlock ==
    ASSUME NEW n \in Nat, NEW pad \in Nat, ~Fits(n)
    PROVE  LET w == Sent(n, pad)
               z == Zeroed(n, pad)
               text == RestText(n, pad)
               from == Pos(Whole(n)) + Pkt!Sealed
           IN  /\ text \in Seq(Nat) /\ from \in Nat /\ Whole(n) \in Nat
               /\ Sits(w, from, Pkt!Seal("full", Whole(n) + 1, text))
               /\ \/ Len(text) = EncBlkSize
                  \/ Len(text) <= EncBlkSize /\ from + (Len(text) + TagSize) = Len(w)
               /\ from + (Len(text) + TagSize) = Len(w) - (pad - z)
<1> DEFINE w == Sent(n, pad)
           z == Zeroed(n, pad)
           text == RestText(n, pad)
           from == Pos(Whole(n)) + Pkt!Sealed
<1>1. /\ z \in 0..pad /\ text \in Seq(Nat)
      /\ Len(text) <= EncBlkSize /\ (z < pad => Len(text) = EncBlkSize)
  BY LastTexts
<1>2. Whole(n) \in Nat /\ from \in Nat /\ TagSize \in Nat
  <2>1. Whole(n) \in Nat
    BY Divided
  <2>2. Pos(Whole(n)) \in Nat
    BY <2>1, BlockEnds
  <2> QED
    BY <2>1, <2>2, Sizes
<1>3. /\ Sits(w, from, Pkt!Seal("full", Whole(n) + 1, text))
      /\ Len(w) = from + Len(text) + TagSize + (pad - z)
  BY Layout
<1> HIDE DEF w, z, text, from
<1>4. Len(text) \in Nat
  BY <1>1
<1>5. from + (Len(text) + TagSize) = Len(w) - (pad - z)
  BY <1>1, <1>2, <1>3, <1>4
<1>6. z < pad \/ from + (Len(text) + TagSize) = Len(w)
  BY <1>1, <1>2, <1>3, <1>4
<1> QED
  BY <1>1, <1>2, <1>3, <1>5, <1>6 DEF w, z, text, from

LEMMA RestGoes ==
    ASSUME NEW n \in Nat, NEW pad \in Nat, NEW harm \in Harms(Sent(n, pad)),
           NEW s, NEW r, Reading(n, pad, harm, s, r), r.stage = "rest", r.left > Len(r.pt),
           Pkt!Opens("full", r.nonce + 1, Taken(s))
    PROVE  Reading(n, pad, harm, Pkt!Drop(s, Len(Taken(s))),
                   [r EXCEPT !.out = @ \o r.pt, !.left = @ - Len(r.pt),
                             !.pt = Taken(s)[1].pt, !.nonce = @ + 1])
<1> DEFINE w == Sent(n, pad)
           d == Pkt!Damaged(w, harm)
           F == Whole(n)
           m == Pkt!Room
           at == F * EncBlkSize
           text == RestText(n, pad)
           z == Zeroed(n, pad)
           from == Pos(F) + Pkt!Sealed
           opened == Taken(s)[1].pt
           out == r.out \o r.pt
           left == r.left - Len(r.pt)
           nonce == r.nonce + 1
           r2 == [r EXCEPT !.out = out, !.left = left, !.pt = opened, !.nonce = nonce]
           s2 == Pkt!Drop(s, Len(Taken(s)))
<1>1. /\ w \in ByteSeqs /\ Len(w) \in Nat
      /\ d \in ByteSeqs /\ Len(d) \in Nat /\ Stems(d, w)
  BY Arrives
<1>2. r \in Readers /\ r.pad = pad /\ InSplit(n, d, s, r)
  BY StillSplit
<1>3. /\ ~Fits(n) /\ r.nonce = F /\ r.out = Part(0, at)
      /\ r.left = Rest(n) /\ r.pt = Part(at, m)
      /\ Read(d, from, s)
  BY <1>2 DEF InSplit
<1>4. /\ text \in Seq(Nat) /\ from \in Nat /\ F \in Nat
      /\ Sits(w, from, Pkt!Seal("full", F + 1, text))
      /\ from + (Len(text) + TagSize) = Len(w) - (pad - z)
  BY <1>3, SecondBlock
<1>5. at \in Nat /\ m \in Nat /\ LastAt(n) = at + m /\ LastAt(n) \in 0..n
      /\ Rest(n) \in Nat /\ at + Rest(n) = n
  BY <1>3, Divided, Sizes
<1>6. opened = text /\ Read(d, from + (Len(text) + TagSize), s2)
  <2> HIDE DEF w, d, text, F, from
  <2>1. Pkt!Opens("full", F + 1, Taken(s)) /\ F + 1 \in Nat
    BY <1>3, <1>4
  <2> QED
    BY <1>1, <1>3, <1>4, <2>1, Opened
<1>7. Read(d, Len(w) - (pad - z), s2)
  BY <1>4, <1>6
<1> HIDE DEF at, m, F
<1>8. Len(r.pt) = m /\ r.pt \in Seq(Nat)
  BY <1>3, <1>5, PartType
<1>9. out = Part(0, LastAt(n)) /\ out \in Seq(Nat)
  <2>1. Part(0, at) \o Part(at, m) = Part(0, at + m)
    BY <1>5, FirstParts
  <2>2. Part(0, LastAt(n)) \in Seq(Nat)
    BY <1>5, FirstParts
  <2> QED
    BY <1>3, <1>5, <2>1, <2>2
<1>10. left = n - LastAt(n) /\ left \in Int
  BY <1>3, <1>5, <1>8
<1>11. nonce \in Nat
  BY <1>3, <1>4
<1> HIDE DEF out, left, nonce, opened
<1>12. /\ r2 \in Readers /\ r2.stage = r.stage /\ r2.out = out /\ r2.left = left
       /\ r2.pt = opened /\ r2.pad = r.pad
  BY <1>2, <1>4, <1>6, <1>9, <1>10, <1>11 DEF Readers, ReadStages
<1> HIDE DEF r2, s2, d
<1>13. InLast(n, pad, d, s2, r2)
  BY <1>6, <1>7, <1>9, <1>10, <1>12 DEF InLast
<1>14. Reading(n, pad, harm, s2, r2)
  BY <1>2, <1>5, <1>9, <1>12, <1>13 DEF Reading, d
<1> QED
  BY <1>14 DEF r2, s2, out, left, nonce, opened

\* What was decrypted is given out before the next block is tried.
LEMMA RestGiven ==
    ASSUME NEW n \in Nat, NEW pad \in Nat, NEW harm \in Harms(Sent(n, pad)),
           NEW s, NEW r, Reading(n, pad, harm, s, r), r.stage = "rest", r.left > Len(r.pt)
    PROVE  /\ r \in Readers /\ LastAt(n) \in 0..n
           /\ r.out \o r.pt = Part(0, LastAt(n)) /\ r.out \o r.pt \in Seq(Nat)
<1> DEFINE d == Pkt!Damaged(Sent(n, pad), harm)
           at == Whole(n) * EncBlkSize
           m == Pkt!Room
<1>1. r \in Readers /\ InSplit(n, d, s, r)
  BY StillSplit
<1>2. ~Fits(n) /\ r.out = Part(0, at) /\ r.pt = Part(at, m)
  BY <1>1 DEF InSplit
<1>3. at \in Nat /\ m \in Nat /\ LastAt(n) = at + m /\ LastAt(n) \in 0..n
  BY <1>2, Divided, Sizes
<1> HIDE DEF at, m
<1>4. Part(0, at) \o Part(at, m) = Part(0, at + m)
  BY <1>3, FirstParts
<1>5. Part(0, LastAt(n)) \in Seq(Nat)
  BY <1>3, FirstParts
<1> QED
  BY <1>1, <1>2, <1>3, <1>4, <1>5

LEMMA RestFails ==
    ASSUME NEW n \in Nat, NEW pad \in Nat, NEW harm \in Harms(Sent(n, pad)), NEW s2,
           NEW s, NEW r, Reading(n, pad, harm, s, r), r.stage = "rest", r.left > Len(r.pt),
           harm.kind # "none"
    PROVE  Reading(n, pad, harm, s2, [r EXCEPT !.stage = "error", !.out = @ \o r.pt])
<1> DEFINE out == r.out \o r.pt
           r2 == [r EXCEPT !.stage = "error", !.out = out]
<1>1. /\ r \in Readers /\ LastAt(n) \in 0..n
      /\ out = Part(0, LastAt(n)) /\ out \in Seq(Nat)
  BY RestGiven
<1> HIDE DEF out
<1>2. r2 \in Readers /\ r2.stage = "error" /\ r2.out = out
  BY <1>1 DEF Readers, ReadStages
<1> HIDE DEF r2
<1>3. Reading(n, pad, harm, s2, r2)
  BY <1>1, <1>2 DEF Reading
<1> QED
  BY <1>3 DEF r2, out

LEMMA RestBlock ==
    ASSUME NEW n \in Nat, NEW pad \in Nat, NEW harm \in Harms(Sent(n, pad)),
           NEW s, NEW r, Reading(n, pad, harm, s, r), r.stage = "rest", r.left > Len(r.pt),
           ~Pkt!Opens("full", r.nonce + 1, Taken(s))
    PROVE  harm.kind # "none"
<1> DEFINE w == Sent(n, pad)
           d == Pkt!Damaged(w, harm)
           F == Whole(n)
           text == RestText(n, pad)
           from == Pos(F) + Pkt!Sealed
<1> SUFFICES ASSUME harm.kind = "none" PROVE FALSE
  OBVIOUS
<1>1. w \in ByteSeqs /\ d = w
  BY Arrives
<1>2. InSplit(n, d, s, r)
  BY StillSplit
<1>3. ~Fits(n) /\ r.nonce = F /\ Read(w, from, s)
  BY <1>1, <1>2 DEF InSplit
<1>4. /\ text \in Seq(Nat) /\ from \in Nat /\ F \in Nat
      /\ Sits(w, from, Pkt!Seal("full", F + 1, text))
      /\ \/ Len(text) = EncBlkSize
         \/ Len(text) <= EncBlkSize /\ from + (Len(text) + TagSize) = Len(w)
  BY <1>3, SecondBlock
<1> HIDE DEF w, text, F, from
<1>5. F + 1 \in Nat
  BY <1>4
<1>6. Pkt!Opens("full", F + 1, Taken(s))
  BY <1>1, <1>3, <1>4, <1>5, Completes
<1> QED
  BY <1>3, <1>6

LEMMA LastGoes ==
    ASSUME NEW n \in Nat, NEW pad \in Nat, NEW harm \in Harms(Sent(n, pad)),
           NEW s, NEW r, Reading(n, pad, harm, s, r), r.stage = "rest", r.left <= Len(r.pt)
    PROVE  LET zeros == Pkt!Drop(r.pt, r.left)
               bad == r.pad < Len(zeros) \/ zeros # Pkt!Zeros(Len(zeros))
           IN  Reading(n, pad, harm, s,
                       [r EXCEPT !.out = @ \o SubSeq(r.pt, 1, r.left), !.pt = <<>>, !.left = 0,
                                 !.pad = @ - Len(zeros),
                                 !.stage = IF bad THEN "error"
                                           ELSE IF r.pad = Len(zeros) THEN "done" ELSE "pad"])
<1> DEFINE w == Sent(n, pad)
           d == Pkt!Damaged(w, harm)
           z == Zeroed(n, pad)
           end == Part(LastAt(n), n - LastAt(n))
           zeros == Pkt!Drop(r.pt, r.left)
           bad == r.pad < Len(zeros) \/ zeros # Pkt!Zeros(Len(zeros))
           out == r.out \o SubSeq(r.pt, 1, r.left)
           left == r.pad - Len(zeros)
           to == IF bad THEN "error" ELSE IF r.pad = Len(zeros) THEN "done" ELSE "pad"
           r2 == [r EXCEPT !.out = out, !.pt = <<>>, !.left = 0, !.pad = left, !.stage = to]
<1>1. r \in Readers /\ r.pad = pad /\ InLast(n, pad, d, s, r)
  BY StillSplit
<1>2. /\ r.out = Part(0, LastAt(n)) /\ r.left = n - LastAt(n) /\ r.pt = end \o Pkt!Zeros(z)
      /\ Read(d, Len(w) - (pad - z), s)
  BY <1>1 DEF InLast, RestText
<1>3. z \in 0..pad /\ LastAt(n) \in Nat /\ n - LastAt(n) \in Nat /\ LastAt(n) + (n - LastAt(n)) = n
  <2>1. z \in 0..pad /\ LastAt(n) \in 0..n
    BY LastTexts, Divided
  <2> HIDE DEF z
  <2> QED
    BY <2>1
<1>4. /\ end \in Seq(Nat) /\ Len(end) = n - LastAt(n)
      /\ Pkt!Zeros(z) \in Seq(Nat) /\ Len(Pkt!Zeros(z)) = z
  <2> HIDE DEF z
  <2>1. z \in Nat
    BY <1>3
  <2> QED
    BY <1>3, <2>1, PartType, ZerosType
<1> HIDE DEF end, z
<1>5. SubSeq(r.pt, 1, r.left) = end /\ zeros = Pkt!Zeros(z)
  <2>1. /\ SubSeq(end \o Pkt!Zeros(z), 1, Len(end)) = end
        /\ SubSeq(end \o Pkt!Zeros(z), Len(end) + 1, Len(end \o Pkt!Zeros(z))) = Pkt!Zeros(z)
    BY <1>4, Apart
  <2> QED
    BY <1>2, <1>4, <2>1 DEF Pkt!Drop
<1>6. out = Part(0, n) /\ out \in Seq(Nat)
  <2>1. Part(0, LastAt(n)) \o Part(LastAt(n), n - LastAt(n)) = Part(0, LastAt(n) + (n - LastAt(n)))
    BY <1>3, FirstParts
  <2>2. Part(0, n) \in Seq(Nat)
    BY FirstParts
  <2> QED
    BY <1>2, <1>3, <1>5, <2>1, <2>2 DEF end
<1>7. Len(zeros) = z /\ ~bad /\ left = pad - z /\ left \in Int
      /\ to = IF pad = z THEN "done" ELSE "pad"
  <2>1. Len(zeros) = z /\ zeros = Pkt!Zeros(Len(zeros))
    BY <1>4, <1>5
  <2> HIDE DEF zeros
  <2> QED
    BY <1>1, <1>3, <2>1
<1> HIDE DEF out, left, to, bad, zeros
<1>8. /\ r2 \in Readers /\ r2.stage = to /\ r2.out = out /\ r2.left = 0 /\ r2.pad = left
  <2>1. to \in ReadStages
    BY <1>7 DEF ReadStages
  <2>2. <<>> \in Seq(Nat) /\ 0 \in Int
    OBVIOUS
  <2> QED
    BY <1>1, <1>6, <1>7, <2>1, <2>2 DEF Readers
<1> HIDE DEF r2
<1>9. n \in 0..n
  OBVIOUS
<1>10. CASE pad = z
  <2>1. harm.kind \in {"none", "more"}
    <3>1. Len(w) - (pad - z) = Len(w)
      BY <1>10, Arrives
    <3>2. Len(w) <= Len(d) /\ Clean(d, Len(w))
      BY <1>2, <3>1 DEF Read
    <3> QED
      BY <3>2, Arrives
  <2>2. r2 \in Readers /\ r2.stage = "done" /\ r2.out = Part(0, n)
    BY <1>6, <1>7, <1>8, <1>10
  <2>3. Reading(n, pad, harm, s, r2)
    BY <1>9, <2>1, <2>2 DEF Reading
  <2> QED
    BY <2>3 DEF r2, out, left, to, bad, zeros
<1>11. CASE pad # z
  <2>1. left \in 1..(pad - z) /\ 0 = (pad - z) - left
    BY <1>3, <1>7, <1>11
  <2>2. InPad(n, pad, d, s, r2)
    BY <1>2, <1>6, <1>7, <1>8, <2>1 DEF InPad, z
  <2>3. Reading(n, pad, harm, s, r2)
    BY <1>6, <1>7, <1>8, <1>9, <1>11, <2>2 DEF Reading
  <2> QED
    BY <2>3 DEF r2, out, left, to, bad, zeros
<1> QED
  BY <1>10, <1>11

LEMMA PadPlaces ==
    ASSUME NEW q \in Nat, NEW a \in 1..q, NEW l \in Nat, NEW left, left = q - a
    PROVE  l >= 1 /\ a > l => a - l \in 1..q /\ left + l = q - (a - l)
OBVIOUS

AllPad(ct, at) == ct # <<>> /\ \A k \in 1..Len(ct) : ct[k] = Pkt!Byte("pad", 0, <<>>, at + k)

LEMMA PadGoes ==
    ASSUME NEW n \in Nat, NEW pad \in Nat, NEW harm \in Harms(Sent(n, pad)),
           NEW s, NEW r, Reading(n, pad, harm, s, r), r.stage = "pad"
    PROVE  LET ct == Taken(s) IN
           IF AllPad(ct, r.left)
           THEN Reading(n, pad, harm, Pkt!Drop(s, Len(ct)),
                        [r EXCEPT !.pad = @ - Len(ct), !.left = @ + Len(ct),
                                  !.stage = IF r.pad = Len(ct) THEN "done"
                                            ELSE IF r.pad < Len(ct) THEN "error" ELSE "pad"])
           ELSE harm.kind # "none"
<1> DEFINE w == Sent(n, pad)
           d == Pkt!Damaged(w, harm)
           L == Len(w)
           q == pad - Zeroed(n, pad)
           p == L - r.pad
           ct == Taken(s)
           l == Len(ct)
           ok == ct # <<>> /\ \A k \in 1..l : ct[k] = Pkt!Byte("pad", 0, <<>>, r.left + k)
           of == r.pad - l
           left == r.left + l
           to == IF r.pad = l THEN "done" ELSE IF r.pad < l THEN "error" ELSE "pad"
           r2 == [r EXCEPT !.pad = of, !.left = left, !.stage = to]
           s2 == Pkt!Drop(s, l)
<1>1. /\ w \in ByteSeqs /\ L \in Nat
      /\ d \in ByteSeqs /\ Len(d) \in Nat /\ Stems(d, w)
      /\ harm.kind = "none" => d = w
      /\ L <= Len(d) /\ Clean(d, L) => harm.kind \in {"none", "more"}
  BY Arrives
<1>2. /\ r \in Readers /\ r.out = Part(0, n)
      /\ r.pad \in 1..q /\ r.left = q - r.pad /\ Read(d, p, s)
  BY DEF Reading, InPad
<1>3. q \in Nat
  <2>1. Zeroed(n, pad) \in 0..pad
    BY LastTexts
  <2> QED
    BY <2>1
<1>4. /\ L - q \in Nat /\ (L - q) + q <= L
      /\ \A k \in 1..q : w[(L - q) + k] = Pkt!Byte("pad", 0, <<>>, k)
  <2>1. Sits(w, L - q, Pkt!Xof(q))
    BY Layout
  <2>2. Len(Pkt!Xof(q)) = q /\ \A k \in 1..q : Pkt!Xof(q)[k] = Pkt!Byte("pad", 0, <<>>, k)
    BY <1>3, XofType
  <2> HIDE DEF q, w, L
  <2> QED
    BY <2>1, <2>2 DEF Sits, L
<1> HIDE DEF q
<1>5. /\ s \in ByteSeqs /\ Len(s) \in Nat /\ Len(s) = Len(d) - p
      /\ \A k \in 1..Len(s) : s[k] = d[p + k]
      /\ ct \in ByteSeqs /\ l \in Nat
      /\ l = IF Pkt!Sealed < Len(s) THEN Pkt!Sealed ELSE Len(s)
      /\ \A k \in 1..l : ct[k] = d[p + k]
  BY <1>1, <1>2, Taking
<1>6. p \in Nat /\ p <= Len(d) /\ l <= Len(s) /\ p = L - r.pad /\ r.pad \in Nat
  <2>1. p \in Nat /\ p <= Len(d)
    BY <1>2 DEF Read
  <2>2. l <= Len(s)
    BY <1>5, Sizes
  <2> QED
    BY <1>2, <1>3, <2>1, <2>2
<1> HIDE DEF ct, l, w, d, L, p
<1>9. /\ l \in Nat /\ q \in Nat /\ r.pad \in 1..q /\ r.left = q - r.pad
      /\ p \in Nat /\ p = L - r.pad /\ L \in Nat /\ Len(s) \in Nat /\ l <= Len(s)
  BY <1>1, <1>2, <1>3, <1>5, <1>6
<1>7. CASE ok
  <2>1. \A k \in 1..l : s[k].key # "junk"
    <3> TAKE k \in 1..l
    <3>1. k \in 1..Len(s)
      BY <1>9
    <3>2. s[k] = ct[k]
      BY <1>5, <3>1
    <3>3. ct[k] = Pkt!Byte("pad", 0, <<>>, r.left + k)
      BY <1>7
    <3>4. ct[k].key = "pad"
      BY <3>3 DEF Pkt!Byte
    <3> QED
      BY <3>2, <3>4
  <2>2. Read(d, p + l, s2)
    BY <1>1, <1>2, <1>5, <1>6, <2>1, Onward
  <2>3. of \in Int /\ left \in Int /\ to \in ReadStages
    BY <1>2, <1>5, <1>6 DEF Readers, ReadStages
  <2> HIDE DEF of, left, to
  <2>4. /\ r2 \in Readers /\ r2.stage = to /\ r2.out = Part(0, n) /\ r2.pad = of
        /\ r2.left = left
    BY <1>2, <2>3 DEF Readers
  <2>5. n \in 0..n
    OBVIOUS
  <2> HIDE DEF r2, s2
  <2>6. ASSUME r.pad = l PROVE Reading(n, pad, harm, s2, r2)
    <3>1. p + l = L
      BY <1>1, <1>5, <1>6, <2>6
    <3>2. harm.kind \in {"none", "more"}
      BY <1>1, <2>2, <3>1 DEF Read
    <3>3. to = "done"
      BY <2>6 DEF to
    <3> QED
      BY <2>4, <2>5, <3>2, <3>3 DEF Reading
  <2>7. ASSUME r.pad < l PROVE Reading(n, pad, harm, s2, r2)
    <3>1. harm.kind # "none"
      <4> SUFFICES ASSUME harm.kind = "none" PROVE FALSE
        OBVIOUS
      <4>1. Len(s) = L - p /\ L - p = r.pad
        BY <1>1, <1>5, <1>6 DEF L
      <4> QED
        BY <1>5, <1>6, <2>7, <4>1
    <3>2. to = "error"
      BY <1>5, <1>6, <2>7 DEF to
    <3> QED
      BY <2>4, <2>5, <3>1, <3>2 DEF Reading
  <2>8. ASSUME r.pad > l PROVE Reading(n, pad, harm, s2, r2)
    <3>1. l >= 1
      BY <1>5, <1>7, EmptySeq DEF ByteSeqs, l
    <3>2. to = "pad" /\ of \in 1..q /\ left = q - of
      <4>1. r.pad # l /\ ~(r.pad < l)
        BY <1>9, <2>8
      <4>2. r.pad - l \in 1..q /\ r.left + l = q - (r.pad - l)
        BY <1>9, <2>8, <3>1, PadPlaces
      <4> QED
        BY <4>1, <4>2 DEF to, of, left
    <3>3. p + l = L - of
      BY <1>9 DEF of
    <3>4. InPad(n, pad, d, s2, r2)
      BY <2>2, <2>4, <3>2, <3>3 DEF InPad, L, w, q
    <3> QED
      BY <2>4, <2>5, <3>2, <3>4 DEF Reading, d, w
  <2>9. Reading(n, pad, harm, s2, r2)
    <3>1. r.pad = l \/ r.pad < l \/ r.pad > l
      BY <1>9
    <3> QED
      BY <2>6, <2>7, <2>8, <3>1
  <2> QED
    BY <1>7, <2>9 DEF AllPad, r2, s2, of, left, to, ct, l
<1>8. CASE ~ok
  <2>1. harm.kind # "none"
    <3> SUFFICES ASSUME harm.kind = "none" PROVE FALSE
      OBVIOUS
    <3>1. Len(s) = r.pad /\ d = w
      BY <1>1, <1>5, <1>6 DEF L
    <3>2. l >= 1
      BY <1>2, <1>3, <1>5, <3>1, Sizes
    <3>3. ct # <<>>
      BY <3>2, EmptySeq DEF l
    <3>4. ASSUME NEW k \in 1..l PROVE ct[k] = Pkt!Byte("pad", 0, <<>>, r.left + k)
      <4>1. r.left + k \in 1..q /\ p + k = (L - q) + (r.left + k)
        <5>1. L \in Int /\ r.pad \in 1..q /\ l <= r.pad
          BY <1>9, <3>1
        <5>2. \A j \in 1..l : /\ r.left + j \in 1..q
                              /\ (L - r.pad) + j = (L - q) + (r.left + j)
          <6> DEFINE a == r.pad
                     b == r.left
          <6>1. a \in 1..q /\ b = q - a /\ q \in Nat /\ l \in Nat /\ L \in Int /\ l <= a
            BY <1>9, <5>1
          <6> HIDE DEF a, b
          <6>2. \A j \in 1..l : b + j \in 1..q /\ (L - a) + j = (L - q) + (b + j)
            BY <6>1
          <6> QED
            BY <6>2 DEF a, b
        <5> QED
          BY <1>9, <5>2
      <4>2. w[(L - q) + (r.left + k)] = Pkt!Byte("pad", 0, <<>>, r.left + k)
        BY <1>4, <4>1
      <4> QED
        BY <1>5, <3>1, <4>1, <4>2
    <3> QED
      BY <1>8, <3>3, <3>4
  <2> QED
    BY <1>8, <2>1 DEF AllPad, ct, l
<1> QED
  BY <1>7, <1>8

-----------------------------------------------------------------------------
(* The size of a packet *)

LEMMA TagsFor ==
    ASSUME NEW n \in Nat
    PROVE  /\ Pkt!sizeWithTags(n) = (n + 2) + ((n + 2 + EncBlkSize - 1) \div EncBlkSize) * TagSize
           /\ (n + 2 + EncBlkSize - 1) \div EncBlkSize \in Nat
           /\ Pkt!sizeWithTags(n) \in Nat
<1> DEFINE a == n + 2 + EncBlkSize - 1
<1>1. EncBlkSize \in Nat \ {0} /\ TagSize \in Nat /\ a \in Nat
  BY Sizes
<1>2. a \div EncBlkSize \in Nat
  <2> HIDE DEF a
  <2> QED
    BY <1>1, Quotient
<1>3. Pkt!sizeWithTags(n) = (n + 2) + (a \div EncBlkSize) * TagSize
  BY DEF Pkt!sizeWithTags, Pkt!PktSizeOverhead
<1> DEFINE q == a \div EncBlkSize
<1>4. q \in Nat
  BY <1>2
<1> HIDE DEF q
<1>5. q * TagSize \in Nat
  BY <1>1, <1>4
<1>6. Pkt!sizeWithTags(n) \in Nat
  BY <1>3, <1>5 DEF q
<1> QED
  BY <1>2, <1>3, <1>6

\* A larger packet takes at least as much more.
LEMMA TagsGrow ==
    ASSUME NEW m \in Nat, NEW d \in Nat
    PROVE  Pkt!sizeWithTags(m + d) >= Pkt!sizeWithTags(m) + d
<1> DEFINE E == EncBlkSize
           a == m + 2 + E - 1
           b == (m + d) + 2 + E - 1
           p == a \div E
           q == b \div E
<1>1. E \in Nat \ {0} /\ TagSize \in Nat /\ a \in Nat /\ b \in Nat /\ a <= b
  BY Sizes
<1>2. /\ p \in Nat /\ a % E \in 0..(E - 1) /\ a = E * p + (a % E)
      /\ q \in Nat /\ b % E \in 0..(E - 1) /\ b = E * q + (b % E)
  <2> HIDE DEF E, a, b
  <2> QED
    BY <1>1, Quotient
<1>3. p <= q
  <2> HIDE DEF E, a, b, p, q
  <2> SUFFICES ASSUME q + 1 <= p PROVE FALSE
    BY <1>2
  <2>1. (q + 1) * E <= p * E /\ (q + 1) * E = q * E + E /\ q * E \in Nat /\ p * E \in Nat
    BY <1>1, <1>2, Times
  <2>2. q * E = E * q /\ p * E = E * p
    BY <1>1, <1>2
  <2> QED
    BY <1>1, <1>2, <2>1, <2>2
<1>4. p * TagSize <= q * TagSize /\ p * TagSize \in Nat /\ q * TagSize \in Nat
  <2> HIDE DEF p, q
  <2> QED
    BY <1>1, <1>2, <1>3, Times
<1>5. /\ Pkt!sizeWithTags(m) = (m + 2) + p * TagSize
      /\ Pkt!sizeWithTags(m + d) = (m + d + 2) + q * TagSize
  <2>1. m + d \in Nat
    OBVIOUS
  <2> QED
    BY <2>1, TagsFor
<1> HIDE DEF p, q
<1> QED
  BY <1>4, <1>5

LEMMA SentLength ==
    ASSUME NEW n \in Nat, NEW pad \in Nat
    PROVE  Len(Sent(n, pad)) = PktEncOverhead + Pkt!sizeWithTags(n) + pad
<1> DEFINE E == EncBlkSize
           T == TagSize
           F == Whole(n)
           R == Rest(n)
           z == Zeroed(n, pad)
           at == F * E
           tags == F * T
           a == n + 2 + E - 1
           L == Len(Sent(n, pad))
<1>1. /\ E \in Nat /\ E > 2 /\ T \in Nat /\ PktEncOverhead \in Nat /\ Pkt!Sealed = E + T
      /\ F \in Nat /\ R \in 0..(E - 1) /\ at \in Nat /\ at + R = n /\ z \in 0..pad
      /\ Fits(n) => n - LastAt(n) = R /\ R <= E - 2
      /\ ~Fits(n) => n - LastAt(n) = 1 /\ R = E - 1
  <2>1. /\ E \in Nat /\ E > 2 /\ T \in Nat /\ PktEncOverhead \in Nat /\ Pkt!Sealed = E + T
        /\ Pkt!Room = E - 2
    BY Sizes
  <2>2. /\ F \in Nat /\ R \in 0..(E - 1) /\ at \in Nat /\ at + R = n
        /\ Fits(n) => n - LastAt(n) = R
        /\ ~Fits(n) => n - LastAt(n) = 1 /\ R = E - 1
    BY Divided
  <2>3. z \in 0..pad
    BY LastTexts
  <2> QED
    BY <2>1, <2>2, <2>3 DEF Fits
<1>2. Len(RestText(n, pad)) = n - LastAt(n) + z
  BY LastTexts
<1>3. /\ Fits(n) => L = Pos(F) + (2 + Len(RestText(n, pad))) + T + (pad - z)
      /\ ~Fits(n) => L = Pos(F) + Pkt!Sealed + Len(RestText(n, pad)) + T + (pad - z)
  BY Layout
<1>4. Pos(F) = PktEncOverhead + (at + tags) /\ tags \in Nat
  <2> HIDE DEF F, E, T
  <2>1. F * (E + T) = F * E + F * T /\ F * T \in Nat
    BY <1>1
  <2> QED
    BY <1>1, <2>1 DEF Pos
<1>5. /\ Fits(n) => a \div E = F + 1
      /\ ~Fits(n) => a \div E = F + 2
  <2>1. /\ Fits(n) => R + 2 \in 1..E /\ a = at + E + (R + 2) - 1
        /\ ~Fits(n) => 1 \in 1..E /\ a = at + E + E + 1 - 1
    <3> HIDE DEF at, E, R
    <3>1. a = at + R + 2 + E - 1
      BY <1>1
    <3> QED
      BY <1>1, <3>1
  <2>2. (F + 1) * E = at + E /\ (F + 2) * E = at + E + E
    <3> HIDE DEF F, E
    <3> QED
      BY <1>1 DEF at
  <2>3. E \in Nat \ {0} /\ F + 1 \in Nat /\ F + 2 \in Nat
    BY <1>1
  <2> HIDE DEF a, E, F, R, at
  <2>4. ASSUME Fits(n) PROVE a \div E = F + 1
    <3>1. a = (F + 1) * E + (R + 2) - 1 /\ R + 2 \in 1..E
      BY <2>1, <2>2, <2>4
    <3> QED
      BY <2>3, <3>1, PlaceOf
  <2>5. ASSUME ~Fits(n) PROVE a \div E = F + 2
    <3>1. a = (F + 2) * E + 1 - 1 /\ 1 \in 1..E
      BY <2>1, <2>2, <2>5
    <3> QED
      BY <2>3, <3>1, PlaceOf
  <2> QED
    BY <2>4, <2>5
<1>6. Pkt!sizeWithTags(n) = (n + 2) + (a \div E) * T
  BY TagsFor
<1>7. (F + 1) * T = tags + T /\ (F + 2) * T = tags + T + T
  <2> HIDE DEF F, T
  <2> QED
    BY <1>1 DEF tags
<1> HIDE DEF E, T, F, R, z, at, tags, a, L
<1>8. CASE Fits(n)
  <2>1. Pkt!sizeWithTags(n) = (n + 2) + (tags + T)
    BY <1>5, <1>6, <1>7, <1>8
  <2>2. L = PktEncOverhead + (at + tags) + (2 + (R + z)) + T + (pad - z)
    BY <1>1, <1>2, <1>3, <1>4, <1>8
  <2>3. L = PktEncOverhead + ((at + R + 2) + (tags + T)) + pad
    BY <1>1, <1>4, <2>2
  <2> QED
    BY <1>1, <2>1, <2>3 DEF L
<1>9. CASE ~Fits(n)
  <2>1. Pkt!sizeWithTags(n) = (n + 2) + (tags + T + T)
    BY <1>5, <1>6, <1>7, <1>9
  <2>2. L = PktEncOverhead + (at + tags) + (E + T) + (1 + z) + T + (pad - z)
    BY <1>1, <1>2, <1>3, <1>4, <1>9
  <2>3. L = PktEncOverhead + ((at + E + 1) + (tags + T + T)) + pad
    BY <1>1, <1>4, <2>2
  <2>4. at + E + 1 = n + 2
    BY <1>1, <1>9
  <2> QED
    BY <2>1, <2>3, <2>4 DEF L
<1> QED
  BY <1>8, <1>9

\* What the sizes of packets within packets are computed from.
Bases == {x \in Int : PktOverhead + x \in Nat}
Larger(x) == PktEncOverhead + Pkt!sizeWithTags(PktOverhead + x)

LEMMA LargerIsBase ==
    ASSUME NEW x \in Bases
    PROVE  Larger(x) \in Nat /\ Larger(x) \in Bases
<1>1. PktOverhead + x \in Nat
  BY DEF Bases
<1>2. Pkt!sizeWithTags(PktOverhead + x) \in Nat
  <2> DEFINE y == PktOverhead + x
  <2> HIDE DEF y
  <2>1. Pkt!sizeWithTags(y) \in Nat
    BY <1>1, TagsFor DEF y
  <2> QED
    BY <2>1 DEF y
<1>3. Larger(x) \in Nat
  BY <1>2, PacketAssumption DEF Larger
<1> HIDE DEF Larger
<1> QED
  BY <1>3, PacketAssumption DEF Bases

LEMMA WrappedIs ==
    ASSUME NEW n \in Nat, NEW w \in Nat
    PROVE  \E size \in [0..w -> Bases] :
              /\ size[0] = n - PktOverhead
              /\ \A i \in 1..w : size[i] = Larger(size[i - 1])
              /\ Pkt!wrapped(n, w) = size[w]
<1> DEFINE Is(f) == f = [i \in 0..w |-> IF i = 0 THEN n - PktOverhead
                                        ELSE PktEncOverhead + Pkt!sizeWithTags(PktOverhead + f[i - 1])]
           size == CHOOSE f : Is(f)
           a == n - PktOverhead
<1>1. Pkt!wrapped(n, w) = size[w]
  BY DEF Pkt!wrapped
<1>2. a \in Bases
  BY PacketAssumption DEF Bases
<1>3. \E f : Is(f)
  <2> DEFINE g == [x \in Bases |-> Larger(x)]
  <2>1. g \in [Bases -> Bases]
    BY LargerIsBase
  <2> HIDE DEF g, a
  <2>2. PICK f \in [0..w -> Bases] : Links(f, a, g, w)
    BY <1>2, <2>1, Chain
  <2>3. \A i \in 0..w : f[i] = IF i = 0 THEN a ELSE Larger(f[i - 1])
    <3> TAKE i \in 0..w
    <3>1. CASE i = 0
      BY <2>2, <3>1 DEF Links
    <3>2. CASE i # 0
      <4>1. i \in 1..w /\ i - 1 \in 0..w
        BY <3>2
      <4>2. f[i - 1] \in Bases /\ f[i] = g[f[i - 1]]
        BY <2>2, <4>1 DEF Links
      <4> QED
        BY <3>2, <4>2 DEF g
    <3> QED
      BY <3>1, <3>2
  <2>4. f = [i \in 0..w |-> IF i = 0 THEN a ELSE Larger(f[i - 1])]
    <3>1. f = [i \in 0..w |-> f[i]]
      BY <2>2
    <3> QED
      BY <2>3, <3>1
  <2>5. Is(f)
    BY <2>4, Zenon DEF Larger, a
  <2> QED
    BY <2>5
<1>4. Is(size)
  BY <1>3, Zenon
<1> HIDE DEF size
<1>5. /\ size[0] = a
      /\ \A i \in 1..w : size[i] = Larger(size[i - 1])
      /\ DOMAIN size = 0..w
  BY <1>4 DEF Larger
<1> DEFINE T == {i \in Nat : i <= w => size[i] \in Bases}
<1>6. 0 \in T
  BY <1>2, <1>5
<1>7. \A i \in Nat : i \in T => i + 1 \in T
  <2> SUFFICES ASSUME NEW i \in Nat, i \in T, i + 1 <= w PROVE size[i + 1] \in Bases
    OBVIOUS
  <2>1. i + 1 \in 1..w /\ (i + 1) - 1 = i /\ size[i] \in Bases
    OBVIOUS
  <2>2. size[i + 1] = Larger(size[i])
    BY <1>5, <2>1
  <2> QED
    BY <2>1, <2>2, LargerIsBase
<1>8. \A i \in 0..w : size[i] \in Bases
  <2> HIDE DEF T
  <2>1. Nat \subseteq T
    BY <1>6, <1>7, Induction
  <2> QED
    BY <2>1 DEF T
<1>9. size \in [0..w -> Bases]
  <2>1. size = [i \in 0..w |-> size[i]]
    BY <1>4
  <2> QED
    BY <1>8, <2>1
<1> QED
  BY <1>1, <1>5, <1>9 DEF a

LEMMA PadIsNat ==
    ASSUME NEW n \in Nat, NEW min \in Nat, NEW w \in Nat
    PROVE  /\ Pkt!wrapped(n, w) \in Int
           /\ Pkt!sizePadCalc(n, min, w) \in Nat
           /\ Pkt!sizePadCalc(n, min, w) >= min - Pkt!wrapped(n, w)
<1>1. PICK size \in [0..w -> Bases] : Pkt!wrapped(n, w) = size[w]
  BY WrappedIs
<1>2. Pkt!wrapped(n, w) \in Int
  BY <1>1 DEF Bases
<1> DEFINE x == Pkt!wrapped(n, w)
<1>3. Pkt!sizePadCalc(n, min, w) = IF min - x < 0 THEN 0 ELSE min - x
  BY DEF Pkt!sizePadCalc, Pkt!Most
<1> HIDE DEF x
<1>4. Pkt!sizePadCalc(n, min, w) \in Nat /\ Pkt!sizePadCalc(n, min, w) >= min - x
  BY <1>2, <1>3 DEF x
<1> QED
  BY <1>2, <1>4 DEF x

\* The packet that n bytes become, padded for wrappers to come.
LEMMA WriteLength ==
    ASSUME NEW n \in Nat, NEW min \in Nat, NEW w \in Nat
    PROVE  LET pad == Pkt!sizePadCalc(n, min, w) IN
           /\ pad \in Nat
           /\ Len(Pkt!PktEncWrite(Pkt!Plain(n), min, w))
              = PktEncOverhead + Pkt!sizeWithTags(n) + pad
           /\ Len(Pkt!PktEncWrite(Pkt!Plain(n), min, w)) \in Nat
<1> DEFINE pad == Pkt!sizePadCalc(n, min, w)
<1>1. pad \in Nat
  BY PadIsNat
<1>2. Pkt!PktEncWrite(Pkt!Plain(n), min, w) = Sent(n, pad)
  BY PlainText DEF Pkt!PktEncWrite, Sent
<1> HIDE DEF pad
<1>3. Len(Sent(n, pad)) = PktEncOverhead + Pkt!sizeWithTags(n) + pad
  BY <1>1, SentLength
<1>4. PktEncOverhead + Pkt!sizeWithTags(n) + pad \in Nat
  BY <1>1, Sizes, TagsFor
<1> QED
  BY <1>1, <1>2, <1>3, <1>4 DEF pad

LEMMA OuterIsLarger ==
    ASSUME NEW x \in Nat, NEW y \in Bases, NEW d \in Nat, x >= y + d
    PROVE  Pkt!Outer(x) \in Nat /\ Pkt!Outer(x) >= Larger(y) + d
<1> DEFINE n == PktOverhead + x
           m == PktOverhead + y
           e == n - (m + d)
<1>1. n \in Nat /\ m \in Nat /\ y \in Int /\ PktOverhead \in Nat
  BY PacketAssumption DEF Bases
<1>2. e \in Nat /\ n = m + (d + e) /\ d + e \in Nat
  BY <1>1
<1>3. Pkt!Outer(x) = Len(Pkt!PktEncWrite(Pkt!Plain(n), 0, 0)) /\ Larger(y) = PktEncOverhead + Pkt!sizeWithTags(m)
  BY DEF Pkt!Outer, Larger
<1> HIDE DEF n, m, e
<1> DEFINE pad == Pkt!sizePadCalc(n, 0, 0)
<1>4. /\ pad \in Nat
      /\ Len(Pkt!PktEncWrite(Pkt!Plain(n), 0, 0)) = PktEncOverhead + Pkt!sizeWithTags(n) + pad
      /\ Len(Pkt!PktEncWrite(Pkt!Plain(n), 0, 0)) \in Nat
  BY <1>1, WriteLength
<1>5. Pkt!sizeWithTags(m + (d + e)) >= Pkt!sizeWithTags(m) + (d + e)
  BY <1>1, <1>2, TagsGrow
<1>6. Pkt!sizeWithTags(m) \in Nat /\ Pkt!sizeWithTags(n) \in Nat /\ PktEncOverhead \in Nat
  BY <1>1, TagsFor, Sizes
<1> HIDE DEF pad
<1>7. Pkt!sizeWithTags(n) >= Pkt!sizeWithTags(m) + (d + e)
  BY <1>2, <1>5
<1> QED
  BY <1>2, <1>3, <1>4, <1>6, <1>7

\* The sizes of the packets of Inside, each in the next.
Grows(size, length, n, w) ==
    /\ size \in [1..n -> Nat]
    /\ size[1] = Len(Pkt!PktEncWrite(Pkt!Plain(length), minSize, w))
    /\ \A i \in 2..n : size[i] = Pkt!Outer(size[i - 1])
    /\ Pkt!Inside(length, n, w) = size[n]

LEMMA InsideIs ==
    ASSUME minSize \in Nat, NEW length \in Nat, NEW n \in Nat \ {0}, NEW w \in Nat
    PROVE  \E size : Grows(size, length, n, w)
<1> DEFINE first == Len(Pkt!PktEncWrite(Pkt!Plain(length), minSize, w))
           Is(f) == f = [i \in 1..n |->
                           IF i = 1 THEN Len(Pkt!PktEncWrite(Pkt!Plain(length), minSize, w))
                           ELSE Pkt!Outer(f[i - 1])]
           size == CHOOSE f : Is(f)
<1>1. Pkt!Inside(length, n, w) = size[n]
  BY DEF Pkt!Inside
<1>2. first \in Nat
  BY WriteLength
<1>3. \A x \in Nat : Pkt!Outer(x) \in Nat
  <2> TAKE x \in Nat
  <2>1. PktOverhead + x \in Nat
    BY PacketAssumption
  <2> DEFINE m == PktOverhead + x
  <2> HIDE DEF m
  <2>2. Len(Pkt!PktEncWrite(Pkt!Plain(m), 0, 0)) \in Nat
    BY <2>1, WriteLength DEF m
  <2> QED
    BY <2>2 DEF Pkt!Outer, m
<1>4. \E f : Is(f)
  <2> DEFINE g == [x \in Nat |-> Pkt!Outer(x)]
             k == n - 1
  <2>1. g \in [Nat -> Nat] /\ k \in Nat /\ k + 1 = n
    BY <1>3
  <2> HIDE DEF g, first, k
  <2>2. PICK h \in [0..k -> Nat] : Links(h, first, g, k)
    BY <1>2, <2>1, Chain
  <2>3. \A j \in 1..k : h[j] = g[h[j - 1]]
    BY <2>2 DEF Links
  <2> DEFINE f == [i \in 1..n |-> h[i - 1]]
  <2>4. \A i \in 1..n : f[i] = IF i = 1 THEN first ELSE Pkt!Outer(f[i - 1])
    <3> TAKE i \in 1..n
    <3>1. i - 1 \in 0..k /\ f[i] = h[i - 1]
      BY <2>1
    <3>2. CASE i = 1
      BY <2>2, <3>1, <3>2 DEF Links
    <3>3. CASE i # 1
      <4>1. (i - 1) - 1 \in 0..k /\ i - 1 \in 1..n /\ f[i - 1] = h[(i - 1) - 1] /\ i - 1 \in 1..k
        BY <2>1, <3>3
      <4>2. h[i - 1] = g[h[(i - 1) - 1]]
        <5> DEFINE j == i - 1
        <5>1. j \in 1..k
          BY <4>1
        <5> HIDE DEF j
        <5>2. h[j] = g[h[j - 1]]
          BY <2>3, <5>1
        <5> QED
          BY <5>2 DEF j
      <4>3. h[(i - 1) - 1] \in Nat
        BY <2>2, <4>1
      <4>4. g[h[(i - 1) - 1]] = Pkt!Outer(h[(i - 1) - 1])
        BY <4>3 DEF g
      <4>5. f[i] = Pkt!Outer(f[i - 1])
        BY <3>1, <4>1, <4>2, <4>4
      <4> QED
        BY <3>3, <4>5
    <3> QED
      BY <3>2, <3>3
  <2>5. f = [i \in 1..n |-> f[i]]
    OBVIOUS
  <2> HIDE DEF f
  <2>6. f = [i \in 1..n |-> IF i = 1 THEN first ELSE Pkt!Outer(f[i - 1])]
    BY <2>4, <2>5
  <2>7. Is(f)
    BY <2>6, Zenon DEF first
  <2> QED
    BY <2>7
<1>5. Is(size)
  BY <1>4, Zenon
<1> HIDE DEF size
<1>6. size = [i \in 1..n |-> IF i = 1 THEN first ELSE Pkt!Outer(size[i - 1])]
  BY <1>5, Zenon DEF first
<1> HIDE DEF first
<1>7. size[1] = first /\ \A i \in 2..n : size[i] = Pkt!Outer(size[i - 1])
  BY <1>6
<1> DEFINE T == {i \in Nat : i + 1 <= n => size[i + 1] \in Nat}
<1>8. 0 \in T
  BY <1>2, <1>7
<1>9. \A i \in Nat : i \in T => i + 1 \in T
  <2> SUFFICES ASSUME NEW i \in Nat, i \in T, (i + 1) + 1 <= n PROVE size[(i + 1) + 1] \in Nat
    OBVIOUS
  <2>1. (i + 1) + 1 \in 2..n /\ ((i + 1) + 1) - 1 = i + 1 /\ size[i + 1] \in Nat
    OBVIOUS
  <2>2. size[(i + 1) + 1] = Pkt!Outer(size[i + 1])
    BY <1>7, <2>1
  <2> QED
    BY <1>3, <2>1, <2>2
<1>10. \A i \in 1..n : size[i] \in Nat
  <2> HIDE DEF T
  <2>1. Nat \subseteq T
    BY <1>8, <1>9, Induction
  <2> TAKE i \in 1..n
  <2>2. i - 1 \in Nat /\ (i - 1) + 1 = i /\ i <= n
    OBVIOUS
  <2>3. i - 1 \in T
    BY <2>1, <2>2
  <2>4. (i - 1) + 1 <= n => size[(i - 1) + 1] \in Nat
    BY <2>3 DEF T
  <2> QED
    BY <2>2, <2>4
<1>11. size \in [1..n -> Nat]
  BY <1>6, <1>10
<1>12. Grows(size, length, n, w)
  BY <1>1, <1>7, <1>11 DEF Grows, first
<1> QED
  BY <1>12

\* The padding of the innermost packet is never less around it.
LEMMA LargeEnough ==
    ASSUME minSize \in Nat, NEW length \in Nat, NEW n \in Nat \ {0}, NEW w \in Nat, n <= w
    PROVE  /\ w = n => Pkt!Inside(length, n, w) >= minSize
           /\ w = n + 1 => Pkt!Outer(Pkt!Inside(length, n, w)) >= minSize
<1> DEFINE pad == Pkt!sizePadCalc(length, minSize, w)
<1>1. PICK bare \in [0..w -> Bases] :
         /\ bare[0] = length - PktOverhead
         /\ \A i \in 1..w : bare[i] = Larger(bare[i - 1])
         /\ Pkt!wrapped(length, w) = bare[w]
  BY WrappedIs
<1>2. PICK size : Grows(size, length, n, w)
  BY InsideIs
<1>3. /\ size \in [1..n -> Nat]
      /\ size[1] = Len(Pkt!PktEncWrite(Pkt!Plain(length), minSize, w))
      /\ \A i \in 2..n : size[i] = Pkt!Outer(size[i - 1])
      /\ Pkt!Inside(length, n, w) = size[n]
  BY <1>2 DEF Grows
<1>4. /\ pad \in Nat /\ Pkt!wrapped(length, w) \in Int
      /\ pad >= minSize - Pkt!wrapped(length, w)
  BY PadIsNat
<1>5. size[1] = PktEncOverhead + Pkt!sizeWithTags(length) + pad
  BY <1>3, WriteLength
<1>6. bare[1] = PktEncOverhead + Pkt!sizeWithTags(length)
  <2>1. 1 \in 1..w /\ 1 - 1 = 0
    OBVIOUS
  <2>2. bare[1] = Larger(bare[0])
    BY <1>1, <2>1
  <2>3. PktOverhead + (length - PktOverhead) = length
    BY PacketAssumption
  <2> QED
    BY <1>1, <2>2, <2>3 DEF Larger
<1> HIDE DEF pad
<1>7. size[1] >= bare[1] + pad
  <2>1. PktEncOverhead \in Nat /\ Pkt!sizeWithTags(length) \in Nat
    BY Sizes, TagsFor
  <2> QED
    BY <1>4, <1>5, <1>6, <2>1
<1> DEFINE T == {i \in Nat : i + 1 <= n => size[i + 1] >= bare[i + 1] + pad}
<1>8. 0 \in T
  BY <1>7
<1>9. \A i \in Nat : i \in T => i + 1 \in T
  <2> SUFFICES ASSUME NEW i \in Nat, i \in T, (i + 1) + 1 <= n
               PROVE  size[(i + 1) + 1] >= bare[(i + 1) + 1] + pad
    OBVIOUS
  <2> DEFINE j == i + 1
  <2>1. size[j] >= bare[j] + pad
    OBVIOUS
  <2>2. j \in 1..n /\ j + 1 \in 2..n /\ j + 1 \in 1..w /\ (j + 1) - 1 = j /\ j \in 0..w
    OBVIOUS
  <2> HIDE DEF j
  <2>3. size[j + 1] = Pkt!Outer(size[j]) /\ size[j] \in Nat
    BY <1>3, <2>2
  <2>4. bare[j + 1] = Larger(bare[j]) /\ bare[j] \in Bases
    BY <1>1, <2>2
  <2>5. Pkt!Outer(size[j]) >= Larger(bare[j]) + pad
    BY <1>4, <2>1, <2>3, <2>4, OuterIsLarger
  <2> QED
    BY <2>3, <2>4, <2>5 DEF j
<1>10. size[n] >= bare[n] + pad
  <2> HIDE DEF T
  <2>1. Nat \subseteq T
    BY <1>8, <1>9, Induction
  <2>2. n - 1 \in Nat /\ (n - 1) + 1 = n /\ n <= n
    OBVIOUS
  <2>3. n - 1 \in T
    BY <2>1, <2>2
  <2>4. (n - 1) + 1 <= n => size[(n - 1) + 1] >= bare[(n - 1) + 1] + pad
    BY <2>3 DEF T
  <2> QED
    BY <2>2, <2>4
<1>11. bare[n] \in Bases /\ bare[n] \in Int /\ size[n] \in Nat
  <2>1. bare[n] \in Bases /\ size[n] \in Nat
    BY <1>1, <1>3
  <2> QED
    BY <2>1 DEF Bases
<1>12. w = n => Pkt!Inside(length, n, w) >= minSize
  BY <1>1, <1>3, <1>4, <1>10, <1>11
<1>13. w = n + 1 => Pkt!Outer(Pkt!Inside(length, n, w)) >= minSize
  <2> SUFFICES ASSUME w = n + 1 PROVE Pkt!Outer(size[n]) >= minSize
    BY <1>3
  <2>1. Pkt!Outer(size[n]) \in Nat /\ Pkt!Outer(size[n]) >= Larger(bare[n]) + pad
    BY <1>4, <1>10, <1>11, OuterIsLarger
  <2>2. w \in 1..w /\ w - 1 = n
    OBVIOUS
  <2>3. bare[w] = Larger(bare[n])
    BY <1>1, <2>2
  <2>4. Larger(bare[n]) \in Nat
    BY <1>11, LargerIsBase
  <2> QED
    BY <1>1, <1>4, <2>1, <2>3, <2>4
<1> QED
  BY <1>12, <1>13

-----------------------------------------------------------------------------
(* Packets are right *)

LEMMA PaddingIs ==
    ASSUME payload \in Nat, minSize \in Nat
    PROVE  Padding \in Nat /\ Pkt!Written = Sent(payload, Padding)
<1>1. Len(Pkt!Plain(payload)) = payload
  BY PlainText
<1>2. Padding = Pkt!sizePadCalc(payload, minSize, 1)
  BY <1>1 DEF Padding
<1>3. Pkt!sizePadCalc(payload, minSize, 1) \in Nat
  BY PadIsNat
<1> QED
  BY <1>2, <1>3, Zenon DEF Padding, Pkt!Written, Pkt!PktEncWrite, Sent

\* Nothing is read at first.
LEMMA PacketStarts == Pkt!Init => PacketInvariant
<1> SUFFICES ASSUME Pkt!Init PROVE PacketInvariant
  OBVIOUS
<1>1. payload \in Nat /\ minSize \in Nat
  BY PacketAssumption DEF Pkt!Init
<1>2. Padding \in Nat /\ Pkt!Written = Sent(payload, Padding)
  BY <1>1, PaddingIs
<1>3. damage \in Harms(Sent(payload, Padding))
  BY <1>2 DEF Pkt!Init, Harms
<1> DEFINE w == Sent(payload, Padding)
           d == Pkt!Damaged(w, damage)
<1>4. stream = d
  BY <1>2 DEF Pkt!Init
<1>5. w \in ByteSeqs
  BY <1>1, <1>2, Layout
<1> HIDE DEF w
<1>6. d \in ByteSeqs
  BY <1>3, <1>5, Harm DEF w
<1> HIDE DEF d
<1>7. Read(d, 0, stream)
  <2>1. Len(d) \in Nat /\ d = SubSeq(d, 1, Len(d))
    BY <1>6 DEF ByteSeqs
  <2> QED
    BY <1>4, <2>1 DEF Read, Clean
<1>8. Part(0, 0) = <<>> /\ <<>> \in Seq(Nat)
  BY DEF Part
<1>9. /\ reader.stage = "header" /\ reader.nonce = 0 /\ reader.out = Part(0, 0)
      /\ reader \in Readers
  BY <1>8 DEF Pkt!Init, Readers, ReadStages
<1>10. \E o \in 0..payload : reader.out = Part(0, o)
  BY <1>1, <1>9
<1>11. Reading(payload, Padding, damage, stream, reader)
  BY <1>7, <1>9, <1>10 DEF Reading, d, w
<1> QED
  BY <1>1, <1>2, <1>3, <1>11 DEF PacketInvariant

\* Every step of the reader keeps what it has in order.
LEMMA ReaderGoes == PacketInvariant /\ [Pkt!Next]_Pkt!vars => PacketInvariant'
<1> SUFFICES ASSUME PacketInvariant, [Pkt!Next]_Pkt!vars
             PROVE  PacketInvariant'
  OBVIOUS
<1> DEFINE n == payload
           pad == Padding
<1>1. /\ n \in Nat /\ minSize \in Nat /\ pad \in Nat /\ damage \in Harms(Sent(n, pad))
      /\ Reading(n, pad, damage, stream, reader)
  BY DEF PacketInvariant
<1>2. payload' = payload /\ minSize' = minSize /\ damage' = damage
  BY DEF Pkt!Next, Pkt!vars, Pkt!ReadHeader, Pkt!FullRead, Pkt!SizeRead, Pkt!RestRead,
         Pkt!LastRead, Pkt!PadRead, Pkt!Go, Pkt!Fails
<1>3. SUFFICES Reading(n, pad, damage, stream', reader')
  <2>1. Padding' = Padding
    BY <1>2 DEF Padding
  <2> QED
    BY <1>1, <1>2, <1>3, <2>1 DEF PacketInvariant
<1>4. Pkt!Ct = Taken(stream)
  BY DEF Pkt!Ct, Taken
<1> HIDE DEF n, pad
<1>5. ASSUME damage.kind # "none", Pkt!Fails
      PROVE  Reading(n, pad, damage, stream', reader')
  <2>1. reader' = [reader EXCEPT !.stage = "error"]
    BY <1>5 DEF Pkt!Fails, Pkt!Go
  <2>2. Reading(n, pad, damage, stream', [reader EXCEPT !.stage = "error"])
    BY <1>1, <1>5, ErrorGoes
  <2> QED
    BY <2>1, <2>2
<1>6. CASE Pkt!ReadHeader
  <2> DEFINE ok == Len(stream) >= PktEncOverhead
                   /\ SubSeq(stream, 1, PktEncOverhead) = Pkt!Header
             r2 == [reader EXCEPT !.stage = IF ok THEN "blocks" ELSE "error"]
  <2>1. reader' = r2 /\ stream' = Pkt!Drop(stream, PktEncOverhead) /\ reader.stage = "header"
    BY <1>6 DEF Pkt!ReadHeader
  <2>2. Reading(n, pad, damage, Pkt!Drop(stream, PktEncOverhead), r2)
    BY <1>1, <2>1, HeaderGoes
  <2> QED
    BY <2>1, <2>2
<1>7. CASE Pkt!FullRead
  <2> DEFINE r2 == [reader EXCEPT !.out = @ \o Taken(stream)[1].pt, !.nonce = @ + 1]
  <2>1. /\ reader' = r2 /\ stream' = Pkt!Drop(stream, Len(Taken(stream)))
        /\ reader.stage = "blocks" /\ Pkt!Opens("full", reader.nonce, Taken(stream))
    BY <1>4, <1>7 DEF Pkt!FullRead, Pkt!BlockOpens, Pkt!Go
  <2>2. Reading(n, pad, damage, Pkt!Drop(stream, Len(Taken(stream))), r2)
    BY <1>1, <2>1, FullGoes
  <2> QED
    BY <2>1, <2>2
<1>8. CASE Pkt!SizeRead
  <2>1. CASE Pkt!Opens("size", reader.nonce, Taken(stream))
    <3> DEFINE ct == Taken(stream)
               r2 == [reader EXCEPT !.stage = "rest",
                                    !.pt = Pkt!Drop(ct[1].pt, Pkt!PktSizeOverhead),
                                    !.left = ct[1].pt[1] - Len(reader.out),
                                    !.pad = ct[1].pt[2]]
    <3>1. reader' = r2 /\ stream' = Pkt!Drop(stream, Len(ct)) /\ reader.stage = "blocks"
      BY <1>4, <1>8, <2>1 DEF Pkt!SizeRead, Pkt!Go
    <3>2. Reading(n, pad, damage, Pkt!Drop(stream, Len(ct)), r2)
      BY <1>1, <2>1, <3>1, SizeGoes
    <3> QED
      BY <3>1, <3>2
  <2>2. CASE ~Pkt!Opens("size", reader.nonce, Taken(stream))
    <3>1. /\ Pkt!Fails /\ reader.stage = "blocks"
          /\ ~(Len(Taken(stream)) = Pkt!Sealed /\ Pkt!Opens("full", reader.nonce, Taken(stream)))
      BY <1>4, <1>8, <2>2 DEF Pkt!SizeRead, Pkt!BlockOpens
    <3>2. damage.kind # "none"
      BY <1>1, <2>2, <3>1, BlockStays
    <3> QED
      BY <1>5, <3>1, <3>2
  <2> QED
    BY <2>1, <2>2
<1>9. CASE Pkt!RestRead
  <2>1. reader.stage = "rest" /\ reader.left > Len(reader.pt)
    BY <1>9 DEF Pkt!RestRead
  <2>2. CASE Pkt!Opens("full", reader.nonce + 1, Taken(stream))
    <3> DEFINE r2 == [reader EXCEPT !.out = @ \o reader.pt, !.left = @ - Len(reader.pt),
                                    !.pt = Taken(stream)[1].pt, !.nonce = @ + 1]
    <3>1. reader' = r2 /\ stream' = Pkt!Drop(stream, Len(Taken(stream)))
      BY <1>4, <1>9, <2>2 DEF Pkt!RestRead, Pkt!Go
    <3>2. Reading(n, pad, damage, Pkt!Drop(stream, Len(Taken(stream))), r2)
      BY <1>1, <2>1, <2>2, RestGoes
    <3> QED
      BY <3>1, <3>2
  <2>3. CASE ~Pkt!Opens("full", reader.nonce + 1, Taken(stream))
    <3> DEFINE r2 == [reader EXCEPT !.stage = "error", !.out = @ \o reader.pt]
    <3>1. reader' = r2 /\ stream' = Pkt!Drop(stream, Len(Taken(stream)))
      BY <1>4, <1>9, <2>3 DEF Pkt!RestRead, Pkt!Go
    <3>2. damage.kind # "none"
      BY <1>1, <2>1, <2>3, RestBlock
    <3>3. Reading(n, pad, damage, Pkt!Drop(stream, Len(Taken(stream))), r2)
      BY <1>1, <2>1, <3>2, RestFails
    <3> QED
      BY <3>1, <3>3
  <2> QED
    BY <2>2, <2>3
<1>10. CASE Pkt!LastRead
  <2> DEFINE zeros == Pkt!Drop(reader.pt, reader.left)
             bad == reader.pad < Len(zeros) \/ zeros # Pkt!Zeros(Len(zeros))
             r2 == [reader EXCEPT !.out = @ \o SubSeq(reader.pt, 1, reader.left),
                                  !.pt = <<>>, !.left = 0, !.pad = @ - Len(zeros),
                                  !.stage = IF bad THEN "error"
                                            ELSE IF reader.pad = Len(zeros) THEN "done" ELSE "pad"]
  <2>1. /\ reader' = r2 /\ stream' = stream
        /\ reader.stage = "rest" /\ reader.left <= Len(reader.pt)
    BY <1>10 DEF Pkt!LastRead
  <2>2. Reading(n, pad, damage, stream, r2)
    BY <1>1, <2>1, LastGoes
  <2> QED
    BY <2>1, <2>2
<1>11. CASE Pkt!PadRead
  <2> DEFINE ct == Taken(stream)
             good == AllPad(ct, reader.left)
             r2 == [reader EXCEPT !.pad = @ - Len(ct), !.left = @ + Len(ct),
                                  !.stage = IF reader.pad = Len(ct) THEN "done"
                                            ELSE IF reader.pad < Len(ct) THEN "error" ELSE "pad"]
  <2>1. reader.stage = "pad" /\ IF good THEN Pkt!Go(r2) ELSE Pkt!Fails
    BY <1>4, <1>11 DEF Pkt!PadRead, AllPad
  <2>2. IF good THEN Reading(n, pad, damage, Pkt!Drop(stream, Len(ct)), r2)
                ELSE damage.kind # "none"
    BY <1>1, <2>1, PadGoes
  <2>3. CASE good
    <3>1. Pkt!Go(r2) /\ Reading(n, pad, damage, Pkt!Drop(stream, Len(ct)), r2)
      BY <2>1, <2>2, <2>3
    <3> HIDE DEF r2
    <3>2. reader' = r2 /\ stream' = Pkt!Drop(stream, Len(ct))
      BY <1>4, <3>1 DEF Pkt!Go
    <3> QED
      BY <3>1, <3>2
  <2>4. CASE ~good
    <3>1. Pkt!Fails /\ damage.kind # "none"
      BY <2>1, <2>2, <2>4
    <3> QED
      BY <1>5, <3>1
  <2> QED
    BY <2>3, <2>4
<1>12. CASE UNCHANGED Pkt!vars
  BY <1>1, <1>12 DEF Pkt!vars
<1> QED
  BY <1>6, <1>7, <1>8, <1>9, <1>10, <1>11, <1>12 DEF Pkt!Next

LEMMA ReadersAreRight == PacketInvariant => PacketOK
<1> SUFFICES ASSUME PacketInvariant PROVE PacketOK
  OBVIOUS
<1>1. /\ payload \in Nat /\ minSize \in Nat
      /\ Reading(payload, Padding, damage, stream, reader)
  BY DEF PacketInvariant
<1>2. \A o : Pkt!Plain(o) = Part(0, o)
  <2> TAKE o
  <2> QED
    BY PlainText DEF Part, Pkt!Plain
<1>3. PICK o \in 0..payload : reader.out = Part(0, o)
  BY <1>1 DEF Reading
<1>4. Len(Part(0, o)) = o
  BY <1>1, PartType
<1>5. Pkt!ReadsBack
  BY <1>1, <1>2, <1>3, <1>4 DEF Reading, Pkt!ReadsBack
<1>6. Pkt!AtLeastMinSize
  <2> SUFFICES ASSUME NEW m \in 1..MaxWrappers
               PROVE  Pkt!Around(m) >= minSize /\ Pkt!Outer(Pkt!AreaAround(m)) >= minSize
    BY DEF Pkt!AtLeastMinSize
  <2>1. m \in Nat \ {0} /\ m \in Nat /\ m + 1 \in Nat /\ m <= m /\ m <= m + 1
    BY PacketAssumption
  <2>2. Pkt!Inside(payload, m, m) >= minSize
    BY <1>1, <2>1, LargeEnough
  <2> DEFINE in == PktOverhead + Len(Pkt!PktEncWrite(Pkt!Plain(payload), 0, 0))
  <2>3. in \in Nat
    BY <1>1, WriteLength, PacketAssumption
  <2> HIDE DEF in
  <2>4. Pkt!Outer(Pkt!Inside(in, m, m + 1)) >= minSize
    BY <1>1, <2>1, <2>3, LargeEnough
  <2> QED
    BY <2>2, <2>4 DEF Pkt!Around, Pkt!AreaAround, in
<1> QED
  BY <1>5, <1>6 DEF PacketOK, Pkt!PacketOK

\* Whatever the length of a packet, and whatever size it is padded to, what
\* is read of it is what was written, one without an end or with a byte
\* changed is never read to its end; a packet in as many others as there are
\* hops is at least as large as was asked for, and an area's packet would be
\* with one encryption more, which its padding reckons with (PktEncWrite,
\* PktEncRead and sizePadCalc of src/src/pkt.go, as Tx calls them).
THEOREM PacketCorrect == Pkt!Spec => []PacketOK
<1>1. Pkt!Init => PacketInvariant
  BY PacketStarts
<1>2. PacketInvariant /\ [Pkt!Next]_Pkt!vars => PacketInvariant'
  BY ReaderGoes
<1>3. PacketInvariant => PacketOK
  BY ReadersAreRight
<1> QED
  BY <1>1, <1>2, <1>3, PTL DEF Pkt!Spec

HIDE HopsAreNat

-----------------------------------------------------------------------------
(* Loops *)

Listed(f, n) == f = [i \in 0..n |-> f[i]]

\* What is computed step by step stays where each step stays.
LEMMA Steps ==
    ASSUME NEW T, NEW a \in T, NEW g \in [T -> T], NEW n \in Nat, NEW f,
           Listed(f, n), f[0] = a,
           \A i \in 1..n : f[i - 1] \in T => f[i] = g[f[i - 1]]
    PROVE  f \in [0..n -> T] /\ Links(f, a, g, n)
<1> DEFINE U == {i \in Nat : i <= n => f[i] \in T}
<1>1. 0 \in U
  OBVIOUS
<1>2. \A i \in Nat : i \in U => i + 1 \in U
  <2> SUFFICES ASSUME NEW i \in Nat, i \in U, i + 1 <= n PROVE f[i + 1] \in T
    OBVIOUS
  <2>1. i + 1 \in 1..n /\ (i + 1) - 1 = i /\ f[i] \in T
    OBVIOUS
  <2>2. f[i + 1] = g[f[i]]
    BY <2>1
  <2> QED
    BY <2>1, <2>2
<1>3. \A i \in 0..n : f[i] \in T
  <2> HIDE DEF U
  <2>1. Nat \subseteq U
    BY <1>1, <1>2, Induction
  <2> QED
    BY <2>1 DEF U
<1>4. f \in [0..n -> T]
  BY <1>3 DEF Listed
<1>5. \A i \in 1..n : f[i - 1] \in T
  BY <1>3
<1> QED
  BY <1>4, <1>5 DEF Links

Lessens(g, m, T) == \A x \in T : g[x] = x \/ m[g[x]] < m[x]

AtRest(x, a, g, m) == g[x] = x /\ (x = a \/ m[x] < m[a])

\* A loop each step of which has less left to do, or nothing, comes to an end.
LEMMA Loop ==
    ASSUME NEW T, NEW a \in T, NEW g \in [T -> T], NEW n \in Nat,
           NEW m \in [T -> Nat], m[a] <= n,
           Lessens(g, m, T), NEW f \in [0..n -> T], Links(f, a, g, n)
    PROVE  AtRest(f[n], a, g, m)
<1> DEFINE Good(i) == /\ g[f[i]] = f[i] \/ m[f[i]] + i <= m[a]
                      /\ f[i] = a \/ m[f[i]] < m[a]
           U == {i \in Nat : i <= n => Good(i)}
<1>1. 0 \in U
  BY DEF Links
<1>2. ASSUME NEW i \in Nat, i + 1 <= n, Good(i) PROVE Good(i + 1)
  <2> DEFINE x == f[i]
             y == f[i + 1]
  <2>1. x \in T /\ y \in T /\ m[x] \in Nat /\ m[y] \in Nat /\ m[a] \in Nat
    BY <1>2
  <2>2. y = g[x]
    <3>1. i + 1 \in 1..n /\ (i + 1) - 1 = i
      BY <1>2
    <3> QED
      BY <3>1 DEF Links
  <2>3. g[x] = x \/ m[x] + i <= m[a]
    BY <1>2
  <2>4. x = a \/ m[x] < m[a]
    BY <1>2
  <2> HIDE DEF x, y
  <2>5. y = x \/ m[y] < m[x]
    BY <2>1, <2>2 DEF Lessens
  <2>6. g[y] = y \/ m[y] + (i + 1) <= m[a]
    BY <2>1, <2>2, <2>3, <2>5
  <2>7. y = a \/ m[y] < m[a]
    BY <2>1, <2>4, <2>5
  <2> QED
    BY <2>6, <2>7 DEF y
<1>3. Good(n)
  <2>1. \A i \in Nat : i \in U => i + 1 \in U
    BY <1>2
  <2> HIDE DEF U, Good
  <2>2. n \in U
    BY <1>1, <2>1, Induction
  <2> QED
    BY <2>2 DEF U
<1>4. f[n] \in T /\ g[f[n]] \in T /\ m[f[n]] \in Nat /\ m[g[f[n]]] \in Nat
  OBVIOUS
<1>5. g[f[n]] = f[n] \/ m[g[f[n]]] < m[f[n]]
  BY <1>4 DEF Lessens
<1>6. g[f[n]] = f[n] /\ (f[n] = a \/ m[f[n]] < m[a])
  BY <1>3, <1>4, <1>5
<1> QED
  BY <1>6 DEF AtRest

-----------------------------------------------------------------------------
(* The tree *)

\* P[i] leaves are below a node of level i of a tree of n leaves, but for the
\* last node of the level.
Powers(P, n) ==
    P \in [0..n -> Nat] /\ P[0] = 1 /\ \A i \in 1..n : P[i] = 2 * P[i - 1]

\* L[i] are the hashes of level i: as many as the leaves need, pairs of the
\* level below hashed together, and an odd one taken over.
Widths(L, P, n) ==
    \A i \in 0..n : /\ Len(L[i]) \in Nat
                    /\ Len(L[i]) * P[i] >= n /\ (Len(L[i]) - 1) * P[i] < n
Above(u, h, n) ==
    /\ Len(u) = (n + 1) \div 2
    /\ \A k \in Nat \ {0} : 2 * k <= n => u[k] = Hash!Node(h[2 * k - 1], h[2 * k])
    /\ \A k \in Nat : n = 2 * k + 1 => u[k + 1] = h[2 * k + 1]
Tree(L, P, n) ==
    /\ Powers(P, n) /\ Widths(L, P, n)
    /\ \A i \in 0..(n - 1) : Above(L[i + 1], L[i], Len(L[i]))

LEMMA PowersExist == ASSUME NEW n \in Nat PROVE \E P : Powers(P, n)
<1> DEFINE g == [x \in Nat |-> 2 * x]
<1>1. g \in [Nat -> Nat] /\ 1 \in Nat
  OBVIOUS
<1> HIDE DEF g
<1>2. PICK P \in [0..n -> Nat] : Links(P, 1, g, n)
  BY <1>1, Chain
<1>3. \A i \in 1..n : P[i] = 2 * P[i - 1]
  <2> TAKE i \in 1..n
  <2>1. P[i - 1] \in Nat /\ P[i] = g[P[i - 1]]
    BY <1>2 DEF Links
  <2> QED
    BY <2>1 DEF g
<1> QED
  BY <1>2, <1>3 DEF Powers, Links

LEMMA UpIs ==
    ASSUME NEW h, NEW n \in Nat, Len(h) = n
    PROVE  Above(Hash!Up(h), h, n)
<1> DEFINE m == (n + 1) \div 2
           u == [k \in 1..m |-> IF 2 * k <= n THEN Hash!Node(h[2 * k - 1], h[2 * k]) ELSE h[n]]
<1>1. Hash!Up(h) = u
  BY DEF Hash!Up
<1>2. m \in Nat /\ (2 * m = n \/ 2 * m = n + 1)
  OBVIOUS
<1> HIDE DEF m
<1>3. Len(u) = m
  BY <1>2
<1>4. \A k \in Nat \ {0} : 2 * k <= n => u[k] = Hash!Node(h[2 * k - 1], h[2 * k])
  <2> TAKE k \in Nat \ {0}
  <2> SUFFICES ASSUME 2 * k <= n PROVE u[k] = Hash!Node(h[2 * k - 1], h[2 * k])
    OBVIOUS
  <2>1. k \in 1..m
    BY <1>2
  <2> QED
    BY <2>1
<1>5. \A k \in Nat : n = 2 * k + 1 => u[k + 1] = h[2 * k + 1]
  <2> TAKE k \in Nat
  <2> SUFFICES ASSUME n = 2 * k + 1 PROVE u[k + 1] = h[2 * k + 1]
    OBVIOUS
  <2>1. k + 1 \in 1..m /\ ~(2 * (k + 1) <= n)
    BY <1>2
  <2> QED
    BY <2>1
<1> HIDE DEF u
<1> QED
  BY <1>1, <1>3, <1>4, <1>5 DEF m, Above

\* MTHFat's levels are such a tree.
LEMMA TreeIs ==
    ASSUME NEW h, NEW n \in Nat, n >= 2, Len(h) = n
    PROVE  \E L, P : Tree(L, P, n) /\ L[0] = h /\ Hash!Top(h) = L[n][1]
<1> DEFINE Is(f, k) == f = [i \in 0..k |-> IF i = 0 THEN h ELSE Hash!Up(f[i - 1])]
           L == CHOOSE f : Is(f, n)
<1>1. Hash!Top(h) = L[n][1]
  BY DEF Hash!Top
<1>2. \E f : Is(f, n)
  <2> DEFINE U == {k \in Nat : \E f : Is(f, k)}
  <2>1. 0 \in U
    <3>1. Is([i \in 0..0 |-> h], 0)
      OBVIOUS
    <3> QED
      BY <3>1
  <2>2. ASSUME NEW k \in Nat, NEW f, Is(f, k) PROVE \E f2 : Is(f2, k + 1)
    <3> DEFINE f2 == [i \in 0..(k + 1) |-> IF i <= k THEN f[i] ELSE Hash!Up(f[k])]
    <3>1. ASSUME NEW i \in 0..(k + 1)
          PROVE  f2[i] = IF i = 0 THEN h ELSE Hash!Up(f2[i - 1])
      <4>1. CASE i = 0
        BY <2>2, <4>1
      <4>2. CASE i # 0 /\ i <= k
        <5>1. i \in 0..k /\ i - 1 \in 0..k
          BY <4>2
        <5>2. f[i] = Hash!Up(f[i - 1])
          BY <2>2, <4>2, <5>1
        <5>3. f2[i] = f[i] /\ f2[i - 1] = f[i - 1]
          BY <5>1
        <5> QED
          BY <4>2, <5>2, <5>3
      <4>3. CASE i = k + 1
        <5>1. f2[i] = Hash!Up(f[k]) /\ f2[i - 1] = f[k] /\ i # 0
          BY <4>3
        <5> QED
          BY <5>1
      <4> QED
        BY <4>1, <4>2, <4>3
    <3>2. f2 = [i \in 0..(k + 1) |-> f2[i]]
      OBVIOUS
    <3> HIDE DEF f2
    <3>3. f2 = [i \in 0..(k + 1) |-> IF i = 0 THEN h ELSE Hash!Up(f2[i - 1])]
      BY <3>1, <3>2
    <3> QED
      BY <3>3
  <2>3. \A k \in Nat : k \in U => k + 1 \in U
    BY <2>2
  <2>4. n \in U
    <3> HIDE DEF U
    <3> QED
      BY <2>1, <2>3, Induction
  <2> QED
    BY <2>4
<1>3. Is(L, n)
  BY <1>2, Zenon
<1> HIDE DEF L
<1>4. L[0] = h /\ \A i \in 0..(n - 1) : L[i + 1] = Hash!Up(L[i])
  <2>1. L[0] = h
    BY <1>3
  <2>2. ASSUME NEW i \in 0..(n - 1) PROVE L[i + 1] = Hash!Up(L[i])
    <3>1. i + 1 \in 0..n /\ i + 1 # 0 /\ (i + 1) - 1 = i
      OBVIOUS
    <3> QED
      BY <1>3, <3>1
  <2> QED
    BY <2>1, <2>2
<1> HIDE DEF Is
<1>5. PICK P : Powers(P, n)
  BY PowersExist
<1> DEFINE Wide(i) == /\ Len(L[i]) \in Nat
                      /\ Len(L[i]) * P[i] >= n /\ (Len(L[i]) - 1) * P[i] < n
           W == {i \in Nat : i <= n => Wide(i)}
<1>6. Wide(0)
  <2>1. Len(L[0]) = n /\ P[0] = 1
    BY <1>4, <1>5 DEF Powers
  <2>2. n * 1 >= n /\ (n - 1) * 1 < n
    OBVIOUS
  <2> QED
    BY <2>1, <2>2
<1>7. ASSUME NEW i \in Nat, i + 1 <= n, Wide(i) PROVE Wide(i + 1)
  <2> DEFINE w == Len(L[i])
             v == Len(L[i + 1])
             p == P[i]
  <2>1. w \in Nat /\ p \in Nat /\ w * p >= n /\ (w - 1) * p < n
    BY <1>5, <1>7 DEF Powers
  <2>2. P[i + 1] = 2 * p
    <3>1. i + 1 \in 1..n /\ (i + 1) - 1 = i
      BY <1>7
    <3> QED
      BY <1>5, <3>1 DEF Powers
  <2>3. v = (w + 1) \div 2
    <3>1. i \in 0..(n - 1)
      BY <1>7
    <3> QED
      BY <1>4, <1>7, <3>1, UpIs DEF Above
  <2> HIDE DEF w, v, p
  <2>4. v \in Nat /\ (2 * v = w \/ 2 * v = w + 1)
    BY <2>1, <2>3
  <2>5. v * (2 * p) = (2 * v) * p /\ (v - 1) * (2 * p) = (2 * v - 2) * p
    BY <2>1, <2>4
  <2>6. (2 * v) * p >= n /\ (2 * v - 2) * p < n
    <3>1. CASE 2 * v = w
      <4>1. (w - 2) * p = (w - 1) * p - p
        BY <2>1
      <4> QED
        BY <2>1, <2>4, <3>1, <4>1
    <3>2. CASE 2 * v = w + 1
      <4>1. (w + 1) * p = w * p + p /\ w * p \in Nat
        BY <2>1
      <4>2. 2 * v - 2 = w - 1
        BY <2>1, <2>4, <3>2
      <4> QED
        BY <2>1, <2>4, <3>2, <4>1, <4>2
    <3> QED
      BY <2>4, <3>1, <3>2
  <2>7. v \in Nat /\ v * (2 * p) >= n /\ (v - 1) * (2 * p) < n
    BY <2>4, <2>5, <2>6
  <2> QED
    BY <2>2, <2>7 DEF v
<1>8. \A i \in 0..n : Wide(i)
  <2>1. 0 \in W /\ \A i \in Nat : i \in W => i + 1 \in W
    BY <1>6, <1>7
  <2> HIDE DEF W, Wide
  <2>2. Nat \subseteq W
    BY <2>1, Induction
  <2> QED
    BY <2>2 DEF W
<1>9. ASSUME NEW i \in 0..(n - 1) PROVE Above(L[i + 1], L[i], Len(L[i]))
  <2>1. Len(L[i]) \in Nat /\ L[i + 1] = Hash!Up(L[i])
    BY <1>4, <1>8
  <2> QED
    BY <2>1, UpIs
<1>10. Tree(L, P, n)
  BY <1>5, <1>8, <1>9 DEF Tree, Widths
<1> QED
  BY <1>1, <1>4, <1>10

LEMMA PowerLarge ==
    ASSUME NEW n \in Nat, NEW P, Powers(P, n), NEW i \in 0..n
    PROVE  P[i] \in Nat /\ P[i] >= i + 1
<1> DEFINE U == {k \in Nat : k <= n => P[k] >= k + 1}
<1>1. 0 \in U
  BY DEF Powers
<1>2. \A k \in Nat : k \in U => k + 1 \in U
  <2> SUFFICES ASSUME NEW k \in Nat, k \in U, k + 1 <= n PROVE P[k + 1] >= (k + 1) + 1
    OBVIOUS
  <2>1. k + 1 \in 1..n /\ (k + 1) - 1 = k /\ P[k] >= k + 1 /\ k \in 0..n
    OBVIOUS
  <2>2. P[k + 1] = 2 * P[k] /\ P[k] \in Nat
    BY <2>1 DEF Powers
  <2> QED
    BY <2>1, <2>2
<1>3. i \in U
  <2> HIDE DEF U
  <2> QED
    BY <1>1, <1>2, Induction
<1> QED
  BY <1>3 DEF Powers

LEMMA PowerMultiple ==
    ASSUME NEW n \in Nat, NEW P, Powers(P, n), NEW i \in 0..n, NEW j \in 0..n, i < j
    PROVE  \E q \in Nat \ {0} : P[j] = 2 * (q * P[i])
<1> DEFINE Good(d) == \E q \in Nat \ {0} : P[(i + 1) + d] = 2 * (q * P[i])
           U == {d \in Nat : (i + 1) + d <= n => Good(d)}
<1>1. ASSUME NEW k \in 0..n, k + 1 <= n PROVE P[k] \in Nat /\ P[k + 1] = 2 * P[k]
  <2>1. k + 1 \in 1..n /\ (k + 1) - 1 = k
    BY <1>1
  <2> QED
    BY <2>1 DEF Powers
<1>2. 0 \in U
  <2>1. i + 1 <= n /\ (i + 1) + 0 = i + 1
    OBVIOUS
  <2>2. P[i] \in Nat /\ P[i + 1] = 2 * (1 * P[i])
    BY <1>1, <2>1
  <2> QED
    BY <2>1, <2>2
<1>3. ASSUME NEW d \in Nat, (i + 1) + (d + 1) <= n, Good(d) PROVE Good(d + 1)
  <2>1. PICK q \in Nat \ {0} : P[(i + 1) + d] = 2 * (q * P[i])
    BY <1>3
  <2> DEFINE k == (i + 1) + d
             p == P[i]
  <2>2. k \in 0..n /\ k + 1 <= n /\ (i + 1) + (d + 1) = k + 1 /\ i \in 0..n /\ i + 1 <= n
    BY <1>3
  <2>3. P[k] = 2 * (q * p)
    BY <2>1
  <2> HIDE DEF k
  <2>4. P[k + 1] = 2 * P[k] /\ p \in Nat
    BY <1>1, <2>2
  <2> HIDE DEF p
  <2>5. 2 * (2 * (q * p)) = 2 * ((2 * q) * p) /\ 2 * q \in Nat \ {0}
    BY <2>4
  <2>6. P[k + 1] = 2 * ((2 * q) * p)
    BY <2>3, <2>4, <2>5
  <2> QED
    BY <2>2, <2>5, <2>6 DEF p
<1>4. \A d \in Nat : d \in U => d + 1 \in U
  BY <1>3
<1>5. (j - i) - 1 \in U /\ (i + 1) + ((j - i) - 1) = j
  <2> HIDE DEF U
  <2> QED
    BY <1>2, <1>4, Induction
<1> QED
  <2>1. Good((j - i) - 1)
    BY <1>5
  <2> QED
    BY <1>5, <2>1

\* Where a node of a level and one of a higher level meet, the lower one is
\* the first of a pair.
LEMMA Aligned ==
    ASSUME NEW n \in Nat, NEW P, Powers(P, n), NEW i \in 0..n, NEW j \in 0..n,
           NEW c \in Nat, NEW d \in Nat, c * P[i] = d * P[j], i < j
    PROVE  c % 2 = 0
<1> DEFINE p == P[i]
<1>1. PICK q \in Nat \ {0} : P[j] = 2 * (q * p)
  BY PowerMultiple
<1>2. p \in Nat /\ p > 0
  BY PowerLarge
<1>3. c * p = d * (2 * (q * p))
  BY <1>1
<1> HIDE DEF p
<1>4. d * (2 * (q * p)) = (2 * (d * q)) * p
  BY <1>2
<1> DEFINE e == d * q
<1>5. e \in Nat
  OBVIOUS
<1>6. c * p = (2 * e) * p
  BY <1>3, <1>4
<1> HIDE DEF e
<1>7. c = 2 * e
  <2>1. c * p - (2 * e) * p = (c - 2 * e) * p
    BY <1>2, <1>5
  <2>2. (c - 2 * e) * p = 0
    BY <1>2, <1>5, <1>6, <2>1
  <2> DEFINE x == c - 2 * e
  <2>3. x \in Int /\ x * p = 0
    BY <1>5, <2>2
  <2> HIDE DEF x
  <2>4. x = 0
    BY <1>2, <2>3
  <2> QED
    BY <1>5, <2>4 DEF x
<1> QED
  BY <1>5, <1>7

LEMMA Within ==
    ASSUME NEW n \in Nat, NEW L, NEW P, Tree(L, P, n), NEW i \in 0..n,
           NEW c \in Nat, (c + 1) * P[i] <= n
    PROVE  i < n /\ c < n /\ c + 1 <= Len(L[i]) /\ Len(L[i]) \in Nat
           /\ ((c + 1) * P[i] = n => Len(L[i]) = c + 1)
<1> DEFINE p == P[i]
           w == Len(L[i])
<1>1. p \in Nat /\ p >= i + 1
  BY PowerLarge DEF Tree
<1>2. w \in Nat /\ w * p >= n /\ (w - 1) * p < n
  BY DEF Tree, Widths
<1>3. (c + 1) * p <= n
  OBVIOUS
<1> HIDE DEF p, w
<1>4. (c + 1) * p = c * p + p /\ c * p \in Nat
  BY <1>1
<1>5. c * p >= c
  <2>1. c * p = c * (p - 1) + c /\ c * (p - 1) \in Nat
    BY <1>1
  <2> QED
    BY <2>1
<1>6. c + 1 <= w
  <2> SUFFICES ASSUME w <= c PROVE FALSE
    BY <1>2
  <2>1. c * p = w * p + (c - w) * p /\ (c - w) * p >= 0
    BY <1>1, <1>2
  <2> QED
    BY <1>1, <1>2, <1>3, <1>4, <2>1
<1>7. ASSUME (c + 1) * p = n, ~(w <= c + 1) PROVE FALSE
  <2>1. (w - 1) * p = (c + 1) * p + ((w - 1) - (c + 1)) * p /\ ((w - 1) - (c + 1)) * p >= 0
    BY <1>1, <1>2, <1>7
  <2> QED
    BY <1>1, <1>2, <1>7, <2>1
<1> QED
  BY <1>1, <1>2, <1>3, <1>4, <1>5, <1>6, <1>7 DEF p, w

-----------------------------------------------------------------------------
(* Folding *)

LEMMA FoldStays ==
    ASSUME NEW T, NEW s \in T,
           \A x \in T : /\ Len(x) \in Nat /\ Hash!foldOnce(x) \in T
                        /\ Hash!Folds(x) => Len(Hash!foldOnce(x)) < Len(x)
    PROVE  /\ Hash!fold(s) \in T /\ ~Hash!Folds(Hash!fold(s))
           /\ Hash!Folds(s) => Len(Hash!fold(s)) < Len(s)
<1> DEFINE n == Len(s)
           g == [x \in T |-> Hash!foldOnce(x)]
           m == [x \in T |-> Len(x)]
           Is(f) == f = [k \in 0..n |-> IF k = 0 THEN s ELSE Hash!foldOnce(f[k - 1])]
           after == CHOOSE f : Is(f)
<1>1. Hash!fold(s) = after[n]
  BY DEF Hash!fold
<1>2. n \in Nat /\ g \in [T -> T] /\ m \in [T -> Nat] /\ m[s] = n
  OBVIOUS
<1>3. ASSUME NEW x \in T
      PROVE  /\ g[x] = Hash!foldOnce(x) /\ m[x] = Len(x) /\ m[g[x]] = Len(Hash!foldOnce(x))
             /\ ~Hash!Folds(x) => g[x] = x
             /\ Hash!Folds(x) => m[g[x]] < m[x]
  BY DEF Hash!foldOnce
<1> HIDE DEF g, m, n
<1>4. \E f : Is(f)
  <2>1. PICK f \in [0..n -> T] : Links(f, s, g, n)
    BY <1>2, Chain
  <2>2. \A k \in 0..n : f[k] = IF k = 0 THEN s ELSE Hash!foldOnce(f[k - 1])
    <3> TAKE k \in 0..n
    <3>1. CASE k = 0
      BY <2>1, <3>1 DEF Links
    <3>2. CASE k # 0
      <4>1. k \in 1..n /\ k - 1 \in 0..n
        BY <1>2, <3>2
      <4>2. f[k - 1] \in T /\ f[k] = g[f[k - 1]]
        BY <2>1, <4>1 DEF Links
      <4>3. g[f[k - 1]] = Hash!foldOnce(f[k - 1])
        BY <1>3, <4>2
      <4> QED
        BY <3>2, <4>2, <4>3
    <3> QED
      BY <3>1, <3>2
  <2>3. f = [k \in 0..n |-> f[k]]
    BY <2>1
  <2>4. Is(f)
    BY <2>2, <2>3
  <2> QED
    BY <2>4
<1>5. Is(after)
  BY <1>4, Zenon
<1> HIDE DEF after
<1>6. /\ Listed(after, n) /\ after[0] = s
      /\ \A k \in 1..n : after[k] = Hash!foldOnce(after[k - 1])
  BY <1>2, <1>5 DEF Listed
<1> HIDE DEF Is
<1>7. \A k \in 1..n : after[k - 1] \in T => after[k] = g[after[k - 1]]
  BY <1>3, <1>6
<1>8. after \in [0..n -> T] /\ Links(after, s, g, n)
  BY <1>2, <1>6, <1>7, Steps
<1>9. AtRest(after[n], s, g, m)
  <2>1. Lessens(g, m, T)
    BY <1>3 DEF Lessens
  <2>2. m[s] <= n
    BY <1>2
  <2> QED
    BY <1>2, <1>8, <2>1, <2>2, Loop
<1>10. after[n] \in T /\ m[after[n]] \in Nat /\ m[s] \in Nat
  BY <1>2, <1>8
<1>11. ~Hash!Folds(after[n])
  BY <1>3, <1>9, <1>10 DEF AtRest
<1>12. Hash!Folds(s) => Len(after[n]) < Len(s)
  <2> SUFFICES ASSUME Hash!Folds(s) PROVE Len(after[n]) < Len(s)
    OBVIOUS
  <2>1. after[n] # s
    BY <1>11
  <2> QED
    BY <1>3, <1>9, <1>10, <2>1 DEF AtRest
<1> QED
  BY <1>1, <1>10, <1>11, <1>12

\* The nodes of the tree.
Nodes(L, n) == {Hash!Ent(l, c, L[l][c + 1]) : l \in 0..n, c \in 0..n}
\* The leaves below a node are those from Low on and before High.
Low(e, P)  == e.c * P[e.l]
High(e, P) == (e.c + 1) * P[e.l]

\* Nodes side by side, from leaf a to leaf z.
Spans(s, P, n, a, z) ==
    /\ \A k \in 1..Len(s) : High(s[k], P) <= n
    /\ \A k \in 1..(Len(s) - 1) : High(s[k], P) = Low(s[k + 1], P)
    /\ IF Len(s) = 0 THEN a = z ELSE Low(s[1], P) = a /\ High(s[Len(s)], P) = z

\* From the first leaf on they are first ones of pairs, but perhaps the last
\* when it has not been folded yet.
Work(L, P, n, a, z) ==
    {s \in Seq(Nodes(L, n)) :
        Spans(s, P, n, a, z) /\ (a = 0 => \A k \in 1..(Len(s) - 1) : s[k].c % 2 = 0)}
Done(L, P, n, a, z) ==
    {s \in Seq(Nodes(L, n)) :
        Spans(s, P, n, a, z) /\ (a = 0 => \A k \in 1..Len(s) : s[k].c % 2 = 0)}

LEMMA NodeIs ==
    ASSUME NEW n \in Nat, NEW L, NEW e \in Nodes(L, n)
    PROVE  /\ e.l \in 0..n /\ e.c \in 0..n /\ e.h = L[e.l][e.c + 1]
           /\ e = Hash!Ent(e.l, e.c, e.h)
<1>1. PICK l \in 0..n, c \in 0..n : e = Hash!Ent(l, c, L[l][c + 1])
  BY DEF Nodes
<1>2. e.l = l /\ e.c = c /\ e.h = L[l][c + 1]
  BY <1>1 DEF Hash!Ent
<1> QED
  BY <1>1, <1>2, Zenon

LEMMA IsNode ==
    ASSUME NEW n \in Nat, NEW L, NEW l \in 0..n, NEW c \in 0..n, NEW h, h = L[l][c + 1]
    PROVE  /\ Hash!Ent(l, c, h) \in Nodes(L, n)
           /\ Hash!Ent(l, c, h).l = l /\ Hash!Ent(l, c, h).c = c /\ Hash!Ent(l, c, h).h = h
<1>1. Hash!Ent(l, c, h) \in Nodes(L, n)
  BY SMT DEF Nodes
<1> QED
  BY <1>1 DEF Hash!Ent

\* Two nodes folded are the node above them.
LEMMA FoldedIs ==
    ASSUME NEW n \in Nat, NEW L, NEW P, Tree(L, P, n),
           NEW e \in Nodes(L, n), NEW d \in Nodes(L, n),
           e.l = d.l, e.l < n, e.c % 2 = 0, d.c = e.c + 1, e.c + 2 <= Len(L[e.l])
    PROVE  LET u == Hash!Ent(e.l + 1, e.c \div 2, Hash!Node(e.h, d.h))
           IN  /\ u \in Nodes(L, n) /\ u.l = e.l + 1 /\ 2 * u.c = e.c
               /\ Low(u, P) = Low(e, P) /\ High(u, P) = High(d, P)
<1> DEFINE l == e.l
           k == e.c \div 2
           u == Hash!Ent(l + 1, k, Hash!Node(e.h, d.h))
<1>1. /\ e.l \in 0..n /\ e.c \in 0..n /\ e.h = L[e.l][e.c + 1]
      /\ d.l \in 0..n /\ d.c \in 0..n /\ d.h = L[d.l][d.c + 1]
  BY NodeIs
<1>2. l \in 0..(n - 1) /\ l + 1 \in 0..n /\ l + 1 \in 1..n /\ (l + 1) - 1 = l
  <2>1. l \in 0..n /\ l < n
    BY <1>1
  <2> HIDE DEF l
  <2> QED
    BY ONLY <2>1, n \in Nat
<1>3. k \in Nat /\ e.c = 2 * k /\ k \in 0..n
  BY <1>1
<1> HIDE DEF k
<1>4. L[l + 1][k + 1] = Hash!Node(L[l][2 * (k + 1) - 1], L[l][2 * (k + 1)])
  <2>1. 2 * (k + 1) <= Len(L[l]) /\ k + 1 \in Nat \ {0}
    BY <1>3
  <2>2. Above(L[l + 1], L[l], Len(L[l]))
    BY <1>2 DEF Tree
  <2> HIDE DEF l
  <2> QED
    BY <2>1, <2>2 DEF Above
<1>5. L[l + 1][k + 1] = Hash!Node(e.h, d.h)
  <2>1. 2 * (k + 1) - 1 = e.c + 1 /\ 2 * (k + 1) = d.c + 1
    BY <1>3
  <2>2. e.h = L[l][2 * (k + 1) - 1] /\ d.h = L[l][2 * (k + 1)]
    BY <1>1, <2>1
  <2> HIDE DEF l
  <2> QED
    BY <1>4, <2>2
<1>6. u \in Nodes(L, n) /\ u.l = l + 1 /\ u.c = k
  <2> DEFINE i == l + 1
             h == Hash!Node(e.h, d.h)
  <2>1. n \in Nat /\ i \in 0..n /\ k \in 0..n /\ h = L[i][k + 1]
    BY <1>2, <1>3, <1>5
  <2> HIDE DEF i, h, l
  <2>2. Hash!Ent(i, k, h) \in Nodes(L, n)
    <3>1. Hash!Ent(i, k, L[i][k + 1]) \in Nodes(L, n)
      BY ONLY <2>1, SMT DEF Nodes
    <3> QED
      BY <2>1, <3>1
  <2>3. Hash!Ent(i, k, h).l = i /\ Hash!Ent(i, k, h).c = k
    BY DEF Hash!Ent
  <2> QED
    BY <2>2, <2>3 DEF i, h
<1>7. P[l + 1] = 2 * P[l] /\ P[l] \in Nat
  BY <1>2 DEF Tree, Powers
<1>8. k * (2 * P[l]) = (2 * k) * P[l] /\ (k + 1) * (2 * P[l]) = (2 * k + 2) * P[l]
  <2> DEFINE p == P[l]
  <2>1. p \in Nat
    BY <1>7
  <2> HIDE DEF p
  <2>2. k * (2 * p) = (2 * k) * p /\ (k + 1) * (2 * p) = (2 * k + 2) * p
    BY <1>3, <2>1
  <2> QED
    BY <2>2 DEF p
<1>9. Low(u, P) = Low(e, P)
  BY <1>3, <1>6, <1>7, <1>8 DEF Low
<1>10. High(u, P) = High(d, P)
  <2>1. d.c + 1 = 2 * k + 2
    BY <1>3
  <2> QED
    BY <1>3, <1>6, <1>7, <1>8, <2>1 DEF High
<1> HIDE DEF u
<1>11. u \in Nodes(L, n) /\ u.l = e.l + 1 /\ 2 * u.c = e.c
  BY <1>3, <1>6
<1> QED
  BY <1>9, <1>10, <1>11 DEF u, l, k

LEMMA SamePlace ==
    ASSUME NEW p \in Nat, p > 0, NEW c \in Int, NEW d \in Int, c * p = d * p
    PROVE  c = d
<1>1. (c - d) * p = 0
  BY (c - d) * p = c * p - d * p
<1> DEFINE x == c - d
<1>2. x \in Int /\ x * p = 0
  BY <1>1
<1> HIDE DEF x
<1>3. x = 0
  BY <1>2
<1> QED
  BY <1>3 DEF x

LEMMA FoldOnceIs ==
    ASSUME NEW S, NEW s \in Seq(S), Hash!Folds(s),
           NEW u \in S,
           u = Hash!Ent(s[Len(s) - 1].l + 1, s[Len(s) - 1].c \div 2,
                        Hash!Node(s[Len(s) - 1].h, s[Len(s)].h))
    PROVE  /\ Hash!foldOnce(s) \in Seq(S) /\ Len(Hash!foldOnce(s)) = Len(s) - 1
           /\ \A k \in 1..(Len(s) - 2) : Hash!foldOnce(s)[k] = s[k]
           /\ Hash!foldOnce(s)[Len(s) - 1] = u
<1> DEFINE m == Len(s)
           f == SubSeq(s, 1, m - 2)
<1>1. m \in Nat /\ m >= 2
  BY DEF Hash!Folds
<1>2. Hash!foldOnce(s) = Append(f, u)
  BY DEF Hash!foldOnce
<1>3. f \in Seq(S) /\ Len(f) = m - 2 /\ \A k \in 1..(m - 2) : f[k] = s[k]
  <2> DEFINE q == m - 2
  <2>1. q \in Nat /\ 1 \in Int /\ \A k \in 1..q : s[k] \in S
    BY <1>1
  <2> HIDE DEF q
  <2>2. /\ SubSeq(s, 1, q) \in Seq(S)
        /\ Len(SubSeq(s, 1, q)) = IF 1 <= q THEN q - 1 + 1 ELSE 0
        /\ \A k \in 1..(q - 1 + 1) : SubSeq(s, 1, q)[k] = s[1 + k - 1]
    BY <2>1, SubSeqProperties
  <2>3. /\ SubSeq(s, 1, q) \in Seq(S) /\ Len(SubSeq(s, 1, q)) = q
        /\ \A k \in 1..q : SubSeq(s, 1, q)[k] = s[k]
    BY <2>1, <2>2
  <2> QED
    BY <2>3 DEF q
<1> HIDE DEF f
<1>4. /\ Append(f, u) \in Seq(S) /\ Len(Append(f, u)) = (m - 2) + 1
      /\ \A k \in 1..(m - 2) : Append(f, u)[k] = f[k]
      /\ Append(f, u)[(m - 2) + 1] = u
  BY <1>1, <1>3
<1>5. (m - 2) + 1 = m - 1
  BY <1>1
<1> QED
  BY <1>2, <1>3, <1>4, <1>5

\* A step of fold leaves the same leaves below.
LEMMA FoldOnceWorks ==
    ASSUME NEW n \in Nat, NEW L, NEW P, Tree(L, P, n), NEW a \in Nat, NEW z \in Nat,
           NEW s \in Work(L, P, n, a, z)
    PROVE  /\ Len(s) \in Nat /\ Hash!foldOnce(s) \in Work(L, P, n, a, z)
           /\ Hash!Folds(s) => Len(Hash!foldOnce(s)) < Len(s)
<1>1. /\ s \in Seq(Nodes(L, n)) /\ Spans(s, P, n, a, z)
      /\ a = 0 => \A k \in 1..(Len(s) - 1) : s[k].c % 2 = 0
  BY DEF Work
<1>2. CASE ~Hash!Folds(s)
  BY <1>1, <1>2 DEF Hash!foldOnce
<1>3. CASE Hash!Folds(s)
  <2> DEFINE m == Len(s)
             e == s[m - 1]
             d == s[m]
             u == Hash!Ent(e.l + 1, e.c \div 2, Hash!Node(e.h, d.h))
             r == Hash!foldOnce(s)
  <2>1. m \in Nat /\ m >= 2 /\ e.c % 2 = 0 /\ e.l = d.l
    BY <1>1, <1>3 DEF Hash!Folds
  <2>2. e \in Nodes(L, n) /\ d \in Nodes(L, n)
    BY <1>1, <2>1
  <2>3. High(e, P) = Low(d, P) /\ High(d, P) <= n /\ High(d, P) = z
    <3>1. m - 1 \in 1..(m - 1) /\ (m - 1) + 1 = m /\ m \in 1..m /\ m # 0
      BY <2>1
    <3> QED
      BY <1>1, <3>1 DEF Spans
  <2> HIDE DEF e, d
  <2>4. e.l \in 0..n /\ e.c \in 0..n /\ d.c \in 0..n
    BY <2>2, NodeIs
  <2>5. d.c = e.c + 1 /\ e.l < n /\ e.c + 2 <= Len(L[e.l])
    <3> DEFINE p == P[e.l]
    <3>1. p \in Nat /\ p > 0
      BY <2>4, PowerLarge DEF Tree
    <3>2. (e.c + 1) * p = d.c * p
      BY <2>1, <2>3 DEF High, Low
    <3>3. e.c + 1 \in Int /\ d.c \in Int
      BY <2>4
    <3>4. e.c + 1 = d.c
      <4> HIDE DEF p
      <4> QED
        BY <3>1, <3>2, <3>3, SamePlace
    <3>5. (d.c + 1) * P[e.l] <= n
      BY <2>1, <2>3 DEF High
    <3>6. e.l < n /\ d.c + 1 <= Len(L[e.l])
      BY <2>4, <3>5, Within
    <3> QED
      BY <2>4, <3>4, <3>6
  <2>6. /\ u \in Nodes(L, n) /\ u.l = e.l + 1 /\ 2 * u.c = e.c
        /\ Low(u, P) = Low(e, P) /\ High(u, P) = High(d, P)
    BY <2>1, <2>2, <2>5, FoldedIs
  <2>7. /\ r \in Seq(Nodes(L, n)) /\ Len(r) = m - 1
        /\ \A k \in 1..(m - 2) : r[k] = s[k]
        /\ r[m - 1] = u
    BY <1>1, <1>3, <2>6, FoldOnceIs DEF e, d
  <2> HIDE DEF r, u
  <2>8. \A k \in 1..(m - 1) : High(r[k], P) <= n
    <3> TAKE k \in 1..(m - 1)
    <3>1. CASE k = m - 1
      BY <2>3, <2>6, <2>7, <3>1
    <3>2. CASE k # m - 1
      <4>1. k \in 1..(m - 2) /\ k \in 1..m
        BY <2>1, <3>2
      <4> QED
        BY <1>1, <2>7, <4>1 DEF Spans
    <3> QED
      BY <3>1, <3>2
  <2>9. \A k \in 1..((m - 1) - 1) : High(r[k], P) = Low(r[k + 1], P)
    <3> TAKE k \in 1..((m - 1) - 1)
    <3>1. k \in 1..(m - 2) /\ k \in 1..(m - 1) /\ r[k] = s[k] /\ High(s[k], P) = Low(s[k + 1], P)
      BY <1>1, <2>1, <2>7 DEF Spans
    <3>2. CASE k = m - 2
      <4>1. k + 1 = m - 1
        BY <2>1, <3>2
      <4>2. r[k + 1] = u /\ s[k + 1] = e
        BY <2>7, <4>1 DEF e
      <4> QED
        BY <2>6, <3>1, <4>2
    <3>3. CASE k # m - 2
      <4>1. k + 1 \in 1..(m - 2)
        BY <2>1, <3>1, <3>3
      <4> QED
        BY <2>7, <3>1, <4>1
    <3> QED
      BY <3>2, <3>3
  <2>10. Low(r[1], P) = a /\ High(r[m - 1], P) = z
    <3>1. High(r[m - 1], P) = z
      BY <2>3, <2>6, <2>7
    <3>2. Low(s[1], P) = a
      BY <1>1, <2>1 DEF Spans
    <3>3. CASE m = 2
      BY <2>6, <2>7, <3>1, <3>2, <3>3 DEF e
    <3>4. CASE m # 2
      <4>1. 1 \in 1..(m - 2)
        <5>1. m \in Nat /\ m >= 2
          BY <2>1
        <5> HIDE DEF m
        <5> QED
          BY ONLY <3>4, <5>1
      <4> QED
        BY <2>7, <3>1, <3>2, <4>1
    <3> QED
      BY <3>3, <3>4
  <2>11. Spans(r, P, n, a, z)
    BY <2>1, <2>7, <2>8, <2>9, <2>10 DEF Spans
  <2>12. a = 0 => \A k \in 1..((m - 1) - 1) : r[k].c % 2 = 0
    <3> SUFFICES ASSUME a = 0, NEW k \in 1..((m - 1) - 1) PROVE r[k].c % 2 = 0
      OBVIOUS
    <3>1. k \in 1..(m - 2) /\ k \in 1..(m - 1)
      BY <2>1
    <3> QED
      BY <1>1, <2>7, <3>1
  <2>13. r \in Work(L, P, n, a, z)
    BY <2>7, <2>11, <2>12 DEF Work
  <2>14. Len(r) < m
    BY <2>1, <2>7
  <2> QED
    BY <2>1, <2>13, <2>14 DEF r
<1> QED
  BY <1>2, <1>3

LEMMA FoldDone ==
    ASSUME NEW n \in Nat, NEW L, NEW P, Tree(L, P, n), NEW a \in Nat, NEW z \in Nat,
           NEW s \in Work(L, P, n, a, z)
    PROVE  Hash!fold(s) \in Done(L, P, n, a, z)
<1> DEFINE r == Hash!fold(s)
           T == Work(L, P, n, a, z)
<1>1. r \in T /\ ~Hash!Folds(r)
  <2>1. \A x \in T : /\ Len(x) \in Nat /\ Hash!foldOnce(x) \in T
                     /\ Hash!Folds(x) => Len(Hash!foldOnce(x)) < Len(x)
    BY FoldOnceWorks
  <2>2. s \in T
    OBVIOUS
  <2> HIDE DEF T
  <2> QED
    BY <2>1, <2>2, FoldStays
<1> HIDE DEF r
<1> DEFINE m == Len(r)
<1>2. /\ r \in Seq(Nodes(L, n)) /\ Spans(r, P, n, a, z) /\ m \in Nat
      /\ a = 0 => \A k \in 1..(m - 1) : r[k].c % 2 = 0
  BY <1>1 DEF Work
<1>3. ASSUME a = 0, m > 0 PROVE r[m].c % 2 = 0
  <2> DEFINE d == r[m]
  <2>1. d \in Nodes(L, n) /\ m \in 1..m
    BY <1>2, <1>3
  <2>2. d.l \in 0..n /\ d.c \in 0..n
    BY <2>1, NodeIs
  <2>3. CASE m = 1
    <3>1. Low(d, P) = 0
      BY <1>2, <1>3, <2>3 DEF Spans
    <3>2. P[d.l] \in Nat /\ P[d.l] > 0
      BY <2>2, PowerLarge DEF Tree
    <3>3. d.c * P[d.l] = 0 * P[d.l]
      BY <3>1, <3>2 DEF Low
    <3>4. d.c = 0
      <4> DEFINE p == P[d.l]
                 c == d.c
      <4>1. p \in Nat /\ p > 0 /\ c \in Int /\ c * p = 0 * p
        BY <2>2, <3>2, <3>3
      <4> HIDE DEF p, c
      <4>2. c = 0
        BY <4>1, SamePlace
      <4> QED
        BY <4>2 DEF c
    <3> QED
      BY <3>4
  <2>4. CASE m >= 2
    <3> DEFINE e == r[m - 1]
    <3>1. m - 1 \in 1..(m - 1) /\ m - 1 \in 1..m /\ (m - 1) + 1 = m
      BY <1>2, <2>4
    <3>2. e \in Nodes(L, n) /\ e.c % 2 = 0 /\ High(e, P) = Low(d, P)
      BY <1>2, <1>3, <3>1 DEF Spans
    <3>3. e.l # d.l
      BY <1>1, <2>4, <3>2 DEF Hash!Folds
    <3> HIDE DEF e, d
    <3>4. e.l \in 0..n /\ e.c \in 0..n
      BY <3>2, NodeIs
    <3>5. (e.c + 1) * P[e.l] = d.c * P[d.l] /\ e.c + 1 \in Nat /\ d.c \in Nat
      BY <2>2, <3>2, <3>4 DEF High, Low
    <3>6. ~(e.l < d.l)
      <4> SUFFICES ASSUME e.l < d.l PROVE FALSE
        OBVIOUS
      <4>1. (e.c + 1) % 2 = 0
        BY <2>2, <3>4, <3>5, Aligned DEF Tree
      <4> QED
        BY <3>2, <3>4, <4>1
    <3>7. d.l < e.l
      BY <2>2, <3>3, <3>4, <3>6
    <3>8. d.c % 2 = 0
      BY <2>2, <3>4, <3>5, <3>7, Aligned DEF Tree
    <3> QED
      BY <3>8 DEF d
  <2>5. m = 1 \/ m >= 2
    <3>1. m \in Nat /\ m > 0
      BY <1>2, <1>3
    <3> HIDE DEF m
    <3> QED
      BY ONLY <3>1
  <2> QED
    BY <2>3, <2>4, <2>5, Zenon
<1>4. ASSUME a = 0, NEW k \in 1..m PROVE r[k].c % 2 = 0
  <2>1. CASE k = m
    BY <1>2, <1>3, <1>4, <2>1
  <2>2. CASE k # m
    <3>1. k \in 1..(m - 1)
      BY <1>2, <2>2
    <3> QED
      BY <1>2, <1>4, <3>1
  <2> QED
    BY <2>1, <2>2
<1>5. r \in Done(L, P, n, a, z)
  BY <1>2, <1>4 DEF Done
<1> QED
  BY <1>5 DEF r

\* A node put behind the others and folded.
LEMMA Pushed ==
    ASSUME NEW n \in Nat, NEW L, NEW P, Tree(L, P, n), NEW a \in Nat, NEW x \in Nat,
           NEW z \in Nat, NEW s \in Done(L, P, n, a, x), NEW e \in Nodes(L, n),
           Low(e, P) = x, High(e, P) = z, z <= n
    PROVE  Hash!fold(Append(s, e)) \in Done(L, P, n, a, z)
<1> DEFINE m == Len(s)
           r == Append(s, e)
<1>1. /\ s \in Seq(Nodes(L, n)) /\ Spans(s, P, n, a, x) /\ m \in Nat
      /\ a = 0 => \A k \in 1..m : s[k].c % 2 = 0
  BY DEF Done
<1>2. /\ r \in Seq(Nodes(L, n)) /\ Len(r) = m + 1 /\ r[m + 1] = e
      /\ \A k \in 1..m : r[k] = s[k]
  BY <1>1
<1> HIDE DEF r
<1>3. \A k \in 1..(m + 1) : High(r[k], P) <= n
  <2> TAKE k \in 1..(m + 1)
  <2>1. CASE k = m + 1
    BY <1>2, <2>1
  <2>2. CASE k # m + 1
    <3>1. k \in 1..m
      BY <1>1, <2>2
    <3> QED
      BY <1>1, <1>2, <3>1 DEF Spans
  <2> QED
    BY <2>1, <2>2
<1>4. \A k \in 1..((m + 1) - 1) : High(r[k], P) = Low(r[k + 1], P)
  <2> TAKE k \in 1..((m + 1) - 1)
  <2>1. k \in 1..m /\ r[k] = s[k]
    BY <1>1, <1>2
  <2>2. CASE k = m
    <3>1. High(s[m], P) = x
      BY <1>1, <2>1, <2>2 DEF Spans
    <3> QED
      BY <1>2, <2>1, <2>2, <3>1
  <2>3. CASE k # m
    <3>1. k \in 1..(m - 1) /\ k + 1 \in 1..m
      BY <1>1, <2>1, <2>3
    <3> QED
      BY <1>1, <1>2, <2>1, <3>1 DEF Spans
  <2> QED
    BY <2>2, <2>3
<1>5. Low(r[1], P) = a
  <2>1. CASE m = 0
    BY <1>1, <1>2, <2>1 DEF Spans
  <2>2. CASE m # 0
    BY <1>1, <1>2, <2>2 DEF Spans
  <2> QED
    BY <2>1, <2>2
<1>6. Spans(r, P, n, a, z)
  BY <1>1, <1>2, <1>3, <1>4, <1>5 DEF Spans
<1>7. a = 0 => \A k \in 1..((m + 1) - 1) : r[k].c % 2 = 0
  <2> SUFFICES ASSUME a = 0, NEW k \in 1..((m + 1) - 1) PROVE r[k].c % 2 = 0
    OBVIOUS
  <2>1. k \in 1..m
    BY <1>1
  <2> QED
    BY <1>1, <1>2, <2>1
<1>8. r \in Work(L, P, n, a, z)
  BY <1>2, <1>6, <1>7 DEF Work
<1> QED
  BY <1>8, FoldDone DEF r

-----------------------------------------------------------------------------
(* Summing *)

LEMMA CollapseStays ==
    ASSUME NEW T, NEW s \in T,
           \A x \in T : /\ Len(x) \in Nat /\ Hash!collapseOnce(x) \in T
                        /\ Len(x) >= 2 => Len(Hash!collapseOnce(x)) < Len(x)
    PROVE  Hash!Collapse(s) \in T /\ Len(Hash!Collapse(s)) < 2
<1> DEFINE n == Len(s)
           g == [x \in T |-> Hash!collapseOnce(x)]
           m == [x \in T |-> Len(x)]
           Is(f) == f = [k \in 0..n |-> IF k = 0 THEN s ELSE Hash!collapseOnce(f[k - 1])]
           after == CHOOSE f : Is(f)
<1>1. Hash!Collapse(s) = after[n]
  BY DEF Hash!Collapse
<1>2. n \in Nat /\ g \in [T -> T] /\ m \in [T -> Nat] /\ m[s] = n
  OBVIOUS
<1>3. ASSUME NEW x \in T
      PROVE  /\ g[x] = Hash!collapseOnce(x) /\ m[x] = Len(x) /\ m[g[x]] = Len(Hash!collapseOnce(x))
             /\ ~(Len(x) >= 2) => g[x] = x
             /\ Len(x) >= 2 => m[g[x]] < m[x]
  <2>1. ~(Len(x) >= 2) => Hash!collapseOnce(x) = x
    <3>1. Len(x) \in Nat
      OBVIOUS
    <3> QED
      BY ONLY <3>1 DEF Hash!collapseOnce
  <2> QED
    BY <2>1
<1> HIDE DEF g, m, n
<1>4. \E f : Is(f)
  <2>1. PICK f \in [0..n -> T] : Links(f, s, g, n)
    BY <1>2, Chain
  <2>2. \A k \in 0..n : f[k] = IF k = 0 THEN s ELSE Hash!collapseOnce(f[k - 1])
    <3> TAKE k \in 0..n
    <3>1. CASE k = 0
      BY <2>1, <3>1 DEF Links
    <3>2. CASE k # 0
      <4>1. k \in 1..n /\ k - 1 \in 0..n
        BY <1>2, <3>2
      <4>2. f[k - 1] \in T /\ f[k] = g[f[k - 1]]
        BY <2>1, <4>1 DEF Links
      <4>3. g[f[k - 1]] = Hash!collapseOnce(f[k - 1])
        BY <1>3, <4>2
      <4> QED
        BY <3>2, <4>2, <4>3
    <3> QED
      BY <3>1, <3>2
  <2>3. f = [k \in 0..n |-> f[k]]
    BY <2>1
  <2>4. Is(f)
    BY <2>2, <2>3
  <2> QED
    BY <2>4
<1>5. Is(after)
  BY <1>4, Zenon
<1> HIDE DEF after
<1>6. /\ Listed(after, n) /\ after[0] = s
      /\ \A k \in 1..n : after[k] = Hash!collapseOnce(after[k - 1])
  BY <1>2, <1>5 DEF Listed
<1> HIDE DEF Is
<1>7. \A k \in 1..n : after[k - 1] \in T => after[k] = g[after[k - 1]]
  BY <1>3, <1>6
<1>8. after \in [0..n -> T] /\ Links(after, s, g, n)
  BY <1>2, <1>6, <1>7, Steps
<1>9. AtRest(after[n], s, g, m)
  <2>1. Lessens(g, m, T)
    BY <1>3 DEF Lessens
  <2>2. m[s] <= n
    BY <1>2
  <2> QED
    BY <1>2, <1>8, <2>1, <2>2, Loop
<1>10. after[n] \in T /\ m[after[n]] \in Nat /\ m[s] \in Nat
  BY <1>2, <1>8
<1>11. Len(after[n]) < 2
  BY <1>3, <1>9, <1>10 DEF AtRest
<1> QED
  BY <1>1, <1>10, <1>11

\* The last node of level i, taken over by level j.
LastToo(L, i, c, j, d) == Len(L[j]) = d + 1 /\ L[j][d + 1] = L[i][c + 1]

\* Where the last node of a level starts, the last ones of the levels above do,
\* up to the first that is a second one of a pair: they are the same hash.
LEMMA Lifted ==
    ASSUME NEW n \in Nat, NEW L, NEW P, Tree(L, P, n), NEW i \in 0..n, NEW j \in 0..n,
           i <= j, NEW c \in Nat, NEW d \in Nat, c * P[i] = d * P[j], Len(L[i]) = c + 1
    PROVE  LastToo(L, i, c, j, d)
<1> DEFINE h == L[i][c + 1]
           Good(k) == \E x \in Nat : /\ x * P[i + k] = d * P[j] /\ Len(L[i + k]) = x + 1
                                      /\ L[i + k][x + 1] = h
           U == {k \in Nat : i + k <= j => Good(k)}
<1>1. 0 \in U
  BY i + 0 = i
<1>2. ASSUME NEW k \in Nat, i + (k + 1) <= j, Good(k) PROVE Good(k + 1)
  <2> DEFINE b == i + k
  <2>1. PICK x \in Nat : x * P[b] = d * P[j] /\ Len(L[b]) = x + 1 /\ L[b][x + 1] = h
    BY <1>2
  <2>2. /\ b \in 0..n /\ b < j /\ i + (k + 1) = b + 1 /\ b \in 0..(n - 1)
        /\ b + 1 \in 1..n /\ (b + 1) - 1 = b
    BY <1>2
  <2> HIDE DEF b, h
  <2>3. x % 2 = 0
    BY <2>1, <2>2, Aligned DEF Tree
  <2>4. PICK y \in Nat : x = 2 * y
    <3>1. x \div 2 \in Nat /\ x = 2 * (x \div 2)
      BY <2>3
    <3> QED
      BY <3>1
  <2>5. Above(L[b + 1], L[b], 2 * y + 1)
    BY <2>1, <2>2, <2>4 DEF Tree
  <2>6. Len(L[b + 1]) = y + 1 /\ L[b + 1][y + 1] = h
    <3>1. ((2 * y + 1) + 1) \div 2 = y + 1
      OBVIOUS
    <3> QED
      BY <2>1, <2>4, <2>5, <3>1 DEF Above
  <2>7. y * P[b + 1] = d * P[j]
    <3> DEFINE p == P[b]
    <3>1. P[b + 1] = 2 * p /\ p \in Nat
      BY <2>2 DEF Tree, Powers
    <3>2. (2 * y) * p = d * P[j]
      BY <2>1, <2>4
    <3> HIDE DEF p
    <3>3. y * (2 * p) = (2 * y) * p
      BY <3>1
    <3> QED
      BY <3>1, <3>2, <3>3
  <2> QED
    BY <2>2, <2>6, <2>7
<1>3. \A k \in Nat : k \in U => k + 1 \in U
  <2> HIDE DEF Good
  <2> QED
    BY <1>2
<1>4. Good(j - i)
  <2>1. j - i \in Nat /\ i + (j - i) = j
    OBVIOUS
  <2> HIDE DEF Good
  <2>2. j - i \in U
    <3> HIDE DEF U
    <3> QED
      BY <1>1, <1>3, <2>1, Induction
  <2> QED
    BY <2>1, <2>2
<1>5. PICK x \in Nat : x * P[j] = d * P[j] /\ Len(L[j]) = x + 1 /\ L[j][x + 1] = h
  BY <1>4, i + (j - i) = j
<1>6. x = d
  <2> DEFINE p == P[j]
  <2>1. p \in Nat /\ p > 0
    BY PowerLarge DEF Tree
  <2>2. x * p = d * p
    BY <1>5
  <2> HIDE DEF p
  <2> QED
    BY <2>1, <2>2, SamePlace
<1> QED
  BY <1>5, <1>6 DEF LastToo

\* What is left to be summed: first ones of pairs, and behind them the last
\* node of its level.
Closing(L, P, n) ==
    {s \in Seq(Nodes(L, n)) :
        /\ Len(s) >= 1 /\ Low(s[1], P) = 0
        /\ \A k \in 1..(Len(s) - 1) : /\ High(s[k], P) <= n /\ s[k].c % 2 = 0
                                       /\ High(s[k], P) = Low(s[k + 1], P)
        /\ Len(L[s[Len(s)].l]) = s[Len(s)].c + 1}

LEMMA ClosingStarts ==
    ASSUME NEW n \in Nat, n > 0, NEW L, NEW P, Tree(L, P, n), NEW s \in Done(L, P, n, 0, n)
    PROVE  s \in Closing(L, P, n)
<1> DEFINE m == Len(s)
           d == s[m]
<1>1. /\ s \in Seq(Nodes(L, n)) /\ Spans(s, P, n, 0, n) /\ m \in Nat
      /\ \A k \in 1..m : s[k].c % 2 = 0
  BY DEF Done
<1>2. m >= 1 /\ Low(s[1], P) = 0 /\ High(d, P) = n
  BY <1>1 DEF Spans
<1>3. d \in Nodes(L, n)
  BY <1>1, <1>2
<1>4. \A k \in 1..(m - 1) : /\ High(s[k], P) <= n /\ s[k].c % 2 = 0
                            /\ High(s[k], P) = Low(s[k + 1], P)
  <2> TAKE k \in 1..(m - 1)
  <2>1. k \in 1..m
    BY <1>1
  <2> QED
    BY <1>1, <2>1 DEF Spans
<1> HIDE DEF d
<1>5. Len(L[d.l]) = d.c + 1
  <2>1. d.l \in 0..n /\ d.c \in Nat
    BY <1>3, NodeIs
  <2>2. (d.c + 1) * P[d.l] = n
    BY <1>2 DEF High
  <2> QED
    BY <2>1, <2>2, Within
<1> QED
  BY <1>1, <1>2, <1>4, <1>5 DEF Closing, d

LEMMA FoldOnceCloses ==
    ASSUME NEW n \in Nat, NEW L, NEW P, Tree(L, P, n), NEW s \in Closing(L, P, n)
    PROVE  /\ Len(s) \in Nat /\ Hash!foldOnce(s) \in Closing(L, P, n)
           /\ Hash!Folds(s) => Len(Hash!foldOnce(s)) < Len(s)
<1> DEFINE m == Len(s)
           e == s[m - 1]
           d == s[m]
           u == Hash!Ent(e.l + 1, e.c \div 2, Hash!Node(e.h, d.h))
           r == Hash!foldOnce(s)
<1>1. /\ s \in Seq(Nodes(L, n)) /\ m \in Nat /\ m >= 1 /\ Low(s[1], P) = 0
      /\ \A k \in 1..(m - 1) : /\ High(s[k], P) <= n /\ s[k].c % 2 = 0
                                /\ High(s[k], P) = Low(s[k + 1], P)
      /\ Len(L[d.l]) = d.c + 1
  BY DEF Closing
<1>2. CASE ~Hash!Folds(s)
  BY <1>1, <1>2 DEF Hash!foldOnce
<1>3. CASE Hash!Folds(s)
  <2>1. m >= 2 /\ e.c % 2 = 0 /\ e.l = d.l
    BY <1>1, <1>3 DEF Hash!Folds
  <2>2. e \in Nodes(L, n) /\ d \in Nodes(L, n)
    BY <1>1, <2>1
  <2>3. High(e, P) = Low(d, P) /\ High(e, P) <= n
    <3>1. m - 1 \in 1..(m - 1) /\ (m - 1) + 1 = m
      BY <1>1, <2>1
    <3> QED
      BY <1>1, <3>1
  <2>4. Len(L[d.l]) = d.c + 1
    BY <1>1
  <2> HIDE DEF e, d
  <2>5. e.l \in 0..n /\ e.c \in 0..n /\ d.c \in 0..n
    BY <2>2, NodeIs
  <2>6. d.c = e.c + 1
    <3> DEFINE p == P[e.l]
    <3>1. p \in Nat /\ p > 0
      BY <2>5, PowerLarge DEF Tree
    <3>2. (e.c + 1) * p = d.c * p
      BY <2>1, <2>3 DEF High, Low
    <3>3. e.c + 1 \in Int /\ d.c \in Int
      BY <2>5
    <3> HIDE DEF p
    <3>4. e.c + 1 = d.c
      BY <3>1, <3>2, <3>3, SamePlace
    <3> QED
      BY <3>4
  <2>7. e.l < n /\ e.c + 2 <= Len(L[e.l]) /\ Len(L[e.l]) = e.c + 2
    <3>1. (e.c + 1) * P[e.l] <= n
      BY <2>3 DEF High
    <3>2. e.l < n
      BY <2>5, <3>1, Within
    <3> QED
      BY <2>1, <2>4, <2>5, <2>6, <3>2
  <2>8. /\ u \in Nodes(L, n) /\ u.l = e.l + 1 /\ 2 * u.c = e.c
        /\ Low(u, P) = Low(e, P) /\ High(u, P) = High(d, P)
    BY <2>1, <2>2, <2>6, <2>7, FoldedIs
  <2>9. /\ r \in Seq(Nodes(L, n)) /\ Len(r) = m - 1
        /\ \A k \in 1..(m - 2) : r[k] = s[k]
        /\ r[m - 1] = u
    BY <1>1, <1>3, <2>8, FoldOnceIs DEF e, d
  <2> HIDE DEF r, u
  <2>10. Len(L[u.l]) = u.c + 1
    <3>1. e.l \in 0..(n - 1)
      BY <2>5, <2>7
    <3>2. Above(L[e.l + 1], L[e.l], Len(L[e.l]))
      BY <3>1 DEF Tree
    <3>3. u \in Nodes(L, n) => u.c \in Nat
      BY NodeIs
    <3> DEFINE x == u.c
    <3>4. Len(L[e.l + 1]) = ((2 * x + 2) + 1) \div 2
      BY <2>7, <2>8, <3>2 DEF Above
    <3>5. x \in Nat
      BY <2>8, <3>3
    <3> HIDE DEF x
    <3>6. ((2 * x + 2) + 1) \div 2 = x + 1
      BY <3>5
    <3> QED
      BY <2>8, <3>4, <3>6 DEF x
  <2>11. \A k \in 1..((m - 1) - 1) : /\ High(r[k], P) <= n /\ r[k].c % 2 = 0
                                     /\ High(r[k], P) = Low(r[k + 1], P)
    <3> TAKE k \in 1..((m - 1) - 1)
    <3>1. /\ k \in 1..(m - 2) /\ k \in 1..(m - 1) /\ r[k] = s[k]
          /\ High(s[k], P) = Low(s[k + 1], P) /\ High(s[k], P) <= n /\ s[k].c % 2 = 0
      <4>1. k \in 1..(m - 2) /\ k \in 1..(m - 1)
        BY <1>1
      <4> QED
        BY <1>1, <2>9, <4>1
    <3>2. CASE k = m - 2
      <4>1. k + 1 = m - 1
        BY <1>1, <3>2
      <4>2. r[k + 1] = u /\ s[k + 1] = e
        BY <2>9, <4>1 DEF e
      <4> QED
        BY <2>8, <3>1, <4>2
    <3>3. CASE k # m - 2
      <4>1. k + 1 \in 1..(m - 2)
        BY <1>1, <3>1, <3>3
      <4> QED
        BY <2>9, <3>1, <4>1
    <3> QED
      BY <3>2, <3>3
  <2>12. Low(r[1], P) = 0
    <3>1. CASE m = 2
      BY <1>1, <2>8, <2>9, <3>1 DEF e
    <3>2. CASE m # 2
      <4>1. 1 \in 1..(m - 2)
        <5>1. m \in Nat /\ m >= 2
          BY <1>1, <2>1
        <5> HIDE DEF m
        <5> QED
          BY ONLY <3>2, <5>1
      <4> QED
        BY <1>1, <2>9, <4>1
    <3> QED
      BY <3>1, <3>2
  <2>13. Len(r) >= 1 /\ Len(r) < m
    BY <1>1, <2>1, <2>9
  <2>14. r \in Closing(L, P, n)
    BY <2>9, <2>10, <2>11, <2>12, <2>13 DEF Closing
  <2> QED
    BY <1>1, <2>13, <2>14 DEF r
<1> QED
  BY <1>2, <1>3

LEMMA FoldCloses ==
    ASSUME NEW n \in Nat, NEW L, NEW P, Tree(L, P, n), NEW s \in Closing(L, P, n)
    PROVE  /\ Hash!fold(s) \in Closing(L, P, n)
           /\ Hash!Folds(s) => Len(Hash!fold(s)) < Len(s)
<1> DEFINE T == Closing(L, P, n)
<1>1. \A x \in T : /\ Len(x) \in Nat /\ Hash!foldOnce(x) \in T
                   /\ Hash!Folds(x) => Len(Hash!foldOnce(x)) < Len(x)
  BY FoldOnceCloses
<1>2. s \in T
  OBVIOUS
<1> HIDE DEF T
<1>3. Hash!fold(s) \in T /\ (Hash!Folds(s) => Len(Hash!fold(s)) < Len(s))
  BY <1>1, <1>2, FoldStays
<1> QED
  BY <1>3 DEF T

Moved(e, l, c) == [[e EXCEPT !.l = l] EXCEPT !.c = c]

LEMMA MovedIs ==
    ASSUME NEW l, NEW c, NEW h, NEW l2, NEW c2
    PROVE  Moved(Hash!Ent(l, c, h), l2, c2) = Hash!Ent(l2, c2, h)
<1> DEFINE x == Hash!Ent(l, c, h)
           y == [x EXCEPT !.l = l2]
<1>1. y = Hash!Ent(l2, c, h)
  BY DEF Hash!Ent
<1> HIDE DEF x, y
<1>2. [y EXCEPT !.c = c2] = Hash!Ent(l2, c2, h)
  BY <1>1 DEF Hash!Ent
<1> QED
  BY <1>2, Zenon DEF x, y, Moved

LEMMA CollapseOnceCloses ==
    ASSUME NEW n \in Nat, NEW L, NEW P, Tree(L, P, n), NEW s \in Closing(L, P, n)
    PROVE  /\ Len(s) \in Nat /\ Hash!collapseOnce(s) \in Closing(L, P, n)
           /\ Len(s) >= 2 => Len(Hash!collapseOnce(s)) < Len(s)
<1> DEFINE m == Len(s)
           e == s[m - 1]
           d == s[m]
<1>1. /\ s \in Seq(Nodes(L, n)) /\ m \in Nat /\ m >= 1 /\ Low(s[1], P) = 0
      /\ \A k \in 1..(m - 1) : /\ High(s[k], P) <= n /\ s[k].c % 2 = 0
                                /\ High(s[k], P) = Low(s[k + 1], P)
      /\ Len(L[d.l]) = d.c + 1
  BY DEF Closing
<1>2. CASE m < 2
  BY <1>1, <1>2 DEF Hash!collapseOnce
<1>3. CASE m >= 2
  <2> DEFINE q == [s EXCEPT ![m].l = e.l, ![m].c = e.c + 1]
             u == Hash!Ent(e.l, e.c + 1, d.h)
  <2>1. Hash!collapseOnce(s) = Hash!fold(q)
    BY <1>1, <1>3 DEF Hash!collapseOnce
  <2>2. e \in Nodes(L, n) /\ d \in Nodes(L, n)
    BY <1>1, <1>3
  <2>3. High(e, P) = Low(d, P) /\ High(e, P) <= n /\ e.c % 2 = 0
    <3>1. m - 1 \in 1..(m - 1) /\ (m - 1) + 1 = m
      BY <1>1, <1>3
    <3> QED
      BY <1>1, <3>1
  <2>4. Len(L[d.l]) = d.c + 1 /\ d = Hash!Ent(d.l, d.c, d.h)
    BY <1>1, <2>2, NodeIs
  <2>5. Moved(d, e.l, e.c + 1) = u
    <3> DEFINE l == d.l
               c == d.c
               h == d.h
    <3>1. d = Hash!Ent(l, c, h) /\ u = Hash!Ent(e.l, e.c + 1, h)
      BY <2>4
    <3> HIDE DEF l, c, h, u
    <3>2. \A l2, c2 : Moved(Hash!Ent(l, c, h), l2, c2) = Hash!Ent(l2, c2, h)
      BY MovedIs
    <3> QED
      BY <3>1, <3>2
  <2>6. Len(q) = m /\ q[m] = u /\ \A k \in 1..(m - 1) : q[k] = s[k]
    <3>1. Len(q) = m /\ \A k \in 1..(m - 1) : q[k] = s[k]
      BY <1>1
    <3> DEFINE s1 == [s EXCEPT ![m].l = e.l]
    <3>2. s1[m] = [d EXCEPT !.l = e.l] /\ DOMAIN s1 = 1..m /\ m \in 1..m
      BY <1>1
    <3>3. q = [s1 EXCEPT ![m].c = e.c + 1]
      OBVIOUS
    <3>4. q[m] = [[d EXCEPT !.l = e.l] EXCEPT !.c = e.c + 1]
      <4> HIDE DEF s1, q
      <4> QED
        BY <3>2, <3>3
    <3> QED
      BY <2>5, <3>1, <3>4, Zenon DEF Moved
  <2>7. ASSUME u \in Nodes(L, n) PROVE q \in Seq(Nodes(L, n))
    <3> HIDE DEF u, q
    <3>1. \A k \in 1..m : q[k] \in Nodes(L, n)
      <4> TAKE k \in 1..m
      <4>1. CASE k = m
        BY <2>6, <2>7, <4>1
      <4>2. CASE k # m
        <5>1. k \in 1..(m - 1)
          BY <1>1, <4>2
        <5> QED
          BY <1>1, <2>6, <5>1
      <4> QED
        BY <4>1, <4>2
    <3>2. DOMAIN q = 1..m
      BY <1>1 DEF q
    <3>3. q = [k \in 1..m |-> q[k]]
      BY <3>2 DEF q
    <3>4. q \in [1..m -> Nodes(L, n)]
      BY <3>1, <3>3
    <3> QED
      BY <1>1, <3>4
  <2> HIDE DEF e, d, q
  <2>8. /\ e.l \in 0..n /\ e.c \in 0..n /\ e.h = L[e.l][e.c + 1]
        /\ d.l \in 0..n /\ d.c \in 0..n /\ d.h = L[d.l][d.c + 1]
    BY <2>2, NodeIs
  <2>9. (e.c + 1) * P[e.l] = d.c * P[d.l] /\ e.c + 1 \in Nat /\ d.c \in Nat
    BY <2>3, <2>8 DEF High, Low
  <2>10. d.l <= e.l
    <3> SUFFICES ASSUME e.l < d.l PROVE FALSE
      BY <2>8
    <3>1. (e.c + 1) % 2 = 0
      BY <2>8, <2>9, Aligned DEF Tree
    <3> QED
      BY <2>3, <2>8, <3>1
  <2>11. Len(L[e.l]) = (e.c + 1) + 1 /\ L[e.l][(e.c + 1) + 1] = d.h
    <3> DEFINE x == e.c + 1
               i == d.l
               j == e.l
               c == d.c
    <3>1. /\ x \in Nat /\ c \in Nat /\ i \in 0..n /\ j \in 0..n /\ i <= j
          /\ c * P[i] = x * P[j] /\ Len(L[i]) = c + 1
      BY <2>4, <2>8, <2>9, <2>10
    <3> HIDE DEF x, i, j, c
    <3>2. Len(L[j]) = x + 1 /\ L[j][x + 1] = L[i][c + 1]
      <4>1. LastToo(L, i, c, j, x)
        BY <3>1, Lifted
      <4> QED
        BY <4>1 DEF LastToo
    <3> QED
      BY <2>8, <3>2 DEF x, i, j, c
  <2>12. e.c + 1 \in 0..n
    <3>1. (e.c + 1) * P[e.l] <= n
      BY <2>3 DEF High
    <3>2. e.c < n
      BY <2>8, <3>1, Within
    <3> QED
      BY <2>8, <3>2
  <2>13. u \in Nodes(L, n) /\ u.l = e.l /\ u.c = e.c + 1
    <3> DEFINE x == e.c + 1
               h == d.h
    <3>1. x \in 0..n /\ h = L[e.l][x + 1] /\ u = Hash!Ent(e.l, x, h)
      BY <2>11, <2>12
    <3> HIDE DEF x, h, u
    <3>2. /\ Hash!Ent(e.l, x, h) \in Nodes(L, n)
          /\ Hash!Ent(e.l, x, h).l = e.l /\ Hash!Ent(e.l, x, h).c = x
      BY <2>8, <3>1, IsNode
    <3> QED
      BY <3>1, <3>2 DEF x
  <2>14. Low(u, P) = High(e, P) /\ Len(L[u.l]) = u.c + 1
    BY <2>11, <2>13 DEF Low, High
  <2> HIDE DEF u
  <2>15. \A k \in 1..(m - 1) : /\ High(q[k], P) <= n /\ q[k].c % 2 = 0
                               /\ High(q[k], P) = Low(q[k + 1], P)
    <3> TAKE k \in 1..(m - 1)
    <3>1. /\ q[k] = s[k] /\ High(s[k], P) <= n /\ s[k].c % 2 = 0
          /\ High(s[k], P) = Low(s[k + 1], P)
      BY <1>1, <2>6
    <3>2. CASE k = m - 1
      <4>1. k + 1 = m
        BY <1>1, <3>2
      <4> QED
        BY <2>3, <2>6, <2>14, <3>1, <3>2, <4>1 DEF e, d
    <3>3. CASE k # m - 1
      <4>1. k + 1 \in 1..(m - 1)
        BY <1>1, <3>3
      <4> QED
        BY <2>6, <3>1, <4>1
    <3> QED
      BY <3>2, <3>3
  <2>16. Low(q[1], P) = 0
    <3>1. 1 \in 1..(m - 1)
      BY <1>1, <1>3
    <3> QED
      BY <1>1, <2>6, <3>1
  <2>17. q \in Closing(L, P, n)
    BY <1>1, <2>6, <2>7, <2>13, <2>14, <2>15, <2>16 DEF Closing
  <2>18. Hash!Folds(q)
    <3>1. q[m - 1] = e
      <4>1. m - 1 \in 1..(m - 1)
        BY <1>1, <1>3
      <4> QED
        BY <2>6, <4>1 DEF e
    <3> QED
      BY <1>3, <2>3, <2>6, <2>13, <3>1 DEF Hash!Folds
  <2> QED
    BY <1>1, <2>1, <2>6, <2>17, <2>18, FoldCloses
<1> QED
  BY <1>1, <1>2, <1>3

LEMMA CollapseIs ==
    ASSUME NEW n \in Nat, n > 0, NEW L, NEW P, Tree(L, P, n), NEW s \in Done(L, P, n, 0, n)
    PROVE  Hash!Collapse(s)[1].h = L[n][1]
<1> DEFINE T == Closing(L, P, n)
           r == Hash!Collapse(s)
           d == r[1]
<1>1. r \in T /\ Len(r) < 2
  <2>1. \A x \in T : /\ Len(x) \in Nat /\ Hash!collapseOnce(x) \in T
                     /\ Len(x) >= 2 => Len(Hash!collapseOnce(x)) < Len(x)
    BY CollapseOnceCloses
  <2>2. s \in T
    BY ClosingStarts
  <2> HIDE DEF T
  <2> QED
    BY <2>1, <2>2, CollapseStays
<1> HIDE DEF r
<1>2. d \in Nodes(L, n) /\ Low(d, P) = 0 /\ Len(L[d.l]) = d.c + 1
  <2>1. /\ r \in Seq(Nodes(L, n)) /\ Len(r) >= 1 /\ Low(r[1], P) = 0
        /\ Len(L[r[Len(r)].l]) = r[Len(r)].c + 1
    BY <1>1 DEF Closing
  <2>2. Len(r) = 1
    <3>1. Len(r) \in Nat /\ Len(r) >= 1
      BY <2>1
    <3> DEFINE m == Len(r)
    <3>2. m \in Nat /\ m >= 1 /\ m < 2
      BY <1>1, <3>1
    <3> HIDE DEF m
    <3>3. m = 1
      BY ONLY <3>2
    <3> QED
      BY <3>3 DEF m
  <2>3. r[1] \in Nodes(L, n)
    <3>1. 1 \in 1..Len(r)
      BY <2>2
    <3> QED
      BY <2>1, <3>1
  <2> QED
    BY <2>1, <2>2, <2>3
<1> HIDE DEF d
<1>3. d.l \in 0..n /\ d.c \in 0..n /\ d.h = L[d.l][d.c + 1]
  BY <1>2, NodeIs
<1>4. d.c = 0
  <2> DEFINE p == P[d.l]
             c == d.c
  <2>1. p \in Nat /\ p > 0 /\ c \in Int
    BY <1>3, PowerLarge DEF Tree
  <2>2. c * p = 0 * p
    BY <1>2, <2>1 DEF Low
  <2> HIDE DEF p, c
  <2>3. c = 0
    BY <2>1, <2>2, SamePlace
  <2> QED
    BY <2>3 DEF c
<1>5. P[d.l] \in Nat /\ P[n] \in Nat
  BY <1>3, PowerLarge DEF Tree
<1>6. 0 * P[d.l] = 0 * P[n]
  BY <1>5
<1>7. Len(L[d.l]) = 0 + 1 /\ n \in 0..n /\ d.l <= n /\ 0 \in Nat
  BY <1>2, <1>3, <1>4
<1>8. L[n][0 + 1] = L[d.l][0 + 1]
  <2> DEFINE x == 0
             l == d.l
  <2>1. /\ x \in Nat /\ x * P[l] = x * P[n] /\ Len(L[l]) = x + 1
        /\ l \in 0..n /\ n \in 0..n /\ l <= n
    BY <1>3, <1>6, <1>7
  <2> HIDE DEF x, l
  <2>2. L[n][x + 1] = L[l][x + 1]
    <3>1. LastToo(L, l, x, n, x)
      BY <2>1, Lifted
    <3> QED
      BY <3>1 DEF LastToo
  <2> QED
    BY <2>2 DEF x, l
<1> QED
  BY <1>3, <1>4, <1>8 DEF d, r

-----------------------------------------------------------------------------
(* The blocks of a file *)

\* The leaves of the tree: one of each block, and two at least.
Count(n) == (n + MTHBlockSize - 1) \div MTHBlockSize
LeafAt(n, c) ==
    Hash!Leaf(Hash!Bytes(c * MTHBlockSize, Hash!Least((c + 1) * MTHBlockSize, n)))
LeavesOf(n) == IF n = 0 THEN <<Hash!Leaf(<<>>)>> ELSE Hash!Leaves(n)
Ground(n) == IF Len(LeavesOf(n)) = 1 THEN LeavesOf(n) \o LeavesOf(n) ELSE LeavesOf(n)
Width(n) == Len(Ground(n))
TreeOf(L, P, n) ==
    Tree(L, P, Width(n)) /\ L[0] = Ground(n) /\ Hash!MTHFat(n) = L[Width(n)][1]

LEMMA CountIs ==
    ASSUME NEW n \in Nat
    PROVE  /\ Count(n) \in Nat /\ Count(n) * MTHBlockSize >= n
           /\ \A c \in Nat : c < Count(n) <=> c * MTHBlockSize < n
           /\ Count(n) = 0 <=> n = 0
<1> DEFINE b == MTHBlockSize
           K == Count(n)
           x == n + b - 1
<1>1. b \in Nat \ {0} /\ x \in Nat
  BY HashAssumption
<1>2. K = x \div b
  BY DEF Count
<1> HIDE DEF K, b
<1>3. K \in Nat /\ x % b \in 0..(b - 1) /\ x = b * K + (x % b)
  <2> HIDE DEF x
  <2> QED
    BY <1>1, <1>2, Quotient
<1>4. b * K = K * b /\ K * b \in Nat
  BY <1>1, <1>3
<1>5. K * b >= n /\ K * b < n + b
  BY <1>1, <1>3, <1>4
<1>6. ASSUME NEW c \in Nat PROVE c < K <=> c * b < n
  <2>1. ASSUME c < K PROVE c * b < n
    <3>1. (c + 1) * b <= K * b
      BY <1>1, <1>3, <2>1, Times
    <3>2. (c + 1) * b = c * b + b
      BY <1>1
    <3>3. c * b \in Nat
      BY <1>1
    <3> QED
      BY <1>1, <1>4, <1>5, <3>1, <3>2, <3>3
  <2>2. ASSUME c * b < n, K <= c PROVE FALSE
    <3>1. K * b <= c * b
      BY <1>1, <1>3, <2>2, Times
    <3> QED
      BY <1>1, <1>4, <1>5, <2>2, <3>1
  <2> QED
    BY <1>3, <2>1, <2>2
<1>7. K = 0 <=> n = 0
  <2>1. 0 < K <=> 0 * b < n
    BY <1>6
  <2> QED
    BY <1>1, <1>3, <2>1
<1> QED
  BY <1>3, <1>5, <1>6, <1>7 DEF b, K

LEMMA TwiceIs ==
    ASSUME NEW x, NEW s, s \in Seq({x}), Len(s) = 1
    PROVE  Len(s \o s) = 2 /\ (s \o s)[1] = x /\ (s \o s)[2] = x
<1>1. 1 \in 1..Len(s) /\ s[1] \in {x}
  OBVIOUS
<1> DEFINE t == s \o s
<1>2. Len(t) = Len(s) + Len(s) /\ \A i \in 1..(Len(s) + Len(s)) :
         t[i] = IF i <= Len(s) THEN s[i] ELSE s[i - Len(s)]
  BY ConcatProperties
<1> HIDE DEF t
<1>3. Len(t) = 2 /\ t[1] = s[1] /\ t[2] = s[1]
  BY <1>2
<1> QED
  BY <1>1, <1>3 DEF t

LEMMA GroundIs ==
    ASSUME NEW n \in Nat
    PROVE  /\ Width(n) \in Nat /\ Width(n) >= 2 /\ Count(n) <= Width(n)
           /\ Count(n) < 2 => Width(n) = 2 /\ Ground(n)[2] = Ground(n)[1]
           /\ Count(n) >= 2 => Width(n) = Count(n)
           /\ n = 0 => Ground(n)[1] = Hash!Leaf(<<>>)
           /\ \A c \in Nat : c < Count(n) => Ground(n)[c + 1] = LeafAt(n, c)
<1> DEFINE b == MTHBlockSize
           K == Count(n)
           leaf(k) == Hash!Leaf(Hash!Bytes((k - 1) * b, Hash!Least(k * b, n)))
<1>1. K \in Nat /\ (K = 0 <=> n = 0)
  BY CountIs
<1>2. CASE n = 0
  <2> DEFINE x == Hash!Leaf(<<>>)
  <2>1. LeavesOf(n) = <<x>>
    BY <1>2 DEF LeavesOf
  <2> HIDE DEF x, K
  <2>2. <<x>> \in Seq({x}) /\ Len(<<x>>) = 1
    OBVIOUS
  <2>3. Width(n) = 2 /\ Ground(n)[1] = x /\ Ground(n)[2] = x
    BY <2>1, <2>2, TwiceIs DEF Ground, Width
  <2>4. \A c \in Nat : ~(c < K)
    BY <1>1, <1>2
  <2>5. K = 0
    BY <1>1, <1>2
  <2> QED
    BY <1>2, <2>3, <2>4, <2>5 DEF x, K
<1>3. CASE n # 0
  <2> DEFINE s == [k \in 1..K |-> leaf(k)]
  <2>1. LeavesOf(n) = s
    BY <1>3, Zenon DEF LeavesOf, Hash!Leaves, Count
  <2>2. K >= 1
    BY <1>1, <1>3
  <2> HIDE DEF K, leaf
  <2>3. Len(s) = K /\ \A c \in Nat : c < K => s[c + 1] = leaf(c + 1)
    BY <1>1
  <2>4. \A c \in Nat : leaf(c + 1) = LeafAt(n, c)
    <3>1. \A c \in Nat : (c + 1) - 1 = c
      OBVIOUS
    <3> QED
      BY <3>1 DEF leaf, LeafAt
  <2>5. CASE K = 1
    <3>1. s \in Seq({leaf(1)})
      BY <2>5
    <3> HIDE DEF s
    <3>2. Ground(n) = s \o s
      BY <2>1, <2>3, <2>5 DEF Ground
    <3>4. Ground(n)[1] = leaf(1) /\ Ground(n)[2] = Ground(n)[1] /\ Width(n) = 2
      <4> DEFINE x == leaf(1)
      <4>1. s \in Seq({x}) /\ Len(s) = 1
        BY <2>3, <2>5, <3>1
      <4> HIDE DEF x
      <4>2. Len(s \o s) = 2 /\ (s \o s)[1] = x /\ (s \o s)[2] = x
        BY <4>1, TwiceIs, Zenon
      <4> QED
        BY <3>2, <4>2, Zenon DEF x, Width
    <3>5. \A c \in Nat : c < K => Ground(n)[c + 1] = leaf(c + 1)
      <4> SUFFICES ASSUME NEW c \in Nat, c < K PROVE Ground(n)[c + 1] = leaf(c + 1)
        OBVIOUS
      <4>1. c = 0
        BY <2>5
      <4> QED
        BY <3>4, <4>1
    <3> QED
      BY <1>3, <2>4, <2>5, <3>4, <3>5 DEF K
  <2>6. CASE K # 1
    <3>1. Ground(n) = s
      BY <2>1, <2>3, <2>6 DEF Ground
    <3> HIDE DEF s
    <3>2. Width(n) = K /\ K >= 2
      BY <1>1, <2>2, <2>3, <2>6, <3>1 DEF Width
    <3>3. \A c \in Nat : c < K => Ground(n)[c + 1] = leaf(c + 1)
      BY <2>3, <3>1
    <3>4. \A c \in Nat : c < K => Ground(n)[c + 1] = LeafAt(n, c)
      <4> TAKE c \in Nat
      <4>1. leaf(c + 1) = LeafAt(n, c)
        BY <2>4
      <4> QED
        BY <3>3, <4>1, Zenon
    <3>5. ~(K < 2) /\ K <= Width(n)
      BY <1>1, <3>2
    <3> QED
      BY <1>1, <1>3, <3>2, <3>4, <3>5, Zenon DEF K
  <2> QED
    BY <2>5, <2>6
<1> QED
  BY <1>2, <1>3

LEMMA TreeExists == ASSUME NEW n \in Nat PROVE \E L, P : TreeOf(L, P, n)
<1>1. Width(n) \in Nat /\ Width(n) >= 2
  BY GroundIs
<1>2. Hash!MTHFat(n) = Hash!Top(Ground(n))
  BY Zenon DEF Hash!MTHFat, Ground, LeavesOf
<1>3. \E L, P : /\ Tree(L, P, Width(n)) /\ L[0] = Ground(n)
                /\ Hash!Top(Ground(n)) = L[Width(n)][1]
  BY <1>1, TreeIs DEF Width
<1> QED
  BY <1>2, <1>3 DEF TreeOf

\* The hash of a block is the node it should be.
LEMMA LeafIs ==
    ASSUME NEW n \in Nat, NEW L, NEW P, TreeOf(L, P, n), NEW c \in Nat, c < Width(n),
           NEW h, h = Ground(n)[c + 1]
    PROVE  LET e == Hash!Ent(0, c, h)
           IN  e \in Nodes(L, Width(n)) /\ Low(e, P) = c /\ High(e, P) = c + 1
<1> DEFINE e == Hash!Ent(0, c, h)
           w == Width(n)
<1>1. w \in Nat /\ 0 \in 0..w /\ c \in 0..w /\ h = L[0][c + 1]
  BY GroundIs DEF TreeOf
<1> HIDE DEF w
<1>2. e \in Nodes(L, w) /\ e.l = 0 /\ e.c = c
  BY <1>1, IsNode
<1>3. P[0] = 1
  BY DEF TreeOf, Tree, Powers
<1> HIDE DEF e
<1>4. Low(e, P) = c /\ High(e, P) = c + 1
  BY <1>2, <1>3 DEF Low, High
<1> QED
  BY <1>2, <1>4 DEF e, w

\* Nodes side by side are below one leaf each, at least.
LEMMA Rising ==
    ASSUME NEW n \in Nat, NEW L, NEW P, Tree(L, P, n), NEW a \in Nat, NEW z \in Nat,
           NEW s \in Done(L, P, n, a, z)
    PROVE  a + Len(s) <= z /\ Len(s) \in Nat
<1> DEFINE m == Len(s)
           Good(k) == High(s[k + 1], P) >= a + (k + 1)
           U == {k \in Nat : k + 1 <= m => Good(k)}
<1>1. s \in Seq(Nodes(L, n)) /\ Spans(s, P, n, a, z) /\ m \in Nat
  BY DEF Done
<1>2. ASSUME NEW k \in 1..m
      PROVE  Low(s[k], P) \in Nat /\ High(s[k], P) \in Nat /\ High(s[k], P) > Low(s[k], P)
  <2> DEFINE e == s[k]
  <2>1. e \in Nodes(L, n)
    BY <1>1
  <2> HIDE DEF e
  <2>2. e.l \in 0..n /\ e.c \in 0..n
    BY <2>1, NodeIs
  <2> DEFINE p == P[e.l]
             c == e.c
  <2>3. p \in Nat /\ p > 0 /\ c \in Nat
    BY <2>2, PowerLarge DEF Tree
  <2>4. Low(e, P) = c * p /\ High(e, P) = (c + 1) * p
    BY DEF Low, High
  <2> HIDE DEF p, c
  <2>5. (c + 1) * p = c * p + p /\ c * p \in Nat
    BY <2>3
  <2>6. Low(e, P) \in Nat /\ High(e, P) \in Nat /\ High(e, P) > Low(e, P)
    BY <2>3, <2>4, <2>5
  <2> QED
    BY <2>6 DEF e
<1>3. ASSUME m # 0 PROVE Good(0)
  <2>1. 1 \in 1..m /\ Low(s[1], P) = a
    BY <1>1, <1>3 DEF Spans
  <2>2. High(s[1], P) > a /\ High(s[1], P) \in Nat
    BY <1>2, <2>1
  <2> QED
    BY <2>2
<1>4. ASSUME NEW k \in Nat, (k + 1) + 1 <= m, Good(k) PROVE Good(k + 1)
  <2> DEFINE i == k + 1
  <2>1. i \in 1..(m - 1) /\ i \in 1..m /\ i + 1 \in 1..m /\ High(s[i], P) >= a + i
    BY <1>1, <1>4
  <2> HIDE DEF i
  <2>2. High(s[i], P) = Low(s[i + 1], P)
    BY <1>1, <2>1 DEF Spans
  <2>3. High(s[i + 1], P) > Low(s[i + 1], P) /\ High(s[i + 1], P) \in Nat /\ Low(s[i + 1], P) \in Nat
    BY <1>2, <2>1
  <2>4. High(s[i + 1], P) >= a + (i + 1)
    BY <2>1, <2>2, <2>3
  <2> QED
    BY <2>4 DEF i
<1> HIDE DEF Good
<1>5. 0 \in U /\ \A k \in Nat : k \in U => k + 1 \in U
  <2>1. 0 \in U
    BY <1>1, <1>3
  <2>2. \A k \in Nat : k \in U => k + 1 \in U
    BY <1>1, <1>4
  <2> QED
    BY <2>1, <2>2
<1>6. CASE m = 0
  BY <1>1, <1>6 DEF Spans
<1>7. CASE m # 0
  <2>1. m - 1 \in Nat /\ (m - 1) + 1 = m
    BY <1>1, <1>7
  <2>2. m - 1 \in U
    <3> HIDE DEF U
    <3> QED
      BY <1>5, <2>1, Induction
  <2>3. Good(m - 1)
    BY <1>1, <2>1, <2>2
  <2>4. High(s[m], P) = z
    BY <1>1, <1>7 DEF Spans
  <2> QED
    BY <1>1, <2>1, <2>3, <2>4 DEF Good
<1> QED
  BY <1>6, <1>7

-----------------------------------------------------------------------------
(* Hashing a file *)

LEMMA BytesAre ==
    ASSUME NEW x \in Nat, NEW t \in Nat
    PROVE  /\ Hash!Bytes(x, t) \in Seq(Nat)
           /\ Len(Hash!Bytes(x, t)) = IF x <= t THEN t - x ELSE 0
           /\ x <= t => Hash!Bytes(x, t) = Part(x, t - x)
           /\ t <= x <=> Hash!Bytes(x, t) = <<>>
<1>1. CASE x <= t
  <2>1. Hash!Bytes(x, t) = Part(x, t - x)
    BY DEF Hash!Bytes, Part
  <2>2. t - x \in Nat
    BY <1>1
  <2>3. Part(x, t - x) \in Seq(Nat) /\ Len(Part(x, t - x)) = t - x
    BY <2>2, PartType
  <2>4. Part(x, t - x) = <<>> <=> t - x = 0
    <3> DEFINE s == Part(x, t - x)
    <3>1. s \in Seq(Nat) /\ Len(s) = t - x
      BY <2>3
    <3> HIDE DEF s
    <3> QED
      BY <3>1 DEF s
  <2> QED
    BY <1>1, <2>1, <2>2, <2>3, <2>4
<1>2. CASE ~(x <= t)
  <2>1. 1..(t - x) = {}
    BY <1>2
  <2>2. Hash!Bytes(x, t) = <<>>
    BY <2>1 DEF Hash!Bytes
  <2> QED
    BY <1>2, <2>2
<1> QED
  BY <1>1, <1>2

LEMMA BytesCut ==
    ASSUME NEW x \in Nat, NEW d \in Nat, NEW t \in Nat, x + d <= t
    PROVE  /\ SubSeq(Hash!Bytes(x, t), 1, d) = Hash!Bytes(x, x + d)
           /\ Hash!Drop(Hash!Bytes(x, t), d) = Hash!Bytes(x + d, t)
<1> DEFINE n == t - x
           z == x + d
           i == d + 1
           one == 1
<1>1. n \in Nat /\ z \in Nat /\ x <= t /\ x <= z /\ z <= t /\ z - x = d /\ t - z = n - d /\ d <= n
  OBVIOUS
<1>2. /\ Hash!Bytes(x, t) = Part(x, n) /\ Hash!Bytes(x, z) = Part(x, d)
      /\ Hash!Bytes(z, t) = Part(z, n - d) /\ Len(Hash!Bytes(x, t)) = n
  BY <1>1, BytesAre
<1>3. /\ one \in 1..(n + 1) /\ d \in (one - 1)..n /\ x + one - 1 = x /\ d - one + 1 = d
      /\ i \in 1..(n + 1) /\ n \in (i - 1)..n /\ x + i - 1 = z /\ n - i + 1 = n - d
  BY <1>1
<1> HIDE DEF one, i, n, z
<1>4. SubSeq(Part(x, n), one, d) = Part(x, d)
  <2>1. SubSeq(Part(x, n), one, d) = Part(x + one - 1, d - one + 1)
    BY ONLY x \in Nat, <1>1, <1>3, PartOfPart
  <2> QED
    BY <1>3, <2>1
<1>5. SubSeq(Part(x, n), i, n) = Part(z, n - d)
  <2>1. SubSeq(Part(x, n), i, n) = Part(x + i - 1, n - i + 1)
    BY ONLY x \in Nat, <1>1, <1>3, PartOfPart
  <2> QED
    BY <1>3, <2>1
<1>6. Hash!Drop(Hash!Bytes(x, t), d) = SubSeq(Hash!Bytes(x, t), i, Len(Hash!Bytes(x, t)))
  BY DEF Hash!Drop, i
<1> QED
  BY <1>2, <1>4, <1>5, <1>6 DEF one, z

Cut(x, d, t) ==
    /\ SubSeq(Hash!Bytes(x, t), 1, d) = Hash!Bytes(x, x + d)
    /\ Hash!Drop(Hash!Bytes(x, t), d) = Hash!Bytes(x + d, t)

LEMMA CutIs ==
    ASSUME NEW x \in Nat, NEW d \in Nat, NEW t \in Nat, x + d <= t
    PROVE  Cut(x, d, t)
BY BytesCut DEF Cut

LEMMA BytesJoin ==
    ASSUME NEW x \in Nat, NEW t \in Nat, NEW u \in Nat, x <= t, t <= u
    PROVE  Hash!Bytes(x, t) \o Hash!Bytes(t, u) = Hash!Bytes(x, u)
<1> DEFINE a == t - x
           b == u - t
<1>1. a \in Nat /\ b \in Nat /\ x + a = t /\ u - x = a + b /\ x <= u
  OBVIOUS
<1>2. Hash!Bytes(x, t) = Part(x, a) /\ Hash!Bytes(t, u) = Part(t, b)
  BY BytesAre
<1>3. Hash!Bytes(x, u) = Part(x, a + b)
  BY <1>1, BytesAre
<1> HIDE DEF a, b
<1>4. Part(x, a) \o Part(x + a, b) = Part(x, a + b)
  BY <1>1, PartsMeet
<1> QED
  BY <1>1, <1>2, <1>3, <1>4

Hashers(L, n) ==
    [hashes : Seq(Nodes(L, Width(n))), buf : Seq(Nat), ctr : Nat, prependSize : Nat,
     toSkip : Nat]

\* Hashers of a file of n bytes that have seen its bytes up to byte t but for
\* the blocks before block a: the nodes of the blocks, and what follows them.
AtByte(L, P, n, q, a, t) ==
    {m \in Hashers(L, n) :
        /\ m.prependSize = q /\ m.toSkip = 0
        /\ m.ctr <= Count(n) /\ m.hashes \in Done(L, P, Width(n), a, m.ctr)
        /\ m.ctr * MTHBlockSize <= t \/ t = n
        /\ m.buf = Hash!Bytes(m.ctr * MTHBlockSize, t)}

\* A leaf more.
LEMMA LeafAdded ==
    ASSUME NEW n \in Nat, NEW L, NEW P, TreeOf(L, P, n), NEW a \in Nat, NEW c \in Nat,
           c < Width(n), NEW s \in Done(L, P, Width(n), a, c), NEW h, h = Ground(n)[c + 1]
    PROVE  Hash!fold(Append(s, Hash!Ent(0, c, h))) \in Done(L, P, Width(n), a, c + 1)
<1> DEFINE e == Hash!Ent(0, c, h)
           w == Width(n)
           z == c + 1
<1>1. w \in Nat /\ z \in Nat /\ z <= w /\ Tree(L, P, w)
  <2>1. Width(n) \in Nat
    BY GroundIs
  <2>2. Tree(L, P, Width(n))
    BY DEF TreeOf
  <2> QED
    BY <2>1, <2>2
<1>2. e \in Nodes(L, w) /\ Low(e, P) = c /\ High(e, P) = z
  BY LeafIs
<1>3. s \in Done(L, P, w, a, c)
  OBVIOUS
<1> HIDE DEF e, w, z
<1>4. Hash!fold(Append(s, e)) \in Done(L, P, w, a, z)
  BY <1>1, <1>2, <1>3, Pushed
<1> QED
  BY <1>4 DEF e, w, z

LEMMA LeafAddIs ==
    ASSUME NEW n \in Nat, NEW L, NEW P, TreeOf(L, P, n), NEW a \in Nat,
           NEW m \in Hashers(L, n), m.ctr < Width(n),
           m.hashes \in Done(L, P, Width(n), a, m.ctr),
           NEW bytes, Hash!Leaf(bytes) = Ground(n)[m.ctr + 1]
    PROVE  LET r == Hash!leafAdd(m, bytes)
           IN  /\ r \in Hashers(L, n) /\ r.ctr = m.ctr + 1 /\ r.buf = m.buf
               /\ r.prependSize = m.prependSize /\ r.toSkip = m.toSkip
               /\ r.hashes \in Done(L, P, Width(n), a, m.ctr + 1)
<1> DEFINE r == Hash!leafAdd(m, bytes)
           f == Hash!fold(Append(m.hashes, Hash!Ent(0, m.ctr, Hash!Leaf(bytes))))
           c == m.ctr
           h == Hash!Leaf(bytes)
<1>1. /\ m = [hashes |-> m.hashes, buf |-> m.buf, ctr |-> m.ctr,
               prependSize |-> m.prependSize, toSkip |-> m.toSkip]
      /\ m.buf \in Seq(Nat) /\ m.ctr \in Nat /\ m.prependSize \in Nat /\ m.toSkip \in Nat
  BY DEF Hashers
<1>2. f \in Done(L, P, Width(n), a, c + 1)
  <2>1. /\ c \in Nat /\ c < Width(n) /\ h = Ground(n)[c + 1]
        /\ m.hashes \in Done(L, P, Width(n), a, c)
    BY <1>1
  <2> HIDE DEF c, h
  <2>2. Hash!fold(Append(m.hashes, Hash!Ent(0, c, h))) \in Done(L, P, Width(n), a, c + 1)
    BY <2>1, LeafAdded
  <2> QED
    BY <2>2 DEF c, h
<1>3. f \in Seq(Nodes(L, Width(n)))
  BY <1>2 DEF Done
<1>4. r = [m EXCEPT !.hashes = f, !.ctr = m.ctr + 1]
  BY Zenon DEF Hash!leafAdd
<1> HIDE DEF f, r
<1>5. r = [hashes |-> f, buf |-> m.buf, ctr |-> m.ctr + 1,
           prependSize |-> m.prependSize, toSkip |-> m.toSkip]
  BY <1>1, <1>4
<1>6. m.ctr + 1 \in Nat
  BY <1>1
<1>7. r \in Hashers(L, n) /\ r.hashes = f /\ r.ctr = m.ctr + 1 /\ r.buf = m.buf
      /\ r.prependSize = m.prependSize /\ r.toSkip = m.toSkip
  BY <1>1, <1>3, <1>5, <1>6 DEF Hashers
<1> QED
  BY <1>2, <1>7 DEF r

LEMMA BlocksStay ==
    ASSUME NEW T, NEW s \in T,
           \A x \in T : /\ Len(x.buf) \in Nat /\ Hash!Block(x) \in T
                        /\ Len(x.buf) >= MTHBlockSize => Len(Hash!Block(x).buf) < Len(x.buf)
    PROVE  Hash!Blocks(s) \in T /\ Len(Hash!Blocks(s).buf) < MTHBlockSize
<1> DEFINE n == Len(s.buf)
           g == [x \in T |-> Hash!Block(x)]
           m == [x \in T |-> Len(x.buf)]
           Is(f) == f = [k \in 0..n |-> IF k = 0 THEN s ELSE Hash!Block(f[k - 1])]
           after == CHOOSE f : Is(f)
<1>1. Hash!Blocks(s) = after[n]
  BY DEF Hash!Blocks
<1>2. n \in Nat /\ g \in [T -> T] /\ m \in [T -> Nat] /\ m[s] = n
  OBVIOUS
<1>3. ASSUME NEW x \in T
      PROVE  /\ g[x] = Hash!Block(x) /\ m[x] = Len(x.buf) /\ m[g[x]] = Len(Hash!Block(x).buf)
             /\ ~(Len(x.buf) >= MTHBlockSize) => g[x] = x
             /\ Len(x.buf) >= MTHBlockSize => m[g[x]] < m[x]
  <2>1. ~(Len(x.buf) >= MTHBlockSize) => Hash!Block(x) = x
    <3>1. Len(x.buf) \in Nat
      OBVIOUS
    <3> QED
      BY ONLY <3>1, HashAssumption DEF Hash!Block
  <2> QED
    BY <2>1
<1> HIDE DEF g, m, n
<1>4. \E f : Is(f)
  <2>1. PICK f \in [0..n -> T] : Links(f, s, g, n)
    BY <1>2, Chain
  <2>2. \A k \in 0..n : f[k] = IF k = 0 THEN s ELSE Hash!Block(f[k - 1])
    <3> TAKE k \in 0..n
    <3>1. CASE k = 0
      BY <2>1, <3>1 DEF Links
    <3>2. CASE k # 0
      <4>1. k \in 1..n /\ k - 1 \in 0..n
        BY <1>2, <3>2
      <4>2. f[k - 1] \in T /\ f[k] = g[f[k - 1]]
        BY <2>1, <4>1 DEF Links
      <4>3. g[f[k - 1]] = Hash!Block(f[k - 1])
        BY <1>3, <4>2
      <4> QED
        BY <3>2, <4>2, <4>3
    <3> QED
      BY <3>1, <3>2
  <2>3. f = [k \in 0..n |-> f[k]]
    BY <2>1
  <2>4. Is(f)
    BY <2>2, <2>3
  <2> QED
    BY <2>4
<1>5. Is(after)
  BY <1>4, Zenon
<1> HIDE DEF after
<1>6. /\ Listed(after, n) /\ after[0] = s
      /\ \A k \in 1..n : after[k] = Hash!Block(after[k - 1])
  <2>1. after = [k \in 0..n |-> IF k = 0 THEN s ELSE Hash!Block(after[k - 1])]
    BY <1>5
  <2> DEFINE E(k) == IF k = 0 THEN s ELSE Hash!Block(after[k - 1])
  <2>2. after = [k \in 0..n |-> E(k)]
    BY <2>1
  <2>3. E(0) = s /\ \A k \in 1..n : E(k) = Hash!Block(after[k - 1])
    OBVIOUS
  <2> HIDE DEF E
  <2>4. Listed(after, n) /\ after[0] = E(0) /\ \A k \in 1..n : after[k] = E(k)
    BY ONLY <1>2, <2>2 DEF Listed
  <2> QED
    BY <2>3, <2>4
<1> HIDE DEF Is
<1>7. \A k \in 1..n : after[k - 1] \in T => after[k] = g[after[k - 1]]
  BY <1>3, <1>6
<1>8. after \in [0..n -> T] /\ Links(after, s, g, n)
  <2> HIDE DEF g, m, n, after, Is
  <2>1. n \in Nat /\ s \in T /\ g \in [T -> T]
    BY <1>2
  <2> QED
    BY ONLY <1>6, <1>7, <2>1, Steps
<1>9. AtRest(after[n], s, g, m)
  <2>1. Lessens(g, m, T)
    BY <1>3 DEF Lessens
  <2>2. m[s] <= n
    BY <1>2
  <2> QED
    BY <1>2, <1>8, <2>1, <2>2, Loop
<1>10. after[n] \in T /\ m[after[n]] \in Nat /\ m[s] \in Nat
  BY <1>2, <1>8
<1>11. Len(after[n].buf) < MTHBlockSize
  BY <1>3, <1>9, <1>10, HashAssumption DEF AtRest
<1> QED
  BY <1>1, <1>10, <1>11

LEMMA BlockIs ==
    ASSUME NEW n \in Nat, NEW L, NEW P, TreeOf(L, P, n), NEW q \in Nat, NEW a \in Nat,
           NEW t \in 0..n, NEW m \in AtByte(L, P, n, q, a, t)
    PROVE  /\ Len(m.buf) \in Nat /\ Hash!Block(m) \in AtByte(L, P, n, q, a, t)
           /\ Len(m.buf) >= MTHBlockSize => Len(Hash!Block(m).buf) < Len(m.buf)
<1> DEFINE b == MTHBlockSize
           c == m.ctr
           x == c * b
           y == (c + 1) * b
<1>1. /\ m \in Hashers(L, n) /\ m.prependSize = q /\ m.toSkip = 0
      /\ c <= Count(n) /\ m.hashes \in Done(L, P, Width(n), a, c)
      /\ x <= t \/ t = n
      /\ m.buf = Hash!Bytes(x, t)
  BY DEF AtByte
<1>2. b \in Nat \ {0} /\ c \in Nat /\ t \in Nat /\ t <= n
  BY <1>1, HashAssumption DEF Hashers
<1>3. x \in Nat /\ y \in Nat /\ y = x + b
  BY <1>2
<1> HIDE DEF x, y, b
<1>4. Len(m.buf) = (IF x <= t THEN t - x ELSE 0) /\ m.buf \in Seq(Nat)
  <2>1. /\ Hash!Bytes(x, t) \in Seq(Nat)
        /\ Len(Hash!Bytes(x, t)) = IF x <= t THEN t - x ELSE 0
    BY ONLY <1>2, <1>3, BytesAre
  <2>2. m.buf = Hash!Bytes(x, t)
    BY <1>1
  <2> QED
    BY ONLY <2>1, <2>2
<1>5. CASE Len(m.buf) < b
  <2>1. Hash!Block(m) = m
    BY <1>5 DEF Hash!Block, b
  <2> QED
    BY <1>2, <1>3, <1>4, <1>5, <2>1 DEF b
<1>6. CASE ~(Len(m.buf) < b)
  <2>1. y <= t /\ x <= t
    BY <1>2, <1>3, <1>4, <1>6
  <2> DEFINE bytes == SubSeq(m.buf, 1, b)
             rest == Hash!Drop(m.buf, b)
             m1 == [m EXCEPT !.buf = rest]
             r == Hash!leafAdd(m1, bytes)
  <2>2. bytes = Hash!Bytes(x, y) /\ rest = Hash!Bytes(y, t)
    <3>1. x + b <= t /\ y = x + b
      BY <1>3, <2>1
    <3>2. /\ SubSeq(Hash!Bytes(x, t), 1, b) = Hash!Bytes(x, x + b)
          /\ Hash!Drop(Hash!Bytes(x, t), b) = Hash!Bytes(x + b, t)
      <4>1. Cut(x, b, t)
        BY <1>2, <1>3, <3>1, CutIs
      <4> QED
        BY <4>1 DEF Cut
    <3>3. m.buf = Hash!Bytes(x, t)
      BY <1>1
    <3> QED
      BY <3>1, <3>2, <3>3, Zenon
  <2>3. c < Count(n)
    <3>1. x < n
      BY <1>2, <1>3, <2>1
    <3> QED
      BY <1>2, <3>1, CountIs DEF x, b
  <2>4. Hash!Leaf(bytes) = Ground(n)[c + 1] /\ c < Width(n)
    <3>1. Hash!Least(y, n) = y
      BY <1>2, <1>3, <2>1 DEF Hash!Least
    <3>2. LeafAt(n, c) = Hash!Leaf(Hash!Bytes(x, y))
      BY <3>1 DEF LeafAt, x, y, b
    <3>3. Ground(n)[c + 1] = LeafAt(n, c)
      BY <1>2, <2>3, GroundIs
    <3>4. c < Width(n)
      <4>1. Width(n) \in Nat /\ Count(n) <= Width(n) /\ Count(n) \in Nat
        BY GroundIs, CountIs
      <4> QED
        BY <1>2, <2>3, <4>1
    <3> QED
      BY <2>2, <3>2, <3>3, <3>4
  <2>5. rest \in Seq(Nat)
    BY <1>2, <1>3, <2>2, BytesAre
  <2>6. Hash!Block(m) = r
    BY <1>6 DEF Hash!Block, b
  <2> HIDE DEF bytes, rest
  <2>7. /\ m1 \in Hashers(L, n) /\ m1.ctr = c /\ m1.hashes = m.hashes /\ m1.buf = rest
        /\ m1.prependSize = q /\ m1.toSkip = 0
    BY <1>1, <2>5 DEF Hashers
  <2> HIDE DEF m1
  <2>8. /\ r \in Hashers(L, n) /\ r.ctr = m1.ctr + 1 /\ r.buf = m1.buf
        /\ r.prependSize = m1.prependSize /\ r.toSkip = m1.toSkip
        /\ r.hashes \in Done(L, P, Width(n), a, m1.ctr + 1)
    BY <1>1, <2>4, <2>7, LeafAddIs
  <2> HIDE DEF r
  <2>9. c + 1 <= Count(n)
    <3>1. Count(n) \in Nat
      BY CountIs
    <3> QED
      BY <1>2, <2>3, <3>1
  <2>10. r.ctr * b = y
    BY <2>7, <2>8 DEF y
  <2>11. r \in AtByte(L, P, n, q, a, t)
    BY <2>1, <2>2, <2>7, <2>8, <2>9, <2>10 DEF AtByte, b
  <2>12. Len(r.buf) = t - y
    <3>1. Len(Hash!Bytes(y, t)) = IF y <= t THEN t - y ELSE 0
      BY ONLY <1>2, <1>3, BytesAre
    <3>2. r.buf = Hash!Bytes(y, t)
      BY <2>2, <2>7, <2>8
    <3> QED
      BY <2>1, <3>1, <3>2
  <2> QED
    BY <1>2, <1>3, <1>4, <2>1, <2>6, <2>11, <2>12
<1> QED
  BY <1>5, <1>6

LEMMA BlocksAre ==
    ASSUME NEW n \in Nat, NEW L, NEW P, TreeOf(L, P, n), NEW q \in Nat, NEW a \in Nat,
           NEW t \in 0..n, NEW m \in AtByte(L, P, n, q, a, t)
    PROVE  /\ Hash!Blocks(m) \in AtByte(L, P, n, q, a, t)
           /\ Len(Hash!Blocks(m).buf) < MTHBlockSize
<1> DEFINE T == AtByte(L, P, n, q, a, t)
<1>1. \A x \in T :
         /\ Len(x.buf) \in Nat /\ Hash!Block(x) \in T
         /\ Len(x.buf) >= MTHBlockSize => Len(Hash!Block(x).buf) < Len(x.buf)
  BY BlockIs
<1>2. m \in T
  OBVIOUS
<1> HIDE DEF T
<1>3. Hash!Blocks(m) \in T /\ Len(Hash!Blocks(m).buf) < MTHBlockSize
  BY <1>1, <1>2, BlocksStay
<1> QED
  BY <1>3 DEF T

\* Flushing adds the last block if it is short, and then all are there.
LEMMA FlushIs ==
    ASSUME NEW n \in Nat, NEW L, NEW P, TreeOf(L, P, n), NEW q \in Nat, NEW a \in Nat,
           NEW m \in AtByte(L, P, n, q, a, n), Len(m.buf) < MTHBlockSize
    PROVE  LET r == Hash!Flush(m)
           IN  /\ r \in AtByte(L, P, n, q, a, n) /\ r.buf = <<>> /\ r.ctr = Count(n)
               /\ m.ctr = IF m.buf = <<>> THEN Count(n) ELSE Count(n) - 1
<1> DEFINE b == MTHBlockSize
           c == m.ctr
           x == c * b
           y == (c + 1) * b
           K == Count(n)
           r == Hash!Flush(m)
<1>1. /\ m \in Hashers(L, n) /\ m.prependSize = q /\ m.toSkip = 0
      /\ c <= K /\ m.hashes \in Done(L, P, Width(n), a, c)
      /\ m.buf = Hash!Bytes(x, n)
  BY DEF AtByte
<1>2. /\ b \in Nat \ {0} /\ c \in Nat /\ K \in Nat /\ c + 1 \in Nat
      /\ (c < K <=> x < n) /\ (c + 1 < K <=> y < n)
  <2>1. b \in Nat \ {0} /\ c \in Nat /\ c + 1 \in Nat
    BY <1>1, HashAssumption DEF Hashers
  <2> QED
    BY <2>1, CountIs
<1> HIDE DEF b, K, c
<1>3. x \in Nat /\ y \in Nat /\ y = x + b
  <2>1. b \in Nat /\ c \in Nat
    BY <1>2
  <2> QED
    BY ONLY <2>1
<1> HIDE DEF x, y
<1>4. /\ Len(m.buf) = (IF x <= n THEN n - x ELSE 0) /\ Len(m.buf) < b
      /\ n <= x <=> m.buf = <<>>
  <2>1. /\ Len(Hash!Bytes(x, n)) = IF x <= n THEN n - x ELSE 0
        /\ n <= x <=> Hash!Bytes(x, n) = <<>>
    BY ONLY <1>3, n \in Nat, BytesAre
  <2> QED
    BY <1>1, <2>1 DEF b
<1>5. CASE m.buf = <<>>
  <2>1. r = m
    BY <1>5 DEF Hash!Flush
  <2>2. c = K
    BY <1>1, <1>2, <1>3, <1>4, <1>5
  <2> HIDE DEF r
  <2> QED
    BY <1>5, <2>1, <2>2 DEF c, K, r
<1>6. CASE m.buf # <<>>
  <2>1. x < n /\ c < K
    BY <1>2, <1>3, <1>4, <1>6
  <2>2. n < y /\ c + 1 = K
    <3>1. n - x < b
      <4> DEFINE len == Len(m.buf)
      <4>1. len = (IF x <= n THEN n - x ELSE 0) /\ len < b
        BY <1>4
      <4> HIDE DEF len
      <4> QED
        BY <1>3, <2>1, <4>1
    <3> QED
      BY <1>2, <1>3, <2>1, <3>1
  <2>3. Hash!Leaf(m.buf) = Ground(n)[c + 1] /\ c < Width(n)
    <3>1. Hash!Least(y, n) = n
      BY <1>3, <2>2 DEF Hash!Least
    <3>2. LeafAt(n, c) = Hash!Leaf(m.buf)
      BY <1>1, <3>1 DEF LeafAt, x, y, b
    <3>3. Ground(n)[c + 1] = LeafAt(n, c)
      BY <1>2, <2>1, GroundIs DEF K
    <3>4. Width(n) \in Nat /\ K <= Width(n)
      BY GroundIs DEF K
    <3> QED
      BY <1>2, <2>1, <3>2, <3>3, <3>4
  <2> DEFINE none == <<>>
             m1 == [m EXCEPT !.buf = none]
  <2>4. r = Hash!leafAdd(m1, m.buf) /\ none \in Seq(Nat)
    <3>1. r = Hash!leafAdd(m1, m.buf)
      BY <1>6, Zenon DEF Hash!Flush
    <3> QED
      BY <3>1
  <2> HIDE DEF none
  <2>5. /\ m1 \in Hashers(L, n) /\ m1.ctr = c /\ m1.hashes = m.hashes /\ m1.buf = none
        /\ m1.prependSize = q /\ m1.toSkip = 0
    BY <1>1, <2>4 DEF Hashers, c
  <2> HIDE DEF m1, r
  <2>6. /\ r \in Hashers(L, n) /\ r.ctr = m1.ctr + 1 /\ r.buf = m1.buf
        /\ r.prependSize = m1.prependSize /\ r.toSkip = m1.toSkip
        /\ r.hashes \in Done(L, P, Width(n), a, m1.ctr + 1)
    <3>1. m1.ctr < Width(n) /\ m1.hashes \in Done(L, P, Width(n), a, m1.ctr)
          /\ Hash!Leaf(m.buf) = Ground(n)[m1.ctr + 1]
      BY <1>1, <2>3, <2>5
    <3> QED
      BY <2>4, <2>5, <3>1, LeafAddIs
  <2>7. Hash!Bytes(y, n) = <<>>
    <3>1. n <= y
      BY <1>3, <2>2
    <3> QED
      BY <1>3, <3>1, BytesAre
  <2>8. r.ctr = K /\ r.ctr * b = y /\ r.buf = <<>> /\ K <= K
    BY <1>2, <2>2, <2>5, <2>6 DEF y, none
  <2>9. r \in AtByte(L, P, n, q, a, n)
    <3>1. r.buf = Hash!Bytes(r.ctr * MTHBlockSize, n)
      BY <2>7, <2>8 DEF b
    <3>2. r.hashes \in Done(L, P, Width(n), a, r.ctr) /\ r.ctr <= Count(n)
      BY <2>5, <2>6, <2>8 DEF K
    <3> QED
      BY <2>5, <2>6, <3>1, <3>2 DEF AtByte
  <2>10. c = K - 1
    BY <1>2, <2>2
  <2> QED
    BY <1>6, <2>8, <2>9, <2>10 DEF r, c, K
<1> QED
  BY <1>5, <1>6

\* The nodes after a leaf, put behind those before it.
LEMMA JoinedIs ==
    ASSUME NEW n \in Nat, NEW L, NEW P, Tree(L, P, n), NEW x \in Nat, NEW z \in Nat, z <= n,
           NEW s \in Done(L, P, n, 0, x), NEW u \in Done(L, P, n, x, z)
    PROVE  Hash!Joined(s, u) \in Done(L, P, n, 0, z)
<1> DEFINE m == Len(u)
           Is(f, i) == f = [k \in 0..i |-> IF k = 0 THEN s ELSE Hash!fold(Append(f[k - 1], u[k]))]
           with == CHOOSE f : Is(f, m)
           End(k) == IF k = 0 THEN x ELSE High(u[k], P)
           U == {k \in Nat : k <= m => with[k] \in Done(L, P, n, 0, End(k))}
<1>1. /\ u \in Seq(Nodes(L, n)) /\ Spans(u, P, n, x, z) /\ m \in Nat
  BY DEF Done
<1>2. Hash!Joined(s, u) = with[m]
  BY DEF Hash!Joined
<1>3. \E f : Is(f, m)
  <2> DEFINE V == {i \in Nat : \E f : Is(f, i)}
  <2>1. 0 \in V
    <3>1. Is([k \in 0..0 |-> s], 0)
      OBVIOUS
    <3> QED
      BY <3>1
  <2>2. ASSUME NEW i \in Nat, NEW f, Is(f, i) PROVE \E f2 : Is(f2, i + 1)
    <3> DEFINE last == Hash!fold(Append(f[i], u[i + 1]))
               f2 == [k \in 0..(i + 1) |-> IF k <= i THEN f[k] ELSE last]
    <3>1. ASSUME NEW k \in 0..(i + 1)
          PROVE  f2[k] = IF k = 0 THEN s ELSE Hash!fold(Append(f2[k - 1], u[k]))
      <4>1. CASE k = 0
        BY <2>2, <4>1
      <4>2. CASE k # 0 /\ k <= i
        <5>1. k \in 0..i /\ k - 1 \in 0..i
          BY <4>2
        <5>2. f[k] = Hash!fold(Append(f[k - 1], u[k]))
          BY <2>2, <4>2, <5>1
        <5>3. f2[k] = f[k] /\ f2[k - 1] = f[k - 1]
          BY <5>1
        <5> QED
          BY <4>2, <5>2, <5>3
      <4>3. CASE k = i + 1
        <5>1. f2[k] = last /\ f2[k - 1] = f[i] /\ k # 0
          BY <4>3
        <5> QED
          BY <4>3, <5>1
      <4> QED
        BY <4>1, <4>2, <4>3
    <3>2. f2 = [k \in 0..(i + 1) |-> f2[k]]
      OBVIOUS
    <3> HIDE DEF f2
    <3>3. f2 = [k \in 0..(i + 1) |-> IF k = 0 THEN s ELSE Hash!fold(Append(f2[k - 1], u[k]))]
      BY <3>1, <3>2
    <3> QED
      BY <3>3
  <2>3. \A i \in Nat : i \in V => i + 1 \in V
    <3> HIDE DEF Is
    <3> QED
      BY <2>2
  <2>4. m \in V
    <3> HIDE DEF V, m
    <3> QED
      BY <1>1, <2>1, <2>3, Induction
  <2> QED
    BY <2>4
<1>4. Is(with, m)
  BY <1>3, Zenon
<1> HIDE DEF with
<1>5. with[0] = s /\ \A i \in 0..(m - 1) : with[i + 1] = Hash!fold(Append(with[i], u[i + 1]))
  <2>1. with[0] = s
    BY <1>1, <1>4
  <2>2. ASSUME NEW i \in 0..(m - 1)
        PROVE  with[i + 1] = Hash!fold(Append(with[i], u[i + 1]))
    <3>1. i + 1 \in 0..m /\ i + 1 # 0 /\ (i + 1) - 1 = i
      BY <1>1
    <3> QED
      BY <1>4, <3>1
  <2> QED
    BY <2>1, <2>2
<1> HIDE DEF Is
<1>6. \A k \in 0..m : End(k) \in 0..n
  <2> TAKE k \in 0..m
  <2>1. CASE k = 0
    <3>1. x + m <= z
      BY Rising
    <3> QED
      BY <1>1, <2>1, <3>1
  <2>2. CASE k # 0
    <3> DEFINE e == u[k]
    <3>1. e \in Nodes(L, n) /\ High(e, P) <= n
      BY <1>1, <2>2 DEF Spans
    <3> HIDE DEF e
    <3>2. e.l \in 0..n /\ e.c \in 0..n
      BY <3>1, NodeIs
    <3>3. P[e.l] \in Nat
      BY <3>2 DEF Tree, Powers
    <3>4. High(e, P) \in Nat
      BY <3>2, <3>3 DEF High
    <3> QED
      BY <2>2, <3>1, <3>4 DEF e
  <2> QED
    BY <2>1, <2>2
<1>7. \A k \in 0..(m - 1) : Low(u[k + 1], P) = End(k)
  <2> TAKE k \in 0..(m - 1)
  <2>1. CASE k = 0
    BY <1>1, <2>1 DEF Spans
  <2>2. CASE k # 0
    BY <1>1, <2>2 DEF Spans
  <2> QED
    BY <2>1, <2>2
<1>8. End(m) = z
  BY <1>1 DEF Spans
<1>9. 0 \in U
  BY <1>5
<1>10. ASSUME NEW k \in Nat, k \in U, k + 1 <= m PROVE with[k + 1] \in Done(L, P, n, 0, End(k + 1))
  <2> DEFINE e == u[k + 1]
             a == End(k)
             y == End(k + 1)
  <2>1. /\ k \in 0..m /\ k + 1 \in 0..m /\ k \in 0..(m - 1) /\ k + 1 \in 1..m /\ k + 1 # 0
        /\ with[k] \in Done(L, P, n, 0, a)
    BY <1>1, <1>10
  <2>2. e \in Nodes(L, n) /\ Low(e, P) = a /\ High(e, P) = y
    BY <1>1, <1>7, <2>1
  <2>3. a \in Nat /\ y \in Nat /\ y <= n
    BY <1>6, <2>1
  <2>4. with[k + 1] = Hash!fold(Append(with[k], e))
    BY <1>5, <2>1
  <2> HIDE DEF a, y, e, U
  <2>5. Hash!fold(Append(with[k], e)) \in Done(L, P, n, 0, y)
    BY <2>1, <2>2, <2>3, Pushed
  <2> QED
    BY <2>4, <2>5 DEF y
<1>11. \A k \in Nat : k \in U => k + 1 \in U
  BY <1>10
<1>12. m \in U
  <2> HIDE DEF U, m
  <2> QED
    BY <1>1, <1>9, <1>11, Induction
<1> QED
  BY <1>1, <1>2, <1>8, <1>12

-----------------------------------------------------------------------------
(* A file hashed while it arrives *)

\* The block a download that has off bytes resumes in is not hashed with the
\* others: what is before Prepended(off, n) is read from the file afterwards.
Prepended(off, n) == Hash!Least(Count(off) * MTHBlockSize, n)

Fed(L, P, n, off, t) ==
    {m \in Hashers(L, n) :
        LET q == Prepended(off, n)
        IN  IF t < q THEN /\ m.hashes = <<>> /\ m.buf = Hash!Bytes(off, t)
                          /\ m.ctr = Count(off) /\ m.prependSize = q /\ m.toSkip = q - off
            ELSE m \in AtByte(L, P, n, q, Count(off), t) /\ Len(m.buf) < MTHBlockSize}

LEMMA NoNodes ==
    ASSUME NEW n \in Nat, NEW L, NEW P, NEW a \in Nat
    PROVE  <<>> \in Seq(Nodes(L, n)) /\ <<>> \in Done(L, P, n, a, a)
<1>1. <<>> \in Seq(Nodes(L, n)) /\ Len(<<>>) = 0
  OBVIOUS
<1>2. Spans(<<>>, P, n, a, a)
  BY <1>1 DEF Spans
<1>3. \A k \in 1..Len(<<>>) : <<>>[k].c % 2 = 0
  BY <1>1
<1> QED
  BY <1>1, <1>2, <1>3 DEF Done

LEMMA PrependedIs ==
    ASSUME NEW n \in Nat, NEW off \in 0..n
    PROVE  /\ Count(off) \in Nat /\ Count(off) <= Count(n)
           /\ Prepended(off, n) \in off..n /\ Prepended(off, n) \in Nat
           /\ \/ Prepended(off, n) = Count(off) * MTHBlockSize
              \/ /\ Prepended(off, n) = n /\ n < Count(off) * MTHBlockSize
                 /\ Count(off) = Count(n)
           /\ Prepended(off, n) = 0 => Count(off) = 0
<1> DEFINE b == MTHBlockSize
           p == Count(off)
           K == Count(n)
           x == p * b
           q == Prepended(off, n)
<1>1. off \in Nat /\ off <= n /\ b \in Nat \ {0}
  BY HashAssumption
<1>2. /\ p \in Nat /\ x >= off /\ K \in Nat
      /\ \A c \in Nat : (c < p <=> c * b < off) /\ (c < K <=> c * b < n)
  BY <1>1, CountIs
<1>3. p <= K
  <2> SUFFICES ASSUME K < p PROVE FALSE
    BY <1>2
  <2> HIDE DEF p, K, b
  <2>1. K * b < off /\ ~(K * b < n)
    BY <1>2
  <2>2. K * b \in Nat
    BY <1>1, <1>2
  <2> QED
    BY <1>1, <2>1, <2>2
<1>4. q = IF x < n THEN x ELSE n
  BY DEF Prepended, Hash!Least
<1> HIDE DEF p, K, b, q
<1>5. x \in Nat /\ (p < K <=> x < n)
  BY <1>1, <1>2
<1>6. x = 0 => p = 0
  <2> SUFFICES ASSUME p # 0 PROVE x # 0
    OBVIOUS
  <2>1. 1 <= p /\ 1 \in Nat /\ p \in Nat /\ b \in Nat
    BY <1>1, <1>2
  <2>2. 1 * b <= p * b
    BY ONLY <2>1, Times
  <2> QED
    BY <1>1, <1>5, <2>2
<1>7. n = 0 => p = 0
  BY <1>1, <1>2
<1> HIDE DEF x
<1>8. q \in off..n /\ q \in Nat
  BY <1>1, <1>2, <1>4, <1>5
<1>9. q = x \/ (q = n /\ n < x /\ p = K)
  BY <1>1, <1>2, <1>3, <1>4, <1>5
<1>10. q = 0 => p = 0
  BY <1>4, <1>6, <1>7
<1> QED
  BY <1>2, <1>3, <1>8, <1>9, <1>10 DEF p, K, b, x, q

LEMMA NewIs ==
    ASSUME NEW n \in Nat, NEW off \in 0..n
    PROVE  Hash!MTHSeqNew(n, off) =
               [hashes |-> <<>>, buf |-> <<>>, ctr |-> Count(off),
                prependSize |-> Prepended(off, n), toSkip |-> Prepended(off, n) - off]
<1> DEFINE b == MTHBlockSize
           p == Count(off)
           d == off \div b
           i == off % b
           q == Prepended(off, n)
           skip == IF i = 0 THEN 0 ELSE Hash!Least(b - i, n - off)
<1>1. off \in Nat /\ off <= n /\ b \in Nat \ {0}
  BY HashAssumption
<1>2. d \in Nat /\ i \in 0..(b - 1) /\ off = b * d + i
  <2> HIDE DEF b
  <2> QED
    BY <1>1, Quotient
<1>3. p * b = IF i = 0 THEN off ELSE off + b - i
  <2> DEFINE x == off + b - 1
             r == x % b
  <2>1. x \in Nat
    BY <1>1
  <2>2. p = x \div b
    BY DEF Count
  <2> HIDE DEF x, b, d, i
  <2>3. p \in Nat /\ r \in 0..(b - 1) /\ x = b * p + r
    <3> HIDE DEF p, r
    <3>1. (x \div b) \in Nat /\ (x % b) \in 0..(b - 1) /\ x = b * (x \div b) + (x % b)
      BY <1>1, <2>1, Quotient
    <3> QED
      BY <2>2, <3>1 DEF r
  <2> HIDE DEF p, r
  <2>4. x = b * d + i + b - 1
    BY <1>1, <1>2 DEF x
  <2>5. CASE i = 0
    <3>1. b * p <= b * d + (b - 1) /\ b * d <= b * p + (b - 1)
      BY <1>1, <1>2, <2>3, <2>4, <2>5
    <3>2. p = d
      <4>1. p \in Int /\ d \in Int
        BY <1>2, <2>3
      <4> QED
        BY <1>1, <3>1, <4>1, Between
    <3> QED
      BY <1>1, <1>2, <2>5, <3>2
  <2>6. CASE i # 0
    <3> DEFINE e == d + 1
    <3>1. e \in Nat /\ b * e = b * d + b
      BY <1>1, <1>2
    <3> HIDE DEF e
    <3>2. b * p <= b * e + (b - 1) /\ b * e <= b * p + (b - 1)
      BY <1>1, <1>2, <2>3, <2>4, <2>6, <3>1
    <3>3. p = e
      <4>1. p \in Int /\ e \in Int
        BY <2>3, <3>1
      <4> QED
        BY <1>1, <3>2, <4>1, Between
    <3>4. p * b = b * e
      BY <1>1, <3>1, <3>3
    <3> QED
      BY <1>1, <1>2, <2>6, <3>1, <3>4
  <2> QED
    BY <2>5, <2>6
<1> HIDE DEF i
<1>4. q = Hash!Least(p * b, n)
  BY DEF Prepended
<1>5. q - off = skip
  BY <1>1, <1>2, <1>3, <1>4 DEF Hash!Least
<1>6. CASE n = 0
  <2>1. p = 0
    BY <1>6, PrependedIs
  <2>2. q = 0 /\ q - off = 0
    BY <1>6, PrependedIs
  <2>3. Hash!MTHSeqNew(n, off) =
           [hashes |-> <<>>, buf |-> <<>>, ctr |-> 0, prependSize |-> 0, toSkip |-> 0]
    BY <1>6 DEF Hash!MTHSeqNew
  <2> QED
    BY <2>1, <2>2, <2>3
<1>7. CASE n # 0
  <2>1. Hash!MTHSeqNew(n, off) =
           [hashes |-> <<>>, buf |-> <<>>, ctr |-> p, prependSize |-> Hash!Least(p * b, n),
            toSkip |-> skip]
    BY <1>7, Zenon DEF Hash!MTHSeqNew, Count, i
  <2> QED
    BY <1>4, <1>5, <2>1, Zenon
<1> QED
  BY <1>6, <1>7

LEMMA NewIsFed ==
    ASSUME NEW n \in Nat, NEW L, NEW P, TreeOf(L, P, n), NEW off \in 0..n
    PROVE  Hash!MTHSeqNew(n, off) \in Fed(L, P, n, off, off)
<1> DEFINE m == Hash!MTHSeqNew(n, off)
           p == Count(off)
           q == Prepended(off, n)
           none == <<>>
<1>1. m = [hashes |-> none, buf |-> none, ctr |-> p, prependSize |-> q, toSkip |-> q - off]
  BY NewIs
<1>2. /\ off \in Nat /\ p \in Nat /\ p <= Count(n) /\ q \in off..n /\ q \in Nat
      /\ \/ q = p * MTHBlockSize
         \/ q = n /\ n < p * MTHBlockSize
  BY PrependedIs
<1>3. /\ none \in Seq(Nodes(L, Width(n))) /\ none \in Done(L, P, Width(n), p, p)
      /\ none \in Seq(Nat) /\ Len(none) = 0
  <2>1. Width(n) \in Nat
    BY GroundIs
  <2> QED
    BY <1>2, <2>1, NoNodes
<1> HIDE DEF none, p, q, m
<1>4. m \in Hashers(L, n) /\ m.hashes = none /\ m.buf = none /\ m.ctr = p
      /\ m.prependSize = q /\ m.toSkip = q - off
  BY <1>1, <1>2, <1>3 DEF Hashers
<1>5. Hash!Bytes(off, off) = none
  BY <1>2, BytesAre DEF none
<1>6. CASE off < q
  BY <1>4, <1>5, <1>6 DEF Fed, p, q, m, none
<1>7. CASE ~(off < q)
  <2>1. q = off
    BY <1>2, <1>7
  <2>2. Hash!Bytes(p * MTHBlockSize, off) = none /\ (p * MTHBlockSize <= off \/ off = n)
    <3>1. CASE q = p * MTHBlockSize
      BY <1>2, <1>5, <2>1, <3>1
    <3>2. CASE q = n /\ n < p * MTHBlockSize
      <4> DEFINE x == p * MTHBlockSize
      <4>1. x \in Nat
        BY <1>2, HashAssumption
      <4>2. off <= x /\ off = n
        BY <1>2, <2>1, <3>2, <4>1
      <4> HIDE DEF x
      <4>3. Hash!Bytes(x, off) = none
        BY <1>2, <4>1, <4>2, BytesAre DEF none
      <4> QED
        BY <4>2, <4>3 DEF x
    <3> QED
      BY <1>2, <3>1, <3>2
  <2>3. m \in AtByte(L, P, n, q, p, off)
    <3>1. m.toSkip = 0
      BY <1>2, <1>4, <2>1
    <3> QED
      BY <1>2, <1>3, <1>4, <2>2, <3>1 DEF AtByte
  <2>4. Len(m.buf) < MTHBlockSize
    BY <1>3, <1>4, HashAssumption
  <2> QED
    BY <1>4, <1>7, <2>3, <2>4 DEF Fed, p, q, m
<1> QED
  BY <1>6, <1>7

\* A write that has what is to be skipped behind it.
LEMMA WrittenIs ==
    ASSUME NEW n \in Nat, NEW L, NEW P, TreeOf(L, P, n), NEW q \in Nat, NEW a \in Nat,
           NEW u \in 0..n, NEW m \in Hashers(L, n), NEW bytes \in Seq(Nat),
           m.prependSize = q, m.ctr <= Count(n), m.hashes \in Done(L, P, Width(n), a, m.ctr),
           m.ctr * MTHBlockSize <= u \/ u = n,
           ~(Len(m.buf \o bytes) < m.toSkip),
           Hash!Drop(m.buf \o bytes, m.toSkip) = Hash!Bytes(m.ctr * MTHBlockSize, u)
    PROVE  /\ Hash!Written(m, bytes) \in AtByte(L, P, n, q, a, u)
           /\ Len(Hash!Written(m, bytes).buf) < MTHBlockSize
<1> DEFINE buf == m.buf \o bytes
           more == [m EXCEPT !.buf = buf]
           rest == Hash!Drop(buf, m.toSkip)
           m1 == [more EXCEPT !.buf = Hash!Drop(more.buf, m.toSkip), !.toSkip = 0]
           r == Hash!Written(m, bytes)
<1>1. m = [hashes |-> m.hashes, buf |-> m.buf, ctr |-> m.ctr,
           prependSize |-> m.prependSize, toSkip |-> m.toSkip]
      /\ m.hashes \in Seq(Nodes(L, Width(n))) /\ m.buf \in Seq(Nat) /\ m.ctr \in Nat
  BY DEF Hashers
<1>2. more = [hashes |-> m.hashes, buf |-> buf, ctr |-> m.ctr,
              prependSize |-> m.prependSize, toSkip |-> m.toSkip]
  <2>1. m = [hashes |-> m.hashes, buf |-> m.buf, ctr |-> m.ctr,
             prependSize |-> m.prependSize, toSkip |-> m.toSkip]
    BY <1>1
  <2> HIDE DEF buf
  <2> QED
    BY ONLY <2>1
<1>3. more.buf = buf /\ more.toSkip = m.toSkip
  BY <1>2
<1>4. r = IF Len(more.buf) < more.toSkip THEN more ELSE Hash!Blocks(m1)
  BY Zenon DEF Hash!Written
<1>5. r = Hash!Blocks(m1)
  <2>1. ~(Len(buf) < m.toSkip)
    OBVIOUS
  <2> HIDE DEF buf, more, m1, r
  <2> QED
    BY <1>3, <1>4, <2>1
<1>6. m1 = [hashes |-> m.hashes, buf |-> rest, ctr |-> m.ctr,
            prependSize |-> q, toSkip |-> 0]
  <2>1. Hash!Drop(more.buf, m.toSkip) = rest
    BY <1>3
  <2>2. m.prependSize = q
    OBVIOUS
  <2>3. m1 = [more EXCEPT !.buf = rest, !.toSkip = 0]
    BY <2>1
  <2> HIDE DEF rest, buf, more, m1
  <2> QED
    BY <1>2, <2>2, <2>3
<1>7. rest = Hash!Bytes(m.ctr * MTHBlockSize, u) /\ rest \in Seq(Nat)
  <2> DEFINE x == m.ctr * MTHBlockSize
  <2>1. x \in Nat /\ u \in Nat
    BY <1>1, HashAssumption
  <2> HIDE DEF x
  <2>2. Hash!Bytes(x, u) \in Seq(Nat)
    BY ONLY <2>1, BytesAre
  <2>3. rest = Hash!Bytes(m.ctr * MTHBlockSize, u)
    OBVIOUS
  <2> HIDE DEF rest
  <2> QED
    BY <2>2, <2>3 DEF x
<1> HIDE DEF m1, rest, r
<1>8. m1 \in AtByte(L, P, n, q, a, u)
  <2>1. m1 \in Hashers(L, n) /\ m1.hashes = m.hashes /\ m1.buf = rest /\ m1.ctr = m.ctr
        /\ m1.prependSize = q /\ m1.toSkip = 0
    BY <1>1, <1>6, <1>7 DEF Hashers
  <2> QED
    BY <1>7, <2>1 DEF AtByte
<1>9. Hash!Blocks(m1) \in AtByte(L, P, n, q, a, u) /\ Len(Hash!Blocks(m1).buf) < MTHBlockSize
  BY <1>8, BlocksAre
<1> QED
  BY <1>5, <1>9 DEF r

\* Nothing is left to skip.
LEMMA WriteOn ==
    ASSUME NEW n \in Nat, NEW L, NEW P, TreeOf(L, P, n), NEW q \in Nat, NEW a \in Nat,
           NEW t \in 0..n, NEW u \in 0..n, t < u, NEW m \in AtByte(L, P, n, q, a, t)
    PROVE  /\ Hash!Written(m, Hash!Bytes(t, u)) \in AtByte(L, P, n, q, a, u)
           /\ Len(Hash!Written(m, Hash!Bytes(t, u)).buf) < MTHBlockSize
<1> DEFINE x == m.ctr * MTHBlockSize
           bytes == Hash!Bytes(t, u)
           all == m.buf \o bytes
<1>1. /\ m \in Hashers(L, n) /\ m.prependSize = q /\ m.toSkip = 0 /\ m.ctr <= Count(n)
      /\ m.hashes \in Done(L, P, Width(n), a, m.ctr)
      /\ x <= t \/ t = n
      /\ m.buf = Hash!Bytes(x, t)
  BY DEF AtByte
<1>2. x \in Nat
  BY <1>1, HashAssumption DEF Hashers
<1> HIDE DEF x
<1>3. t \in Nat /\ u \in Nat /\ x <= t /\ t <= u /\ x <= u
  BY <1>1, <1>2
<1>4. all = Hash!Bytes(x, u)
  <2>1. Hash!Bytes(x, t) \o Hash!Bytes(t, u) = Hash!Bytes(x, u)
    BY ONLY <1>2, <1>3, BytesJoin
  <2> QED
    BY <1>1, <2>1
<1>5. all \in Seq(Nat) /\ bytes \in Seq(Nat)
  BY <1>2, <1>3, <1>4, BytesAre
<1> HIDE DEF all, bytes
<1>6. ~(Len(all) < m.toSkip) /\ Hash!Drop(all, m.toSkip) = all
  BY <1>1, <1>5 DEF Hash!Drop
<1>7. Hash!Drop(m.buf \o bytes, m.toSkip) = Hash!Bytes(m.ctr * MTHBlockSize, u)
      /\ ~(Len(m.buf \o bytes) < m.toSkip)
  BY <1>4, <1>6 DEF all, x
<1>8. m.ctr * MTHBlockSize <= u
  BY <1>3 DEF x
<1> QED
  BY <1>1, <1>5, <1>7, <1>8, WrittenIs DEF bytes

LEMMA WriteIsFed ==
    ASSUME NEW n \in Nat, NEW L, NEW P, TreeOf(L, P, n), NEW off \in 0..n,
           NEW t \in off..n, NEW u \in off..n, t < u, NEW m \in Fed(L, P, n, off, t)
    PROVE  Hash!Written(m, Hash!Bytes(t, u)) \in Fed(L, P, n, off, u)
<1> DEFINE p == Count(off)
           q == Prepended(off, n)
           bytes == Hash!Bytes(t, u)
           r == Hash!Written(m, bytes)
<1>1. /\ off \in Nat /\ p \in Nat /\ p <= Count(n) /\ q \in off..n /\ q \in Nat
      /\ \/ q = p * MTHBlockSize
         \/ q = n /\ n < p * MTHBlockSize
  BY PrependedIs
<1>2. t \in Nat /\ u \in Nat /\ off <= t /\ t <= u /\ t \in 0..n /\ u \in 0..n
  BY <1>1
<1>3. /\ m \in Hashers(L, n)
      /\ IF t < q THEN /\ m.hashes = <<>> /\ m.buf = Hash!Bytes(off, t)
                       /\ m.ctr = p /\ m.prependSize = q /\ m.toSkip = q - off
         ELSE m \in AtByte(L, P, n, q, p, t) /\ Len(m.buf) < MTHBlockSize
  BY DEF Fed
<1> HIDE DEF p, q
<1>4. CASE ~(t < q)
  <2>1. m \in AtByte(L, P, n, q, p, t)
    BY <1>3, <1>4
  <2>2. r \in AtByte(L, P, n, q, p, u) /\ Len(r.buf) < MTHBlockSize
    BY <1>1, <1>2, <2>1, WriteOn
  <2>3. ~(u < q) /\ r \in Hashers(L, n)
    BY <1>1, <1>2, <1>4, <2>2 DEF AtByte
  <2> HIDE DEF r
  <2> QED
    BY <2>2, <2>3 DEF Fed, r, bytes, p, q
<1>5. CASE t < q
  <2> DEFINE all == m.buf \o bytes
             skip == q - off
  <2>1. /\ m.hashes = <<>> /\ m.buf = Hash!Bytes(off, t)
        /\ m.ctr = p /\ m.prependSize = q /\ m.toSkip = skip
    BY <1>3, <1>5
  <2>2. all = Hash!Bytes(off, u)
    <3>1. Hash!Bytes(off, t) \o Hash!Bytes(t, u) = Hash!Bytes(off, u)
      BY ONLY <1>1, <1>2, BytesJoin
    <3> QED
      BY <2>1, <3>1
  <2>3. all \in Seq(Nat) /\ bytes \in Seq(Nat) /\ Len(all) = u - off
    <3>1. Hash!Bytes(off, u) \in Seq(Nat) /\ bytes \in Seq(Nat)
          /\ Len(Hash!Bytes(off, u)) = IF off <= u THEN u - off ELSE 0
      BY <1>1, <1>2, BytesAre
    <3>2. off <= u
      BY <1>1, <1>2
    <3> QED
      BY <2>2, <3>1, <3>2
  <2>4. skip \in Nat /\ off + skip = q
    BY <1>1
  <2>5. CASE u < q
    <3> DEFINE more == [m EXCEPT !.buf = all]
    <3>1. m = [hashes |-> m.hashes, buf |-> m.buf, ctr |-> m.ctr,
               prependSize |-> m.prependSize, toSkip |-> m.toSkip]
      BY <1>3 DEF Hashers
    <3>2. more = [hashes |-> m.hashes, buf |-> all, ctr |-> m.ctr,
                  prependSize |-> m.prependSize, toSkip |-> m.toSkip]
      <4> HIDE DEF all
      <4> QED
        BY <3>1
    <3>3. more.buf = all /\ more.toSkip = skip
      BY <2>1, <3>2
    <3>4. Len(all) < skip
      BY <1>1, <1>2, <2>3, <2>4, <2>5
    <3>5. r = more
      <4>1. Len(more.buf) < more.toSkip
        BY <3>3, <3>4
      <4> QED
        BY <4>1, Zenon DEF Hash!Written
    <3> HIDE DEF more, all, r, bytes
    <3>6. more \in Hashers(L, n) /\ more.hashes = m.hashes /\ more.ctr = m.ctr
          /\ more.prependSize = m.prependSize
      BY <1>3, <2>3, <3>2 DEF Hashers
    <3>7. r \in Fed(L, P, n, off, u)
      BY <2>1, <2>2, <2>5, <3>3, <3>5, <3>6 DEF Fed, p, q, skip
    <3> QED
      BY <3>7 DEF r, bytes
  <2>6. CASE ~(u < q)
    <3> DEFINE x == m.ctr * MTHBlockSize
    <3>1. x \in Nat /\ x = p * MTHBlockSize
      BY <1>1, <2>1, HashAssumption
    <3>2. Hash!Drop(all, skip) = Hash!Bytes(q, u)
      <4>1. off + skip <= u
        BY <1>1, <1>2, <2>4, <2>6
      <4>2. Cut(off, skip, u)
        BY <1>1, <1>2, <2>4, <4>1, CutIs
      <4> QED
        BY <2>2, <2>4, <4>2 DEF Cut
    <3> HIDE DEF x
    <3>3. Hash!Bytes(q, u) = Hash!Bytes(x, u) /\ (x <= u \/ u = n)
      <4>1. CASE q = p * MTHBlockSize
        BY <1>1, <1>2, <2>6, <3>1, <4>1
      <4>2. CASE q = n /\ n < p * MTHBlockSize
        <5>1. u <= q /\ u <= x /\ u = n
          BY <1>1, <1>2, <2>6, <3>1, <4>2
        <5>2. Hash!Bytes(q, u) = <<>> /\ Hash!Bytes(x, u) = <<>>
          BY <1>1, <1>2, <3>1, <5>1, BytesAre
        <5> QED
          BY <5>1, <5>2
      <4> QED
        BY <1>1, <4>1, <4>2
    <3>4. ~(Len(all) < skip)
      BY <1>1, <1>2, <2>3, <2>4, <2>6
    <3>5. m.hashes \in Done(L, P, Width(n), p, m.ctr) /\ m.ctr <= Count(n)
      <4>1. Width(n) \in Nat
        BY GroundIs
      <4> QED
        BY <1>1, <2>1, <4>1, NoNodes
    <3> HIDE DEF bytes, skip
    <3>6. /\ ~(Len(m.buf \o bytes) < m.toSkip)
          /\ Hash!Drop(m.buf \o bytes, m.toSkip) = Hash!Bytes(m.ctr * MTHBlockSize, u)
          /\ m.ctr * MTHBlockSize <= u \/ u = n
      BY <2>1, <3>2, <3>3, <3>4 DEF x
    <3>7. r \in AtByte(L, P, n, q, p, u) /\ Len(r.buf) < MTHBlockSize
      BY <1>1, <1>2, <1>3, <2>1, <2>3, <3>5, <3>6, WrittenIs
    <3> HIDE DEF r
    <3>8. r \in Hashers(L, n)
      BY <3>7 DEF AtByte
    <3> QED
      BY <2>6, <3>7, <3>8 DEF Fed, r, bytes, p, q
  <2> QED
    BY <2>5, <2>6
<1> QED
  BY <1>4, <1>5

\* Once the blocks before are added, the nodes are those of the whole file.
LEMMA PreaddIs ==
    ASSUME NEW n \in Nat, NEW L, NEW P, TreeOf(L, P, n), NEW off \in 0..n,
           NEW m \in Fed(L, P, n, off, n), m.prependSize > 0
    PROVE  /\ Hash!PreaddFrom(m) \in AtByte(L, P, n, Prepended(off, n), 0, n)
           /\ Len(Hash!PreaddFrom(m).buf) < MTHBlockSize
<1> DEFINE p == Count(off)
           q == Prepended(off, n)
           b == MTHBlockSize
           K == Count(n)
           w == Width(n)
           none == <<>>
           last == Hash!Flush(m)
           m0 == [last EXCEPT !.hashes = none, !.ctr = 0]
           first == Hash!Written(m0, Hash!Bytes(0, q))
           ctr == IF first.buf = <<>> THEN last.ctr ELSE last.ctr - 1
           joined == Hash!Joined(first.hashes, last.hashes)
           r == [first EXCEPT !.hashes = joined, !.ctr = ctr]
<1>1. /\ off \in Nat /\ p \in Nat /\ p <= K /\ q \in off..n /\ q \in Nat
      /\ \/ q = p * b
         \/ q = n /\ n < p * b /\ p = K
  BY PrependedIs
<1>2. b \in Nat \ {0} /\ w \in Nat /\ K \in Nat /\ K * b >= n /\ K <= w /\ Tree(L, P, w)
      /\ \A c \in Nat : c < K <=> c * b < n
  BY HashAssumption, CountIs, GroundIs DEF TreeOf
<1>3. m \in AtByte(L, P, n, q, p, n) /\ Len(m.buf) < b /\ m.prependSize = q /\ q > 0
  <2>1. ~(n < q)
    BY <1>1
  <2>2. m \in AtByte(L, P, n, q, p, n) /\ Len(m.buf) < b
    BY <2>1 DEF Fed
  <2> QED
    BY <2>2 DEF AtByte
<1>4. Hash!PreaddFrom(m) = r
  <2>1. m.prependSize = q
    BY <1>3
  <2> HIDE DEF q
  <2> QED
    BY <2>1, Zenon DEF Hash!PreaddFrom
<1> HIDE DEF p, q, b, K, w
<1>5. last \in AtByte(L, P, n, q, p, n) /\ last.buf = <<>> /\ last.ctr = K
  BY <1>1, <1>3, FlushIs DEF b, K
<1>6. /\ last \in Hashers(L, n) /\ last.hashes \in Done(L, P, w, p, K)
      /\ last.prependSize = q /\ last.toSkip = 0
  BY <1>5 DEF AtByte, w
<1> HIDE DEF last
<1>7. m0 \in AtByte(L, P, n, q, 0, 0)
  <2>1. /\ none \in Seq(Nodes(L, w)) /\ none \in Done(L, P, w, 0, 0)
        /\ none \in Seq(Nat)
    BY <1>2, NoNodes
  <2>2. none = Hash!Bytes(0, 0)
    BY BytesAre
  <2>3. last.buf = none
    BY <1>5
  <2> HIDE DEF none
  <2>4. m0 \in Hashers(L, n) /\ m0.hashes = none /\ m0.ctr = 0 /\ m0.buf = none
        /\ m0.prependSize = q /\ m0.toSkip = 0
    BY <1>6, <2>1, <2>3 DEF Hashers, w
  <2>5. 0 * MTHBlockSize = 0
    BY HashAssumption
  <2> HIDE DEF m0
  <2> QED
    BY <1>2, <2>1, <2>2, <2>4, <2>5 DEF AtByte, K, w
<1> HIDE DEF m0, none
<1>8. first \in AtByte(L, P, n, q, 0, q) /\ Len(first.buf) < b
  <2>1. q \in 0..n /\ 0 \in 0..n /\ 0 < q
    BY <1>1, <1>3
  <2> QED
    BY <1>1, <1>7, <2>1, WriteOn DEF b
<1> HIDE DEF first
<1> DEFINE f == first.ctr
           x == f * b
<1>9. /\ first \in Hashers(L, n) /\ first.hashes \in Done(L, P, w, 0, f) /\ f <= K
      /\ first.prependSize = q /\ first.toSkip = 0
      /\ x <= q \/ q = n
      /\ first.buf = Hash!Bytes(x, q)
  BY <1>8 DEF AtByte, K, w, b
<1>10. f \in Nat /\ x \in Nat
  BY <1>2, <1>9 DEF Hashers
<1> HIDE DEF f
<1>11. /\ Len(first.buf) = (IF x <= q THEN q - x ELSE 0)
       /\ q <= x <=> first.buf = <<>>
  <2> HIDE DEF x
  <2>1. /\ Len(Hash!Bytes(x, q)) = IF x <= q THEN q - x ELSE 0
        /\ q <= x <=> Hash!Bytes(x, q) = <<>>
    BY ONLY <1>1, <1>10, BytesAre
  <2> QED
    BY <1>9, <2>1
<1>12. joined \in Done(L, P, w, 0, ctr) /\ ctr \in 0..K /\ first.buf = Hash!Bytes(ctr * b, n)
  <2>1. CASE q = p * b
    <3>1. f = p
      <4>1. f <= p
        <5> SUFFICES ASSUME p < f PROVE FALSE
          BY <1>1, <1>10
        <5>1. (p + 1) * b <= f * b /\ (p + 1) * b = p * b + b /\ p * b \in Nat
          <6>1. p + 1 <= f /\ p + 1 \in Nat /\ b \in Nat /\ p <= p
            BY <1>1, <1>2, <1>10
          <6>2. (p + 1) * b <= f * b
            BY ONLY <6>1, <1>10, Times
          <6>3. p * b \in Nat /\ (p + 1) * b = p * b + b
            BY ONLY <6>1, <1>1, Times
          <6> QED
            BY <6>2, <6>3
        <5>2. q < x
          BY <1>2, <1>10, <2>1, <5>1
        <5>3. q = n
          BY <1>1, <1>9, <1>10, <5>2
        <5>4. p < K
          BY <1>1, <1>2, <1>9, <1>10
        <5>5. p * b < n
          BY <1>1, <1>2, <5>4
        <5> QED
          BY <2>1, <5>1, <5>3, <5>5
      <4>2. p <= f
        <5> SUFFICES ASSUME f < p PROVE FALSE
          BY <1>1, <1>10
        <5>1. (f + 1) * b <= p * b /\ (f + 1) * b = f * b + b
          <6>1. f + 1 <= p /\ f + 1 \in Nat /\ b \in Nat /\ f <= f
            BY <1>1, <1>2, <1>10
          <6>2. (f + 1) * b <= p * b
            BY ONLY <6>1, <1>1, Times
          <6>3. f * b \in Nat /\ (f + 1) * b = f * b + b
            BY ONLY <6>1, <1>10, Times
          <6> QED
            BY <6>2, <6>3
        <5>2. x + b <= q
          BY <2>1, <5>1
        <5>3. q - x < b
          <6> DEFINE len == Len(first.buf)
          <6>1. len = (IF x <= q THEN q - x ELSE 0) /\ len < b
            BY <1>8, <1>11
          <6> HIDE DEF len, x
          <6> QED
            BY <1>1, <1>2, <1>10, <5>2, <6>1
        <5> QED
          BY <1>1, <1>2, <1>10, <5>2, <5>3
      <4> QED
        BY <1>1, <1>10, <4>1, <4>2
    <3>2. first.buf = <<>>
      BY <1>1, <1>10, <1>11, <2>1, <3>1
    <3>3. ctr = K
      BY <1>5, <3>2
    <3>4. joined \in Done(L, P, w, 0, K)
      <4>1. first.hashes \in Done(L, P, w, 0, p)
        BY <1>9, <3>1
      <4>2. 0 \in Nat
        OBVIOUS
      <4> HIDE DEF joined
      <4> QED
        BY <1>1, <1>2, <1>6, <4>1, JoinedIs DEF joined
    <3>5. Hash!Bytes(K * b, n) = <<>>
      <4> DEFINE y == K * b
      <4>1. y \in Nat /\ n <= y
        BY <1>2
      <4> HIDE DEF y
      <4>2. Hash!Bytes(y, n) = <<>>
        BY ONLY <4>1, n \in Nat, BytesAre
      <4> QED
        BY <4>2 DEF y
    <3> HIDE DEF ctr, joined
    <3> QED
      BY <1>2, <3>2, <3>3, <3>4, <3>5
  <2>2. CASE q = n /\ n < p * b /\ p = K
    <3>1. last.hashes = <<>>
      <4> DEFINE s == last.hashes
      <4>1. s \in Done(L, P, w, p, p) /\ s \in Seq(Nodes(L, w))
        BY <1>6, <2>2 DEF Done
      <4> HIDE DEF s
      <4>2. p + Len(s) <= p /\ Len(s) \in Nat
        BY <1>1, <1>2, <4>1, Rising
      <4>3. Len(s) = 0
        BY <1>1, <4>2
      <4>4. s = <<>>
        BY <4>1, <4>3
      <4> QED
        BY <4>4 DEF s
    <3>2. f = IF first.buf = <<>> THEN K ELSE K - 1
      <4>1. first \in AtByte(L, P, n, q, 0, n)
        BY <1>8, <2>2
      <4> QED
        BY <1>1, <1>8, <4>1, FlushIs DEF b, K, f
    <3>3. ctr = f
      BY <1>5, <3>2
    <3>4. joined \in Done(L, P, w, 0, f)
      <4>1. last.hashes \in Done(L, P, w, f, f) /\ f <= w
        <5>1. <<>> \in Done(L, P, w, f, f) /\ f <= w
          BY <1>2, <1>9, <1>10, NoNodes
        <5> QED
          BY <3>1, <5>1
      <4> HIDE DEF joined
      <4> QED
        BY <1>2, <1>9, <1>10, <4>1, JoinedIs DEF joined
    <3> HIDE DEF ctr, joined
    <3> QED
      BY <1>9, <1>10, <2>2, <3>3, <3>4
  <2> HIDE DEF joined, ctr, x
  <2> QED
    BY <1>1, <2>1, <2>2
<1> HIDE DEF joined, ctr
<1>13. r \in Hashers(L, n) /\ r.hashes = joined /\ r.ctr = ctr /\ r.buf = first.buf
       /\ r.prependSize = q /\ r.toSkip = 0
  <2>1. joined \in Seq(Nodes(L, w)) /\ ctr \in Nat
    BY <1>2, <1>12 DEF Done
  <2> QED
    BY <1>9, <2>1 DEF Hashers, w
<1> HIDE DEF r
<1>14. r \in AtByte(L, P, n, q, 0, n)
  <2>1. r.ctr <= K /\ r.hashes \in Done(L, P, w, 0, r.ctr) /\ r.buf = Hash!Bytes(r.ctr * b, n)
    BY <1>2, <1>12, <1>13
  <2> QED
    BY <1>13, <2>1 DEF AtByte, K, w, b
<1> QED
  BY <1>4, <1>8, <1>13, <1>14 DEF b, q

\* Of a whole file the sum is the top of its tree.
LEMMA SumIs ==
    ASSUME NEW n \in Nat, NEW L, NEW P, TreeOf(L, P, n), NEW q \in Nat,
           NEW m \in AtByte(L, P, n, q, 0, n), Len(m.buf) < MTHBlockSize
    PROVE  Hash!Sum(m) = Hash!MTHFat(n)
<1> DEFINE K == Count(n)
           w == Width(n)
           none == <<>>
           flushed == Hash!Flush(m)
           atLeast1 == IF flushed.ctr = 0 THEN Hash!leafAdd(flushed, none) ELSE flushed
           s == atLeast1.hashes
           e == Hash!Ent(0, 1, s[1].h)
           atLeast2 == IF atLeast1.ctr = 1 THEN Hash!fold(Append(s, e)) ELSE s
<1>1. Hash!Sum(m) = Hash!Collapse(atLeast2)[1].h
  BY Zenon DEF Hash!Sum
<1>2. /\ K \in Nat /\ w \in Nat /\ w >= 2 /\ K <= w /\ Tree(L, P, w) /\ L[0] = Ground(n)
      /\ Hash!MTHFat(n) = L[w][1]
      /\ K < 2 => w = 2 /\ Ground(n)[2] = Ground(n)[1]
      /\ K >= 2 => w = K
      /\ K = 0 => Ground(n)[1] = Hash!Leaf(none)
  <2>1. K \in Nat /\ (K = 0 <=> n = 0)
    BY CountIs
  <2> QED
    BY <2>1, GroundIs DEF TreeOf
<1> HIDE DEF K, w, none
<1>3. flushed \in AtByte(L, P, n, q, 0, n) /\ flushed.ctr = K
  BY FlushIs DEF K
<1>4. flushed \in Hashers(L, n) /\ flushed.hashes \in Done(L, P, w, 0, K)
  BY <1>3 DEF AtByte, w
<1> HIDE DEF flushed
<1>5. /\ atLeast1.ctr = IF K = 0 THEN 1 ELSE K
      /\ s \in Done(L, P, w, 0, atLeast1.ctr)
  <2>1. CASE K = 0
    <3> DEFINE l == Hash!leafAdd(flushed, none)
    <3>1. flushed.ctr = 0 /\ 0 < w /\ Hash!Leaf(none) = Ground(n)[0 + 1]
      BY <1>2, <1>3, <2>1
    <3>2. l.ctr = flushed.ctr + 1 /\ l.hashes \in Done(L, P, w, 0, flushed.ctr + 1)
      <4>1. flushed.ctr < Width(n) /\ flushed.hashes \in Done(L, P, Width(n), 0, flushed.ctr)
            /\ Hash!Leaf(none) = Ground(n)[flushed.ctr + 1]
        BY <1>3, <1>4, <2>1, <3>1 DEF w
      <4>2. 0 \in Nat
        OBVIOUS
      <4> HIDE DEF l
      <4> QED
        BY <1>4, <4>1, <4>2, LeafAddIs DEF w, l
    <3>3. atLeast1 = l
      BY <3>1
    <3> HIDE DEF l, atLeast1
    <3> QED
      BY <2>1, <3>1, <3>2, <3>3
  <2>2. CASE K # 0
    <3>1. atLeast1 = flushed
      BY <1>3, <2>2
    <3> HIDE DEF atLeast1
    <3> QED
      BY <1>3, <1>4, <2>2, <3>1
  <2> QED
    BY <2>1, <2>2
<1> HIDE DEF atLeast1
<1>6. atLeast2 \in Done(L, P, w, 0, w)
  <2>1. CASE K < 2
    <3>1. atLeast1.ctr = 1 /\ w = 2 /\ s \in Done(L, P, w, 0, 1)
      BY <1>2, <1>5, <2>1
    <3> HIDE DEF s
    <3>2. /\ s \in Seq(Nodes(L, w)) /\ Spans(s, P, w, 0, 1)
      BY <3>1 DEF Done
    <3>3. Len(s) = 1
      <4> DEFINE len == Len(s)
      <4>1. 0 + len <= 1 /\ len \in Nat
        BY <1>2, <3>1, Rising
      <4>2. len # 0
        BY <3>2 DEF Spans
      <4> HIDE DEF len
      <4>3. len = 1
        BY <4>1, <4>2
      <4> QED
        BY <4>3 DEF len
    <3> DEFINE d == s[1]
    <3>4. d \in Nodes(L, w) /\ Low(d, P) = 0 /\ High(d, P) = 1
      BY <3>2, <3>3 DEF Spans
    <3> HIDE DEF d
    <3>5. d.l \in 0..w /\ d.c \in 0..w /\ d.h = L[d.l][d.c + 1]
      BY <1>2, <3>4, NodeIs
    <3>6. P[0] = 1 /\ P[1] = 2 /\ P[2] = 4
      <4>1. P[0] = 1 /\ \A i \in 1..2 : P[i] = 2 * P[i - 1]
        BY <1>2, <3>1 DEF Tree, Powers
      <4>2. P[1] = 2 * P[1 - 1] /\ P[2] = 2 * P[2 - 1]
        BY <4>1
      <4>3. 1 - 1 = 0 /\ 2 - 1 = 1
        OBVIOUS
      <4> QED
        BY <4>1, <4>2, <4>3
    <3>7. d.l = 0 /\ d.c = 0
      <4>1. d.c * P[d.l] = 0 /\ (d.c + 1) * P[d.l] = 1
        BY <3>4 DEF Low, High
      <4>2. d.c \in Nat
        BY <1>2, <3>5
      <4>3. d.l = 0 \/ d.l = 1 \/ d.l = 2
        BY <3>1, <3>5
      <4> QED
        BY <3>6, <4>1, <4>2, <4>3
    <3>8. d.h = Ground(n)[1 + 1] /\ 1 < w
      BY <1>2, <2>1, <3>1, <3>5, <3>7
    <3>9. Hash!fold(Append(s, Hash!Ent(0, 1, d.h))) \in Done(L, P, Width(n), 0, 1 + 1)
      <4>1. s \in Done(L, P, Width(n), 0, 1) /\ 1 < Width(n) /\ 1 \in Nat /\ 0 \in Nat
        BY <3>1, <3>8 DEF w
      <4> QED
        BY <3>8, <4>1, LeafAdded
    <3>10. atLeast2 = Hash!fold(Append(s, Hash!Ent(0, 1, d.h)))
      BY <3>1 DEF d
    <3> HIDE DEF atLeast2
    <3> QED
      BY <3>1, <3>9, <3>10 DEF w
  <2>2. CASE ~(K < 2)
    <3>1. atLeast1.ctr = K /\ K # 1 /\ w = K
      BY <1>2, <1>5, <2>2
    <3>2. atLeast2 = s
      BY <3>1
    <3> HIDE DEF atLeast2, s
    <3> QED
      BY <1>5, <3>1, <3>2
  <2> QED
    BY <2>1, <2>2
<1> HIDE DEF atLeast2
<1>7. Hash!Collapse(atLeast2)[1].h = L[w][1]
  BY <1>2, <1>6, CollapseIs
<1> QED
  BY <1>1, <1>2, <1>7

\* What a hasher has seen of its file is what the tree of that file has there:
\* all from the offset on while it is written to, all from the first byte on
\* when what was there before is added.
Hashing(L, P) ==
    /\ TreeOf(L, P, filesize)
    /\ hashed = "writing" => hasher \in Fed(L, P, filesize, resumed, fed)
    /\ hashed = "whole" =>
          /\ hasher \in AtByte(L, P, filesize, Prepended(resumed, filesize), 0, filesize)
          /\ Len(hasher.buf) < MTHBlockSize

HashInvariant ==
    /\ filesize \in Nat /\ resumed \in 0..filesize /\ fed \in resumed..filesize
    /\ hashed \in {"writing", "whole", "summed"}
    /\ \E L, P : Hashing(L, P)
    /\ SumIsTree

LEMMA HashStarts == Hash!Init => HashInvariant
<1> SUFFICES ASSUME Hash!Init PROVE HashInvariant
  OBVIOUS
<1>1. /\ filesize \in Nat /\ resumed \in 0..filesize /\ fed = resumed
      /\ hasher = Hash!MTHSeqNew(filesize, resumed) /\ hashed = "writing"
  BY HashAssumption DEF Hash!Init
<1>2. PICK L, P : TreeOf(L, P, filesize)
  BY <1>1, TreeExists
<1>3. hasher \in Fed(L, P, filesize, resumed, fed)
  BY <1>1, <1>2, NewIsFed
<1>4. Hashing(L, P)
  BY <1>1, <1>2, <1>3 DEF Hashing
<1>5. SumIsTree
  BY <1>1 DEF SumIsTree, Hash!SumIsTree
<1> QED
  BY <1>1, <1>4, <1>5 DEF HashInvariant

LEMMA HasherGoes == HashInvariant /\ [Hash!Next]_Hash!vars => HashInvariant'
<1> SUFFICES ASSUME HashInvariant, [Hash!Next]_Hash!vars PROVE HashInvariant'
  OBVIOUS
<1>1. /\ filesize \in Nat /\ resumed \in 0..filesize /\ fed \in resumed..filesize
      /\ hashed \in {"writing", "whole", "summed"} /\ SumIsTree
  BY DEF HashInvariant
<1>2. PICK L, P : Hashing(L, P)
  BY DEF HashInvariant
<1> DEFINE q == Prepended(resumed, filesize)
<1>3. TreeOf(L, P, filesize) /\ q \in resumed..filesize /\ q \in Nat
  BY <1>1, <1>2, PrependedIs DEF Hashing
<1>4. CASE Hash!Write
  <2>1. /\ hashed = "writing"
        /\ filesize' = filesize /\ resumed' = resumed /\ hashed' = hashed
    BY <1>4 DEF Hash!Write
  <2>2. PICK n \in 1..Hash!Least(MaxWrite, filesize - fed) :
           hasher' = Hash!Written(hasher, Hash!Bytes(fed, fed + n)) /\ fed' = fed + n
    BY <1>4 DEF Hash!Write
  <2>3. n \in Nat /\ n >= 1 /\ fed + n <= filesize
    BY <1>1, <2>2, HashAssumption DEF Hash!Least
  <2>4. fed' \in resumed..filesize /\ fed < fed'
    BY <1>1, <2>2, <2>3
  <2>5. hasher' \in Fed(L, P, filesize, resumed, fed')
    <3>1. hasher \in Fed(L, P, filesize, resumed, fed)
      BY <1>2, <2>1 DEF Hashing
    <3> QED
      BY <1>1, <1>3, <2>2, <2>4, <3>1, WriteIsFed
  <2>6. Hashing(L, P)'
    BY <1>3, <2>1, <2>5 DEF Hashing, TreeOf
  <2>7. SumIsTree'
    BY <2>1 DEF SumIsTree, Hash!SumIsTree
  <2> QED
    BY <1>1, <2>1, <2>4, <2>6, <2>7 DEF HashInvariant
<1>5. CASE Hash!Preadd
  <2>1. /\ hashed = "writing" /\ fed = filesize /\ hashed' = "whole"
        /\ filesize' = filesize /\ resumed' = resumed /\ fed' = fed
        /\ hasher' = IF hasher.prependSize > 0 THEN Hash!PreaddFrom(hasher) ELSE hasher
    BY <1>5 DEF Hash!Preadd
  <2>2. hasher \in Fed(L, P, filesize, resumed, filesize)
    BY <1>2, <2>1 DEF Hashing
  <2>3. /\ hasher' \in AtByte(L, P, filesize, q, 0, filesize)
        /\ Len(hasher'.buf) < MTHBlockSize
    <3>1. CASE hasher.prependSize > 0
      BY <1>1, <1>3, <2>1, <2>2, <3>1, PreaddIs
    <3>2. CASE ~(hasher.prependSize > 0)
      <4>1. ~(filesize < q)
        BY <1>1, <1>3
      <4>2. /\ hasher \in AtByte(L, P, filesize, q, Count(resumed), filesize)
            /\ Len(hasher.buf) < MTHBlockSize
        BY <2>2, <4>1 DEF Fed
      <4>3. q = 0
        BY <1>3, <3>2, <4>2 DEF AtByte
      <4>4. Count(resumed) = 0
        BY <1>1, <4>3, PrependedIs
      <4> QED
        BY <2>1, <3>2, <4>2, <4>4
    <3> QED
      BY <3>1, <3>2
  <2>4. Hashing(L, P)'
    BY <1>3, <2>1, <2>3 DEF Hashing
  <2>5. SumIsTree'
    BY <2>1 DEF SumIsTree, Hash!SumIsTree
  <2> QED
    BY <1>1, <2>1, <2>4, <2>5 DEF HashInvariant
<1>6. CASE Hash!Summed
  <2>1. /\ hashed = "whole" /\ hashed' = "summed"
        /\ filesize' = filesize /\ resumed' = resumed /\ fed' = fed
        /\ hasher' = [hasher EXCEPT !.hashes = <<Hash!Ent(0, 0, Hash!Sum(hasher))>>]
    BY <1>6 DEF Hash!Summed
  <2>2. /\ hasher \in AtByte(L, P, filesize, q, 0, filesize)
        /\ Len(hasher.buf) < MTHBlockSize
    BY <1>2, <2>1 DEF Hashing
  <2>3. Hash!Sum(hasher) = Hash!MTHFat(filesize)
    BY <1>1, <1>3, <2>2, SumIs
  <2>4. Hashing(L, P)'
    BY <1>3, <2>1 DEF Hashing
  <2>5. SumIsTree'
    <3> DEFINE h == Hash!Sum(hasher)
    <3>1. hasher \in Hashers(L, filesize)
      BY <2>2 DEF AtByte
    <3> HIDE DEF h
    <3>2. hasher'.hashes = <<Hash!Ent(0, 0, h)>>
      BY <2>1, <3>1 DEF Hashers, h
    <3>3. hasher'.hashes[1] = Hash!Ent(0, 0, h)
      BY <3>2
    <3>4. hasher'.hashes[1].h = h
      BY <3>3 DEF Hash!Ent
    <3> QED
      BY <2>1, <2>3, <3>4 DEF SumIsTree, Hash!SumIsTree, h
  <2> QED
    BY <1>1, <2>1, <2>4, <2>5 DEF HashInvariant
<1>7. CASE UNCHANGED Hash!vars
  <2>1. UNCHANGED <<filesize, resumed, fed, hasher, hashed>>
    BY <1>7 DEF Hash!vars
  <2>2. Hashing(L, P)'
    BY <1>2, <2>1 DEF Hashing
  <2>3. SumIsTree'
    BY <1>1, <2>1 DEF SumIsTree, Hash!SumIsTree
  <2> QED
    BY <1>1, <2>1, <2>2, <2>3 DEF HashInvariant
<1> QED
  BY <1>4, <1>5, <1>6, <1>7 DEF Hash!Next

(* However a file comes in, in pieces of any lengths and resumed at any    *)
(* offset, for every size of blocks: the hash MTHSeq has folded by then,   *)
(* with what PreaddFrom adds, is the one MTHFat computes of the whole file *)
(* (src/src/mth.go).                                                       *)
THEOREM SumsAreTrees == Hash!Spec => []SumIsTree
<1>1. Hash!Init => HashInvariant
  BY HashStarts
<1>2. HashInvariant /\ [Hash!Next]_Hash!vars => HashInvariant'
  BY HasherGoes
<1>3. HashInvariant => SumIsTree
  BY DEF HashInvariant
<1> QED
  BY <1>1, <1>2, <1>3, PTL DEF Hash!Spec
=============================================================================
