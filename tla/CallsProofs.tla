---------------------------- MODULE CallsProofs ----------------------------
(***************************************************************************)
(* For every number of calls, connections, addresses, receivers, removals  *)
(* of lock files and kills: sessions exclude each other as far as their    *)
(* lock files do, nncp-caller makes one call of the node at a time, no     *)
(* tosser outlives its call, and the table of discovered addresses is      *)
(* right.                                                                  *)
(***************************************************************************)
EXTENDS Calls, SequenceTheorems, FunctionTheorems, FiniteSetTheorems, TLAPS

-----------------------------------------------------------------------------
(* The table of addresses *)

Entries == [addr : Discovery!Addrs, age : 0..2]

LEMMA Table ==
    Discovery!TypeOK <=>
        /\ mcdAddrs \in Seq(Entries)
        /\ rx \in [Receivers -> {"listening", "new"}]
        /\ heard \in [Discovery!Addrs -> 0..3]
BY DEF Discovery!TypeOK, Discovery!Lifetime, Entries

LEMMA ZoneIsAddr == \A r \in Receivers : Zone[r] \in Discovery!Addrs
BY DEF Discovery!Addrs

\* The entries of an address, among the positions of the table.
LEMMA AtIsSet ==
    ASSUME Discovery!TypeOK, NEW a
    PROVE  /\ Discovery!At(a) = {k \in 1..Len(mcdAddrs) : mcdAddrs[k].addr = a}
           /\ Len(mcdAddrs) \in Nat
           /\ \A k \in 1..Len(mcdAddrs) : mcdAddrs[k] \in Entries
           /\ IsFiniteSet(Discovery!At(a)) /\ Cardinality(Discovery!At(a)) \in Nat
<1>1. /\ Len(mcdAddrs) \in Nat /\ DOMAIN mcdAddrs = 1..Len(mcdAddrs)
      /\ \A k \in 1..Len(mcdAddrs) : mcdAddrs[k] \in Entries
  BY Table, LenProperties, ElementOfSeq
<1>2. Discovery!At(a) = {k \in 1..Len(mcdAddrs) : mcdAddrs[k].addr = a}
  BY <1>1 DEF Discovery!At
<1>3. IsFiniteSet(1..Len(mcdAddrs))
  BY <1>1, FS_Interval
<1>4. IsFiniteSet(Discovery!At(a))
  BY <1>2, <1>3, FS_Subset
<1> QED
  BY <1>1, <1>2, <1>4, FS_CardinalityType

LEMMA AtIsSetNext ==
    ASSUME Discovery!TypeOK', NEW a
    PROVE  /\ Discovery!At(a)' = {k \in 1..Len(mcdAddrs') : mcdAddrs'[k].addr = a}
           /\ Len(mcdAddrs') \in Nat
           /\ \A k \in 1..Len(mcdAddrs') : mcdAddrs'[k] \in Entries
           /\ IsFiniteSet(Discovery!At(a)') /\ Cardinality(Discovery!At(a)') \in Nat
<1>1. /\ Len(mcdAddrs') \in Nat /\ DOMAIN mcdAddrs' = 1..Len(mcdAddrs')
      /\ \A k \in 1..Len(mcdAddrs') : mcdAddrs'[k] \in Entries
  BY LenProperties, ElementOfSeq DEF Discovery!TypeOK, Discovery!Lifetime, Entries
<1>2. Discovery!At(a)' = {k \in 1..Len(mcdAddrs') : mcdAddrs'[k].addr = a}
  BY <1>1 DEF Discovery!At
<1>3. IsFiniteSet(1..Len(mcdAddrs'))
  BY <1>1, FS_Interval
<1>4. IsFiniteSet(Discovery!At(a)')
  BY <1>2, <1>3, FS_Subset
<1> QED
  BY <1>1, <1>2, <1>4, FS_CardinalityType

\* MCD's instance has a Cardinality of its own.
LEMMA SameCardinality == \A S : Discovery!Cardinality(S) = Cardinality(S)
BY DEF Discovery!Cardinality, Cardinality

LEMMA LessOnNat == IsWellFoundedOn({ss \in Nat \X Nat : ss[1] < ss[2]}, Nat)
BY NatLessThanWellFounded DEF OpToRel

LEMMA MinimalIn ==
    ASSUME NEW R, IsWellFoundedOn(R, Nat), NEW K, K \subseteq Nat, K # {}
    PROVE  \E k \in K : \A other \in K : ~(<<other, k>> \in R)
BY WFMin, Zenon

LEMMA LeastOf ==
    ASSUME NEW K, K \subseteq Nat, K # {}
    PROVE  \E k \in K : \A other \in K : k <= other
<1> SUFFICES ASSUME NEW less, less = {ss \in Nat \X Nat : ss[1] < ss[2]},
                    IsWellFoundedOn(less, Nat)
             PROVE  \E k \in K : \A other \in K : k <= other
  BY LessOnNat
<1>1. PICK k \in K : \A other \in K : ~(<<other, k>> \in less)
  BY MinimalIn
<1>2. \A other \in K : ~(other < k)
  BY <1>1
<1>3. k \in Int /\ \A other \in K : other \in Int
  OBVIOUS
<1> QED
  BY <1>2, <1>3

\* The first of some positions exists.
LEMMA FirstOf ==
    ASSUME NEW K \in SUBSET Nat, K # {}
    PROVE  Discovery!First(K) \in K
BY LeastOf DEF Discovery!First

\* What a round of the sweeper leaves: the entries still alive, each once,
\* a minute older.
LEMMA Swept ==
    ASSUME Discovery!TypeOK, Discovery!Sweep
    PROVE  \E n \in Nat : \E pos \in [1..n -> Discovery!Alive] :
              /\ \A i, j \in 1..n : pos[i] = pos[j] => i = j
              /\ \A k \in Discovery!Alive : \E i \in 1..n : pos[i] = k
              /\ mcdAddrs' \in Seq(Entries) /\ Len(mcdAddrs') = n
              /\ \A i \in 1..n : /\ mcdAddrs'[i].addr = mcdAddrs[pos[i]].addr
                                 /\ mcdAddrs'[i].age = mcdAddrs[pos[i]].age + 1
<1> DEFINE A == Discovery!Alive
           n == Cardinality(A)
<1>1. /\ Len(mcdAddrs) \in Nat /\ DOMAIN mcdAddrs = 1..Len(mcdAddrs)
      /\ \A k \in 1..Len(mcdAddrs) : mcdAddrs[k] \in Entries
  BY Table, LenProperties, ElementOfSeq
<1>2. /\ A \subseteq 1..Len(mcdAddrs)
      /\ \A k \in A : mcdAddrs[k] \in Entries /\ mcdAddrs[k].age \in 0..1
  BY <1>1 DEF Discovery!Alive, Discovery!Lifetime, Entries
<1>3. IsFiniteSet(A) /\ n \in Nat
  <2>1. IsFiniteSet(1..Len(mcdAddrs))
    BY <1>1, FS_Interval
  <2>2. IsFiniteSet(A)
    BY <1>2, <2>1, FS_Subset
  <2> QED
    BY <2>2, FS_CardinalityType
<1>4. PICK pos \in [1..n -> A] :
         /\ \A i, j \in DOMAIN pos : i < j => pos[i] < pos[j]
         /\ mcdAddrs' = [i \in DOMAIN pos |->
                           [mcdAddrs[pos[i]] EXCEPT !.age = Discovery!Older(@)]]
  BY SameCardinality DEF Discovery!Sweep
<1> HIDE DEF A, n
<1>5. \A i, j \in 1..n : pos[i] = pos[j] => i = j
  <2> SUFFICES ASSUME NEW i \in 1..n, NEW j \in 1..n, i < j PROVE pos[i] # pos[j]
    BY <1>3
  <2>1. pos[i] \in Nat /\ pos[j] \in Nat /\ pos[i] < pos[j]
    BY <1>1, <1>2, <1>4
  <2> QED
    BY <2>1
<1>6. \A k \in A : \E i \in 1..n : pos[i] = k
  <2>1. pos \in Injection(1..n, A)
    BY <1>5, Fun_IsInj
  <2>2. Cardinality(1..n) = n
    BY <1>3, FS_Interval
  <2>3. pos \in Surjection(1..n, A)
    BY <1>3, <2>1, <2>2, FS_Injection DEF n
  <2> QED
    BY <2>3 DEF Surjection
<1>7. \A i \in 1..n : /\ mcdAddrs'[i] \in Entries
                      /\ mcdAddrs'[i].addr = mcdAddrs[pos[i]].addr
                      /\ mcdAddrs'[i].age = mcdAddrs[pos[i]].age + 1
  <2> TAKE i \in 1..n
  <2>1. mcdAddrs[pos[i]] \in Entries /\ mcdAddrs[pos[i]].age \in 0..1
    BY <1>2, <1>4
  <2>2. mcdAddrs'[i] = [mcdAddrs[pos[i]] EXCEPT !.age = @ + 1]
    BY <1>4, <2>1 DEF Discovery!Older, Discovery!Lifetime
  <2> QED
    BY <2>1, <2>2 DEF Entries
<1>8. mcdAddrs' \in [1..n -> Entries]
  BY <1>4, <1>7
<1>9. mcdAddrs' \in Seq(Entries) /\ Len(mcdAddrs') = n
  <2>1. mcdAddrs' \in Seq(Entries)
    BY <1>3, <1>8, SeqDef
  <2>2. DOMAIN mcdAddrs' = 1..n /\ DOMAIN mcdAddrs' = 1..Len(mcdAddrs') /\ Len(mcdAddrs') \in Nat
    BY <1>8, <2>1, LenProperties
  <2> QED
    BY <1>3, <2>1, <2>2
<1> QED
  BY <1>3, <1>5, <1>6, <1>7, <1>9 DEF A

\* A beacon makes one entry of its address young, and no other changes.
LEMMA Refreshed ==
    ASSUME Discovery!TypeOK, NEW r \in Receivers, Discovery!Refresh(r)
    PROVE  /\ Discovery!TypeOK' /\ Len(mcdAddrs') = Len(mcdAddrs)
           /\ \E k \in Discovery!At(Zone[r]) : \A j \in 1..Len(mcdAddrs) :
                 /\ mcdAddrs'[j].addr = mcdAddrs[j].addr
                 /\ mcdAddrs'[j].age = IF j = k THEN 0 ELSE mcdAddrs[j].age
<1>1. PICK k \in Discovery!At(Zone[r]) : mcdAddrs' = [mcdAddrs EXCEPT ![k].age = 0]
  <2>1. Discovery!At(Zone[r]) \subseteq Nat /\ Discovery!At(Zone[r]) # {}
    BY AtIsSet DEF Discovery!Refresh
  <2> QED
    BY <2>1, FirstOf DEF Discovery!Refresh
<1>2. k \in 1..Len(mcdAddrs) /\ mcdAddrs[k] \in Entries
  BY AtIsSet
<1> DEFINE e == [mcdAddrs[k] EXCEPT !.age = 0]
<1>3. e \in Entries /\ e.addr = mcdAddrs[k].addr /\ e.age = 0
  BY <1>2 DEF Entries
<1>4. mcdAddrs' = [mcdAddrs EXCEPT ![k] = e]
  BY <1>1
<1>5. mcdAddrs \in Seq(Entries)
  BY Table
<1> HIDE DEF e
<1>6. /\ mcdAddrs' \in Seq(Entries) /\ Len(mcdAddrs') = Len(mcdAddrs)
      /\ \A j \in 1..Len(mcdAddrs) : mcdAddrs'[j] = IF j = k THEN e ELSE mcdAddrs[j]
  BY <1>2, <1>3, <1>4, <1>5, ExceptSeq
<1>7. /\ rx' \in [Receivers -> {"listening", "new"}]
      /\ heard' \in [Discovery!Addrs -> 0..3]
  <2>1. rx \in [Receivers -> {"listening", "new"}] /\ heard \in [Discovery!Addrs -> 0..3]
    BY Table
  <2>2. rx' = rx /\ heard' = [heard EXCEPT ![Zone[r]] = 0]
    BY DEF Discovery!Refresh
  <2> QED
    BY <2>1, <2>2, ZoneIsAddr
<1>8. Discovery!TypeOK'
  BY <1>6, <1>7 DEF Discovery!TypeOK, Discovery!Lifetime, Entries
<1> QED
  BY <1>3, <1>6, <1>8

\* A new entry comes last.
LEMMA Appended ==
    ASSUME Discovery!TypeOK, NEW r \in Receivers, Discovery!Append1(r)
    PROVE  /\ Discovery!TypeOK' /\ Len(mcdAddrs') = Len(mcdAddrs) + 1
           /\ \A j \in 1..Len(mcdAddrs) : mcdAddrs'[j] = mcdAddrs[j]
           /\ mcdAddrs'[Len(mcdAddrs) + 1] = Discovery!Entry(Zone[r], 0)
<1>1. Discovery!Entry(Zone[r], 0) \in Entries /\ mcdAddrs \in Seq(Entries)
  BY Table, ZoneIsAddr DEF Discovery!Entry, Entries
<1>2. mcdAddrs' = Append(mcdAddrs, Discovery!Entry(Zone[r], 0))
  BY DEF Discovery!Append1
<1>3. /\ mcdAddrs' \in Seq(Entries) /\ Len(mcdAddrs') = Len(mcdAddrs) + 1
      /\ \A j \in 1..Len(mcdAddrs) : mcdAddrs'[j] = mcdAddrs[j]
      /\ mcdAddrs'[Len(mcdAddrs) + 1] = Discovery!Entry(Zone[r], 0)
  BY <1>1, <1>2, AppendProperties
<1>4. /\ rx' \in [Receivers -> {"listening", "new"}]
      /\ heard' \in [Discovery!Addrs -> 0..3]
  <2>1. rx \in [Receivers -> {"listening", "new"}] /\ heard \in [Discovery!Addrs -> 0..3]
    BY Table
  <2>2. rx' = [rx EXCEPT ![r] = "listening"] /\ heard' = [heard EXCEPT ![Zone[r]] = 0]
    BY DEF Discovery!Append1
  <2> QED
    BY <2>1, <2>2, ZoneIsAddr
<1> QED
  BY <1>3, <1>4 DEF Discovery!TypeOK, Discovery!Lifetime, Entries

LEMMA TableTyped == Discovery!TypeOK /\ Discovery!Next => Discovery!TypeOK'
<1> SUFFICES ASSUME Discovery!TypeOK, Discovery!Next PROVE Discovery!TypeOK'
  OBVIOUS
<1>1. CASE \E r \in Receivers : Discovery!LookUp(r)
  BY <1>1 DEF Discovery!LookUp, Discovery!TypeOK
<1>2. CASE Discovery!Sweep
  <2>1. mcdAddrs' \in Seq(Entries)
    BY <1>2, Swept
  <2>2. /\ rx' \in [Receivers -> {"listening", "new"}]
        /\ heard' \in [Discovery!Addrs -> 0..3]
    BY <1>2, Table DEF Discovery!Sweep, Discovery!Older, Discovery!Lifetime
  <2> QED
    BY <2>1, <2>2 DEF Discovery!TypeOK, Discovery!Lifetime, Entries
<1> QED
  BY <1>1, <1>2, Refreshed, Appended DEF Discovery!Next

\* An address heard within two rounds stays in the table, with that age.
LEMMA HeardStep ==
    ASSUME Discovery!TypeOK, Discovery!KeptWhileHeard, Discovery!Next
    PROVE  Discovery!KeptWhileHeard'
<1> SUFFICES ASSUME NEW a \in Discovery!Addrs, heard'[a] <= 2
             PROVE  \E k \in Discovery!At(a)' : mcdAddrs'[k].age = heard'[a]
  BY DEF Discovery!KeptWhileHeard, Discovery!Lifetime
<1>1. Discovery!TypeOK'
  BY TableTyped
<1>2. heard[a] <= 2 => \E k \in Discovery!At(a) : mcdAddrs[k].age = heard[a]
  BY DEF Discovery!KeptWhileHeard, Discovery!Lifetime
<1>3. \A k \in 1..Len(mcdAddrs') : mcdAddrs'[k].addr = a => k \in Discovery!At(a)'
  BY <1>1, AtIsSetNext
<1>4. heard \in [Discovery!Addrs -> 0..3]
  BY Table
<1>5. ASSUME NEW r \in Receivers, Discovery!Refresh(r)
      PROVE  \E k \in Discovery!At(a)' : mcdAddrs'[k].age = heard'[a]
  <2>1. PICK k \in Discovery!At(Zone[r]) :
           /\ Len(mcdAddrs') = Len(mcdAddrs)
           /\ \A j \in 1..Len(mcdAddrs) :
                 /\ mcdAddrs'[j].addr = mcdAddrs[j].addr
                 /\ mcdAddrs'[j].age = IF j = k THEN 0 ELSE mcdAddrs[j].age
    BY <1>5, Refreshed
  <2>2. heard' = [heard EXCEPT ![Zone[r]] = 0]
    BY <1>5 DEF Discovery!Refresh
  <2>3. k \in 1..Len(mcdAddrs) /\ mcdAddrs[k].addr = Zone[r]
    BY AtIsSet
  <2>4. CASE a = Zone[r]
    BY <1>3, <1>4, <2>1, <2>2, <2>3, <2>4
  <2>5. CASE a # Zone[r]
    <3>1. PICK j \in Discovery!At(a) : mcdAddrs[j].age = heard[a]
      BY <1>2, <1>4, <2>2, <2>5
    <3>2. j \in 1..Len(mcdAddrs) /\ mcdAddrs[j].addr = a
      BY AtIsSet
    <3> QED
      BY <1>3, <1>4, <2>1, <2>2, <2>3, <2>5, <3>1, <3>2
  <2> QED
    BY <2>4, <2>5
<1>6. ASSUME NEW r \in Receivers, Discovery!Append1(r)
      PROVE  \E k \in Discovery!At(a)' : mcdAddrs'[k].age = heard'[a]
  <2>1. /\ Len(mcdAddrs') = Len(mcdAddrs) + 1
        /\ \A j \in 1..Len(mcdAddrs) : mcdAddrs'[j] = mcdAddrs[j]
        /\ mcdAddrs'[Len(mcdAddrs) + 1] = Discovery!Entry(Zone[r], 0)
    BY <1>6, Appended
  <2>3. /\ mcdAddrs'[Len(mcdAddrs) + 1].addr = Zone[r]
        /\ mcdAddrs'[Len(mcdAddrs) + 1].age = 0
    BY <2>1 DEF Discovery!Entry
  <2>2. heard' = [heard EXCEPT ![Zone[r]] = 0] /\ Len(mcdAddrs) \in Nat
    BY <1>6, AtIsSet DEF Discovery!Append1
  <2>4. CASE a = Zone[r]
    BY <1>3, <1>4, <2>1, <2>2, <2>3, <2>4
  <2>5. CASE a # Zone[r]
    <3>1. PICK j \in Discovery!At(a) : mcdAddrs[j].age = heard[a]
      BY <1>2, <1>4, <2>2, <2>5
    <3>2. j \in 1..Len(mcdAddrs) /\ mcdAddrs[j].addr = a
      BY AtIsSet
    <3> QED
      BY <1>3, <1>4, <2>1, <2>2, <2>5, <3>1, <3>2
  <2> QED
    BY <2>4, <2>5
<1>7. CASE Discovery!Sweep
  <2>1. heard[a] \in 0..1 /\ heard'[a] = heard[a] + 1
    BY <1>4, <1>7 DEF Discovery!Sweep, Discovery!Older, Discovery!Lifetime
  <2>2. PICK k \in Discovery!At(a) : mcdAddrs[k].age = heard[a]
    BY <1>2, <2>1
  <2>3. k \in Discovery!Alive /\ mcdAddrs[k].addr = a
    BY <2>1, <2>2 DEF Discovery!Alive, Discovery!At, Discovery!Lifetime
  <2>4. PICK i \in 1..Len(mcdAddrs') :
           mcdAddrs'[i].addr = mcdAddrs[k].addr /\ mcdAddrs'[i].age = mcdAddrs[k].age + 1
    <3>1. PICK n \in Nat : \E pos \in [1..n -> Discovery!Alive] :
             /\ \A j \in Discovery!Alive : \E i \in 1..n : pos[i] = j
             /\ Len(mcdAddrs') = n
             /\ \A i \in 1..n : /\ mcdAddrs'[i].addr = mcdAddrs[pos[i]].addr
                                /\ mcdAddrs'[i].age = mcdAddrs[pos[i]].age + 1
      BY <1>7, Swept
    <3>2. PICK pos \in [1..n -> Discovery!Alive] :
             /\ \A j \in Discovery!Alive : \E i \in 1..n : pos[i] = j
             /\ Len(mcdAddrs') = n
             /\ \A i \in 1..n : /\ mcdAddrs'[i].addr = mcdAddrs[pos[i]].addr
                                /\ mcdAddrs'[i].age = mcdAddrs[pos[i]].age + 1
      BY <3>1
    <3>3. PICK i \in 1..n : pos[i] = k
      BY <2>3, <3>2
    <3> QED
      BY <3>2, <3>3
  <2> QED
    BY <1>3, <2>1, <2>2, <2>3, <2>4
<1>8. CASE \E r \in Receivers : Discovery!LookUp(r)
  BY <1>2, <1>8 DEF Discovery!LookUp, Discovery!At
<1> QED
  BY <1>5, <1>6, <1>7, <1>8 DEF Discovery!Next

\* The receivers of an address, and those about to enter it.
Hearing(a)  == {r \in Receivers : Zone[r] = a}
Entering(a) == {r \in Receivers : Zone[r] = a /\ rx[r] = "new"}

LEMMA Few ==
    Discovery!FewEntries <=>
        \A a \in Discovery!Addrs :
            Cardinality(Discovery!At(a)) + Cardinality(Entering(a)) <= Cardinality(Hearing(a))
BY SameCardinality DEF Discovery!FewEntries, Hearing, Entering

LEMMA FewNext ==
    Discovery!FewEntries' <=>
        \A a \in Discovery!Addrs :
            Cardinality(Discovery!At(a)') + Cardinality(Entering(a)') <= Cardinality(Hearing(a))
BY SameCardinality DEF Discovery!FewEntries, Hearing, Entering

LEMMA Counts ==
    ASSUME NEW a
    PROVE  /\ Cardinality(Hearing(a)) \in Nat
           /\ IsFiniteSet(Entering(a)) /\ Cardinality(Entering(a)) \in Nat
           /\ IsFiniteSet(Entering(a)') /\ Cardinality(Entering(a)') \in Nat
           /\ Cardinality(Entering(a)') <= Cardinality(Hearing(a))
<1>1. IsFiniteSet(Hearing(a)) /\ Cardinality(Hearing(a)) \in Nat
  <2>1. Hearing(a) \subseteq Receivers
    BY DEF Hearing
  <2> QED
    BY <2>1, ReceiversAreFinite, FS_Subset, FS_CardinalityType
<1>2. Entering(a) \subseteq Hearing(a) /\ Entering(a)' \subseteq Hearing(a)
  BY DEF Hearing, Entering
<1>3. IsFiniteSet(Entering(a)) /\ Cardinality(Entering(a)) \in Nat
  BY <1>1, <1>2, FS_Subset, FS_CardinalityType
<1>4. /\ IsFiniteSet(Entering(a)') /\ Cardinality(Entering(a)') \in Nat
      /\ Cardinality(Entering(a)') <= Cardinality(Hearing(a))
  BY <1>1, <1>2, FS_Subset, FS_CardinalityType
<1> QED
  BY <1>1, <1>3, <1>4

\* A receiver enters an address it did not find: an address is in the table
\* at most as often as receivers hear it.
LEMMA FewStep ==
    ASSUME Discovery!TypeOK, Discovery!FewEntries, Discovery!Next
    PROVE  Discovery!FewEntries'
<1> SUFFICES ASSUME NEW a \in Discovery!Addrs
             PROVE  Cardinality(Discovery!At(a)') + Cardinality(Entering(a)')
                        <= Cardinality(Hearing(a))
  BY FewNext
<1>1. Discovery!TypeOK'
  BY TableTyped
<1>2. Cardinality(Discovery!At(a)) + Cardinality(Entering(a)) <= Cardinality(Hearing(a))
  BY Few
<1>3. /\ IsFiniteSet(Discovery!At(a)) /\ Cardinality(Discovery!At(a)) \in Nat
      /\ IsFiniteSet(Discovery!At(a)') /\ Cardinality(Discovery!At(a)') \in Nat
  BY <1>1, AtIsSet, AtIsSetNext
<1>4. rx \in [Receivers -> {"listening", "new"}]
  BY Table
<1>5. ASSUME NEW r \in Receivers, Discovery!Refresh(r)
      PROVE  Discovery!At(a)' = Discovery!At(a) /\ Entering(a)' = Entering(a)
  <2>1. Entering(a)' = Entering(a)
    BY <1>5 DEF Entering, Discovery!Refresh
  <2>2. /\ Discovery!At(a) = {k \in 1..Len(mcdAddrs) : mcdAddrs[k].addr = a}
        /\ Discovery!At(a)' = {k \in 1..Len(mcdAddrs') : mcdAddrs'[k].addr = a}
    BY <1>1, AtIsSet, AtIsSetNext
  <2>3. /\ Len(mcdAddrs') = Len(mcdAddrs)
        /\ \A j \in 1..Len(mcdAddrs) : mcdAddrs'[j].addr = mcdAddrs[j].addr
    BY <1>5, Refreshed
  <2> QED
    BY <2>1, <2>2, <2>3
<1>6. ASSUME NEW r \in Receivers, Discovery!Append1(r)
      PROVE  Cardinality(Discovery!At(a)') + Cardinality(Entering(a)')
                 <= Cardinality(Discovery!At(a)) + Cardinality(Entering(a))
  <2>1. /\ Discovery!At(a) = {k \in 1..Len(mcdAddrs) : mcdAddrs[k].addr = a}
        /\ Discovery!At(a)' = {k \in 1..Len(mcdAddrs') : mcdAddrs'[k].addr = a}
        /\ Len(mcdAddrs) \in Nat
    BY <1>1, AtIsSet, AtIsSetNext
  <2>2. /\ Len(mcdAddrs') = Len(mcdAddrs) + 1
        /\ \A j \in 1..Len(mcdAddrs) : mcdAddrs'[j] = mcdAddrs[j]
        /\ mcdAddrs'[Len(mcdAddrs) + 1] = Discovery!Entry(Zone[r], 0)
    BY <1>6, Appended
  <2>3. mcdAddrs'[Len(mcdAddrs) + 1].addr = Zone[r]
    BY <2>2 DEF Discovery!Entry
  <2>4. rx[r] = "new" /\ rx' = [rx EXCEPT ![r] = "listening"]
    BY <1>6 DEF Discovery!Append1
  <2>5. CASE Zone[r] = a
    <3>1. Discovery!At(a)' = Discovery!At(a) \cup {Len(mcdAddrs) + 1}
      BY <2>1, <2>2, <2>3, <2>5
    <3>2. Entering(a)' = Entering(a) \ {r} /\ r \in Entering(a)
      BY <1>4, <2>4, <2>5 DEF Entering
    <3>3. Cardinality(Discovery!At(a)') <= Cardinality(Discovery!At(a)) + 1
      BY <1>3, <3>1, FS_AddElement
    <3>4. Cardinality(Entering(a)') = Cardinality(Entering(a)) - 1
      BY <3>2, Counts, FS_RemoveElement
    <3> QED
      BY <1>3, <3>3, <3>4, Counts
  <2>6. CASE Zone[r] # a
    <3>1. Discovery!At(a)' = Discovery!At(a)
      BY <2>1, <2>2, <2>3, <2>6
    <3>2. Entering(a)' = Entering(a)
      BY <1>4, <2>4, <2>6 DEF Entering
    <3> QED
      BY <1>3, <3>1, <3>2, Counts
  <2> QED
    BY <2>5, <2>6
<1>7. ASSUME NEW r \in Receivers, Discovery!LookUp(r)
      PROVE  Cardinality(Discovery!At(a)') + Cardinality(Entering(a)') <= Cardinality(Hearing(a))
  <2>1. mcdAddrs' = mcdAddrs /\ Discovery!At(Zone[r]) = {} /\ rx' = [rx EXCEPT ![r] = "new"]
    BY <1>7 DEF Discovery!LookUp
  <2>2. Discovery!At(a)' = Discovery!At(a)
    BY <2>1 DEF Discovery!At
  <2>3. CASE Zone[r] = a
    <3>1. Cardinality(Discovery!At(a)') = 0
      BY <2>1, <2>2, <2>3, FS_EmptySet
    <3> QED
      BY <3>1, Counts
  <2>4. CASE Zone[r] # a
    <3>1. Entering(a)' = Entering(a)
      BY <1>4, <2>1, <2>4 DEF Entering
    <3> QED
      BY <1>2, <2>2, <3>1
  <2> QED
    BY <2>3, <2>4
<1>8. CASE Discovery!Sweep
  <2>1. Entering(a)' = Entering(a)
    BY <1>8 DEF Entering, Discovery!Sweep
  <2>2. PICK n \in Nat : \E pos \in [1..n -> Discovery!Alive] :
           /\ \A i, j \in 1..n : pos[i] = pos[j] => i = j
           /\ \A k \in Discovery!Alive : \E i \in 1..n : pos[i] = k
           /\ mcdAddrs' \in Seq(Entries) /\ Len(mcdAddrs') = n
           /\ \A i \in 1..n : /\ mcdAddrs'[i].addr = mcdAddrs[pos[i]].addr
                              /\ mcdAddrs'[i].age = mcdAddrs[pos[i]].age + 1
    BY <1>8, Swept
  <2>3. PICK pos \in [1..n -> Discovery!Alive] :
              /\ \A i, j \in 1..n : pos[i] = pos[j] => i = j
              /\ Len(mcdAddrs') = n
              /\ \A i \in 1..n : mcdAddrs'[i].addr = mcdAddrs[pos[i]].addr
    BY <2>2
  <2> DEFINE f == [i \in Discovery!At(a)' |-> pos[i]]
  <2>4. Discovery!At(a)' = {k \in 1..n : mcdAddrs'[k].addr = a}
    BY <1>1, <2>3, AtIsSetNext
  <2>5. \A i \in Discovery!At(a)' : pos[i] \in Discovery!At(a)
    <3>1. \A k \in Discovery!Alive : k \in DOMAIN mcdAddrs
      BY DEF Discovery!Alive
    <3> QED
      BY <2>3, <2>4, <3>1 DEF Discovery!At
  <2>6. f \in [Discovery!At(a)' -> Discovery!At(a)]
    BY <2>5
  <2>7. \A i, j \in Discovery!At(a)' : f[i] = f[j] => i = j
    BY <2>3, <2>4
  <2>8. f \in Injection(Discovery!At(a)', Discovery!At(a))
    BY <2>6, <2>7, Fun_IsInj
  <2>9. Cardinality(Discovery!At(a)') <= Cardinality(Discovery!At(a))
    BY ONLY <1>3, <2>8, FS_Injection
  <2> QED
    BY <1>2, <1>3, <2>1, <2>9, Counts
<1> QED
  BY <1>2, <1>3, <1>5, <1>6, <1>7, <1>8, Counts DEF Discovery!Next

LEMMA InitTable == Discovery!Init => Discovery!TableOK
<1> SUFFICES ASSUME Discovery!Init PROVE Discovery!TableOK
  OBVIOUS
<1>1. mcdAddrs = <<>> /\ \A a : Discovery!At(a) = {}
  BY DEF Discovery!Init, Discovery!At
<1>2. Discovery!TypeOK
  BY <1>1, EmptySeq DEF Discovery!Init, Discovery!TypeOK, Discovery!Lifetime
<1>3. Discovery!KeptWhileHeard
  BY DEF Discovery!Init, Discovery!KeptWhileHeard, Discovery!Lifetime
<1>4. Discovery!FewEntries
  <2>1. \A a : Entering(a) = {}
    BY DEF Discovery!Init, Entering
  <2> SUFFICES ASSUME NEW a \in Discovery!Addrs
               PROVE  Cardinality(Discovery!At(a)) + Cardinality(Entering(a))
                          <= Cardinality(Hearing(a))
    BY Few
  <2>2. Cardinality(Discovery!At(a)) = 0 /\ Cardinality(Entering(a)) = 0
    BY <1>1, <2>1, FS_EmptySet
  <2> QED
    BY <2>2, Counts
<1> QED
  BY <1>2, <1>3, <1>4 DEF Discovery!TableOK

LEMMA TableStep == Discovery!TableOK /\ [Discovery!Next]_discovery => Discovery!TableOK'
<1> SUFFICES ASSUME Discovery!TableOK, [Discovery!Next]_discovery PROVE Discovery!TableOK'
  OBVIOUS
<1>1. CASE Discovery!Next
  BY <1>1, TableTyped, HeardStep, FewStep DEF Discovery!TableOK
<1>2. CASE UNCHANGED discovery
  <2>1. \A a : Discovery!At(a)' = Discovery!At(a)
    BY <1>2 DEF discovery, Discovery!At
  <2>2. Discovery!TypeOK'
    BY <1>2 DEF discovery, Discovery!TableOK, Discovery!TypeOK
  <2>3. Discovery!KeptWhileHeard'
    BY <1>2, <2>1 DEF discovery, Discovery!TableOK, Discovery!KeptWhileHeard
  <2>4. Discovery!FewEntries'
    <3>1. \A a : Entering(a)' = Entering(a)
      BY <1>2 DEF discovery, Entering
    <3> QED
      BY <2>1, <3>1, Few, FewNext DEF Discovery!TableOK
  <2> QED
    BY <2>2, <2>3, <2>4 DEF Discovery!TableOK
<1> QED
  BY <1>1, <1>2

-----------------------------------------------------------------------------
(* Types *)

LEMMA InitTyped == Init => TypeOK
<1> SUFFICES ASSUME Init PROVE TypeOK
  OBVIOUS
<1>1. 0 \in 0..MaxRms /\ 0 \in 0..MaxKills
  BY CountsAreNat
<1>2. removed \in [Dirs -> 0..MaxRms] /\ kills \in 0..MaxKills
  BY <1>1 DEF Init
<1>3. flocks \subseteq Flocks /\ busy \in BOOLEAN
  BY DEF Init
<1>4. left \in [Sessions -> Nat]
  BY DEF Init
<1> QED
  BY <1>2, <1>3, <1>4 DEF Init, TypeOK

LEMMA CallTyped ==
    ASSUME TypeOK, Discovery!TypeOK, NEW c \in Callers, Wake(c) \/ Calling(c)
    PROVE  TypeOK'
<1>0. c \in Sessions
  BY DEF Sessions
<1>1. CASE Wake(c)
  BY <1>0, <1>1 DEF Wake, Goto, env, TypeOK
<1>2. CASE NoTx(c)
  BY <1>0, <1>2 DEF NoTx, Goto, env, TypeOK
<1>3. CASE Begin(c)
  <2>1. Len(mcdAddrs) \in Nat
    BY Table, LenProperties
  <2>2. Len(mcdAddrs) + Cfg \in Nat
    BY <2>1, CountsAreNat
  <2> QED
    BY <1>0, <1>3, <2>2 DEF Begin, Goto, env, TypeOK
<1>4. CASE Dial(c) \/ DialFails(c) \/ NoneLeft(c)
  BY <1>0, <1>4 DEF Dial, DialFails, NoneLeft, Goto, env, TypeOK
<1> QED
  BY <1>1, <1>2, <1>3, <1>4 DEF Calling

LEMMA SessionTyped ==
    ASSUME TypeOK, NEW s \in Sessions,
           Starting(s) \/ Hangup(s) \/ Toss(s) \/ Tossed(s) \/ Close(s)
    PROVE  TypeOK'
<1>1. ASSUME NEW d \in Dirs, Lock(s, d) PROVE TypeOK'
  <2>1. [dir |-> d, file |-> removed[d], by |-> s, lost |-> FALSE] \in Flocks
    BY DEF TypeOK, Flocks
  <2> QED
    BY <1>1, <2>1 DEF Lock, AfterLock, Goto, env, TypeOK
<1>2. ASSUME NEW d \in Dirs, LockFails(s, d) PROVE TypeOK'
  <2>1. \A f \in flocks : [f EXCEPT !.lost = TRUE] \in Flocks
    BY DEF TypeOK, Flocks
  <2>2. flocks' \subseteq Flocks
    BY <1>2, <2>1 DEF LockFails, Of, TypeOK
  <2> QED
    BY <1>2, <2>2 DEF LockFails, StartFailed, Goto, env, TypeOK
<1>3. CASE ShakeFails(s)
  BY <1>3 DEF ShakeFails, StartFailed, Goto, env, TypeOK
<1>4. CASE Shake(s) \/ Toss(s) \/ Tossed(s)
  BY <1>4 DEF Shake, Toss, Tossed, Goto, env, TypeOK
<1>5. CASE Hangup(s)
  BY <1>5 DEF Hangup, Goto, env, TypeOK
<1>6. CASE Close(s)
  BY <1>6 DEF Close, Goto, env, TypeOK
<1> QED
  BY <1>1, <1>2, <1>3, <1>4, <1>5, <1>6 DEF Starting

LEMMA TypeStep == TypeOK /\ Discovery!TypeOK /\ [Next]_vars => TypeOK'
<1> SUFFICES ASSUME TypeOK, Discovery!TypeOK, [Next]_vars PROVE TypeOK'
  OBVIOUS
<1>1. ASSUME NEW d \in Conns, Accept(d) PROVE TypeOK'
  BY <1>1 DEF Accept, Goto, env, TypeOK
<1>2. ASSUME NEW d \in Dirs, RmLock(d) PROVE TypeOK'
  BY <1>2, CountsAreNat DEF RmLock, TypeOK, Dirs
<1>3. ASSUME NEW P \in {"caller", "daemon"}, Kill(P) PROVE TypeOK'
  BY <1>3, CountsAreNat DEF Kill, TypeOK
<1>4. CASE Collect
  BY <1>4 DEF Collect, env, TypeOK
<1>5. CASE UNCHANGED <<pc, left, toss, busy, removed, flocks, kills>>
  BY <1>5 DEF TypeOK
<1> QED
  BY <1>1, <1>2, <1>3, <1>4, <1>5, CallTyped, SessionTyped DEF Next, vars

-----------------------------------------------------------------------------
(* Locks *)

Held(s, d) == \E f \in flocks : f.dir = d /\ f.by = s /\ ~f.lost
Locked(s, d) == pc[s] \in {"shake", "online"} \/ (d = "rx" /\ pc[s] = "locktx")

\* A session that got past a lock has it; nobody else has one on that file,
\* of which there are no more than removals, and the present one.
Locking ==
    /\ \A f \in flocks : f.file \in 0..removed[f.dir]
    /\ \A f, g \in flocks : f.dir = g.dir /\ f.file = g.file => f = g
    /\ \A s \in Sessions : \A d \in Locks[s] : Locked(s, d) => Held(s, d)

\* Any number of sessions share a directory only by locks on different files.
LEMMA LockingExcludes == TypeOK /\ Locking => Exclusive
<1> SUFFICES ASSUME TypeOK, Locking, NEW d \in Dirs
             PROVE  Cardinality({s \in Sessions : pc[s] = "online" /\ d \in Locks[s]})
                        <= removed[d] + 1
  BY DEF Exclusive
<1> DEFINE S == {s \in Sessions : pc[s] = "online" /\ d \in Locks[s]}
           lock(s) == CHOOSE f \in flocks : f.dir = d /\ f.by = s /\ ~f.lost
           file == [s \in S |-> lock(s).file]
<1>1. removed[d] \in Nat
  BY DEF TypeOK
<1>2. \A s \in S : lock(s) \in flocks /\ lock(s).dir = d /\ lock(s).by = s
  BY DEF Locking, Locked, Held
<1> HIDE DEF lock
<1>3. file \in [S -> 0..removed[d]]
  BY <1>2 DEF Locking
<1>4. \A s, t \in S : file[s] = file[t] => s = t
  BY <1>2 DEF Locking
<1>5. file \in Injection(S, 0..removed[d])
  BY <1>3, <1>4, Fun_IsInj
<1>6. IsFiniteSet(0..removed[d]) /\ Cardinality(0..removed[d]) = removed[d] + 1
  BY <1>1, FS_Interval
<1> HIDE DEF S, file
<1>7. Cardinality(S) <= Cardinality(0..removed[d])
  BY <1>5, <1>6, FS_Injection
<1> QED
  BY <1>6, <1>7 DEF S

LEMMA InitLocking == Init => Locking
BY DEF Init, Locking, Locked

\* What touches no lock and gets nobody past one.
LEMMA LockingKept ==
    ASSUME Locking, UNCHANGED <<flocks, removed>>,
           \A s \in Sessions : \A d \in Locks[s] : Locked(s, d)' => Locked(s, d)
    PROVE  Locking'
BY DEF Locking, Held

LEMMA CallLocking ==
    ASSUME TypeOK, Locking, NEW c \in Callers, Wake(c) \/ Calling(c)
    PROVE  Locking'
<1>1. UNCHANGED <<flocks, removed>>
  BY DEF Calling, Wake, NoTx, Begin, Dial, DialFails, NoneLeft, env
<1>2. ASSUME NEW s \in Sessions, NEW d \in Locks[s], Locked(s, d)' PROVE Locked(s, d)
  BY <1>2 DEF Calling, Wake, NoTx, Begin, Dial, DialFails, NoneLeft, Goto, Locked, TypeOK
<1> QED
  BY <1>1, <1>2, LockingKept

LEMMA LockStep ==
    ASSUME TypeOK, Locking, NEW s \in Sessions, NEW d \in Dirs, Lock(s, d)
    PROVE  Locking'
<1> DEFINE new == [dir |-> d, file |-> removed[d], by |-> s, lost |-> FALSE]
<1>1. /\ flocks' = IF d \in Locks[s] THEN flocks \cup {new} ELSE flocks
      /\ removed' = removed /\ removed[d] \in Nat
      /\ pc' = [pc EXCEPT ![s] = IF d = "rx" THEN "locktx" ELSE "shake"]
      /\ pc[s] = IF d = "rx" THEN "lockrx" ELSE "locktx"
  BY DEF Lock, AfterLock, Goto, env, TypeOK
<1>2. d \in Locks[s] => \A f \in flocks : ~(f.dir = d /\ f.file = removed[d])
  BY DEF Lock, Taken
<1>3. new.dir = d /\ new.file = removed[d] /\ new.by = s /\ ~new.lost
  OBVIOUS
<1> HIDE DEF new
<1>4. \A f \in flocks' : f.file \in 0..removed'[f.dir]
  BY <1>1, <1>3 DEF Locking
<1>5. \A f, g \in flocks' : f.dir = g.dir /\ f.file = g.file => f = g
  BY <1>1, <1>2, <1>3 DEF Locking
<1>6. ASSUME NEW t \in Sessions, NEW e \in Locks[t], Locked(t, e)' PROVE Held(t, e)'
  <2>1. CASE t = s /\ e = d
    BY <1>1, <1>3, <2>1 DEF Held
  <2>2. CASE ~(t = s /\ e = d)
    <3>1. Locked(t, e)
      BY <1>1, <1>6, <2>2, LocksAreDirs DEF Locked, TypeOK, Dirs
    <3>2. Held(t, e)
      BY <3>1 DEF Locking
    <3> QED
      BY <1>1, <3>2 DEF Held
  <2> QED
    BY <2>1, <2>2
<1> QED
  BY <1>4, <1>5, <1>6 DEF Locking

\* Locks that are given up, or lost, are those of s.
LEMMA UnlockStep ==
    ASSUME TypeOK, Locking, NEW s \in Sessions,
           \/ \E d \in Dirs : LockFails(s, d)
           \/ ShakeFails(s) \/ Hangup(s)
    PROVE  Locking'
<1>1. /\ removed' = removed
      /\ \/ flocks' = flocks \ Of(s)
         \/ flocks' = (flocks \ Of(s)) \cup {[f EXCEPT !.lost = TRUE] : f \in Of(s)}
  BY DEF LockFails, ShakeFails, Hangup, env
<1>2. \A t \in Sessions : \A e : Locked(t, e)' => t # s /\ Locked(t, e)
  BY DEF LockFails, ShakeFails, Hangup, StartFailed, Goto, Locked, TypeOK
<1>3. \A f \in Of(s) : LET g == [f EXCEPT !.lost = TRUE] IN
         f \in flocks /\ g.dir = f.dir /\ g.file = f.file /\ g.by = f.by
  BY DEF Of, TypeOK, Flocks
<1>0. ASSUME NEW f \in flocks'
      PROVE  \E h \in flocks :
                /\ h.dir = f.dir /\ h.file = f.file
                /\ f = IF h \in Of(s) THEN [h EXCEPT !.lost = TRUE] ELSE h
  <2>1. CASE f \in flocks \ Of(s)
    BY <2>1
  <2>2. CASE \E h \in Of(s) : f = [h EXCEPT !.lost = TRUE]
    BY <1>3, <2>2
  <2> QED
    BY <1>0, <1>1, <2>1, <2>2
<1>4. \A f \in flocks' : f.file \in 0..removed'[f.dir]
  BY <1>0, <1>1 DEF Locking
<1>5. \A f, g \in flocks' : f.dir = g.dir /\ f.file = g.file => f = g
  <2> SUFFICES ASSUME NEW f \in flocks', NEW g \in flocks', f.dir = g.dir, f.file = g.file
               PROVE  f = g
    OBVIOUS
  <2>1. PICK h \in flocks : /\ h.dir = f.dir /\ h.file = f.file
                            /\ f = IF h \in Of(s) THEN [h EXCEPT !.lost = TRUE] ELSE h
    BY <1>0
  <2>2. PICK k \in flocks : /\ k.dir = g.dir /\ k.file = g.file
                            /\ g = IF k \in Of(s) THEN [k EXCEPT !.lost = TRUE] ELSE k
    BY <1>0
  <2>3. h = k
    BY <2>1, <2>2 DEF Locking
  <2> QED
    BY <2>1, <2>2, <2>3
<1>6. \A t \in Sessions, e \in Dirs : t # s /\ Held(t, e) => Held(t, e)'
  BY <1>1 DEF Held, Of
<1> QED
  BY <1>2, <1>4, <1>5, <1>6, LocksAreDirs DEF Locking

LEMMA LockingStep == TypeOK /\ Locking /\ [Next]_vars => Locking'
<1> SUFFICES ASSUME TypeOK, Locking, [Next]_vars PROVE Locking'
  OBVIOUS
<1>1. ASSUME NEW d \in Conns, Accept(d) PROVE Locking'
  <2>1. UNCHANGED <<flocks, removed>>
    BY <1>1 DEF Accept, env
  <2>2. ASSUME NEW s \in Sessions, NEW e \in Locks[s], Locked(s, e)' PROVE Locked(s, e)
    BY <1>1, <2>2 DEF Accept, Goto, Locked, TypeOK
  <2> QED
    BY <2>1, <2>2, LockingKept
<1>2. ASSUME NEW s \in Sessions, Shake(s) \/ Toss(s) \/ Tossed(s) \/ Close(s) PROVE Locking'
  <2>1. UNCHANGED <<flocks, removed>>
    BY <1>2 DEF Shake, Toss, Tossed, Close, env
  <2>2. ASSUME NEW t \in Sessions, NEW e \in Locks[t], Locked(t, e)' PROVE Locked(t, e)
    BY <1>2, <2>2 DEF Shake, Toss, Tossed, Close, Goto, Locked, TypeOK
  <2> QED
    BY <2>1, <2>2, LockingKept
<1>3. ASSUME NEW d \in Dirs, RmLock(d) PROVE Locking'
  <2>1. /\ pc' = pc /\ flocks' = flocks
        /\ \A e \in Dirs : removed[e] \in Nat /\ removed'[e] \in Nat /\ removed[e] <= removed'[e]
    BY <1>3 DEF RmLock, TypeOK
  <2>2. \A f \in flocks : f.dir \in Dirs
    BY DEF TypeOK, Flocks
  <2> QED
    BY <2>1, <2>2 DEF Locking, Locked, Held
<1>4. ASSUME NEW P \in {"caller", "daemon"}, Kill(P) PROVE Locking'
  <2>1. /\ removed' = removed /\ flocks' = {f \in flocks : Proc(f.by) # P}
        /\ pc' = [s \in Sessions |-> IF Proc(s) = P THEN "idle" ELSE pc[s]]
    BY <1>4 DEF Kill
  <2>2. ASSUME NEW s \in Sessions, NEW d \in Locks[s], Locked(s, d)' PROVE Held(s, d)'
    <3>1. Proc(s) # P /\ Locked(s, d)
      BY <2>1, <2>2 DEF Locked
    <3> QED
      BY <2>1, <3>1 DEF Locking, Held
  <2> QED
    BY <2>1, <2>2 DEF Locking
<1>5. CASE Collect
  <2>1. PICK f \in flocks : f.lost /\ flocks' = flocks \ {f}
    BY <1>5 DEF Collect
  <2>2. pc' = pc /\ removed' = removed
    BY <1>5 DEF Collect, env
  <2> QED
    BY <2>1, <2>2 DEF Locking, Locked, Held
<1>6. CASE UNCHANGED <<pc, left, toss, busy, removed, flocks, kills>>
  BY <1>6 DEF Locking, Locked, Held
<1> QED
  BY <1>1, <1>2, <1>3, <1>4, <1>5, <1>6, CallLocking, LockStep, UnlockStep
     DEF Next, Starting, vars

-----------------------------------------------------------------------------
(* Busy, and the tossers *)

\* At most one goroutine of nncp-caller is awake, and then Busy is set.
OneAwake ==
    /\ \A c, d \in Callers : pc[c] # "idle" /\ pc[d] # "idle" => c = d
    /\ busy <=> \E c \in Callers : pc[c] # "idle"

\* A tosser is there only once its goroutine has begun.
TossedLater == \A s \in Sessions : toss[s] # "off" => pc[s] \notin {"idle", "woken"}

Beside == OneAwake /\ TossedLater

LEMMA InitBeside == Init => Beside
BY DEF Init, Beside, OneAwake, TossedLater, Sessions

\* Neither is disturbed while every goroutine stays where it is, or awake.
LEMMA AwakeKept ==
    ASSUME OneAwake, busy' = busy,
           \A c \in Callers : pc'[c] = "idle" <=> pc[c] = "idle"
    PROVE  OneAwake'
BY DEF OneAwake

LEMMA AwakeStep ==
    ASSUME TypeOK, OneAwake, [Next]_vars
    PROVE  OneAwake'
<1>0. Callers \subseteq Sessions /\ \A d \in Conns : d \notin Callers
  BY TwoPrograms DEF Sessions
<1>1. ASSUME NEW c \in Callers, Wake(c) PROVE OneAwake'
  <2>1. ~busy /\ busy' = TRUE /\ pc' = [pc EXCEPT ![c] = "woken"]
    BY <1>1 DEF Wake, Goto
  <2> QED
    BY <1>0, <2>1 DEF OneAwake, TypeOK
<1>2. ASSUME NEW c \in Callers, NoTx(c) PROVE OneAwake'
  <2>1. pc[c] = "woken" /\ busy' = FALSE /\ pc' = [pc EXCEPT ![c] = "idle"]
    BY <1>2 DEF NoTx, Goto
  <2> QED
    BY <1>0, <2>1 DEF OneAwake, TypeOK
<1>3. ASSUME NEW c \in Callers, Begin(c) \/ Dial(c) \/ DialFails(c) \/ NoneLeft(c)
      PROVE  OneAwake'
  <2>1. busy' = busy
    BY <1>3 DEF Begin, Dial, DialFails, NoneLeft, env
  <2>2. \A d \in Callers : pc'[d] = "idle" <=> pc[d] = "idle"
    BY <1>0, <1>3 DEF Begin, Dial, DialFails, NoneLeft, Goto, TypeOK
  <2> QED
    BY <2>1, <2>2, AwakeKept
<1>4. ASSUME NEW d \in Conns, Accept(d) PROVE OneAwake'
  <2>1. busy' = busy /\ \A c \in Callers : pc'[c] = pc[c]
    BY <1>0, <1>4 DEF Accept, Goto, env, TypeOK
  <2> QED
    BY <2>1, AwakeKept
<1>5. ASSUME NEW s \in Sessions, Starting(s) \/ Hangup(s) \/ Toss(s) \/ Tossed(s)
      PROVE  OneAwake'
  <2>1. busy' = busy
    BY <1>5 DEF Starting, Lock, LockFails, Shake, ShakeFails, Hangup, Toss, Tossed, env
  <2>2. \A d \in Callers : pc'[d] = "idle" <=> pc[d] = "idle"
    <3>1. ASSUME NEW e \in Dirs, Lock(s, e) \/ LockFails(s, e)
          PROVE  \A d \in Callers : pc'[d] = "idle" <=> pc[d] = "idle"
      BY <1>0, <3>1 DEF Lock, LockFails, AfterLock, StartFailed, Goto, TypeOK
    <3>2. CASE Shake(s) \/ ShakeFails(s) \/ Hangup(s) \/ Toss(s) \/ Tossed(s)
      BY <1>0, <3>2 DEF Shake, ShakeFails, StartFailed, Hangup, Toss, Tossed, Goto, TypeOK
    <3> QED
      BY <1>5, <3>1, <3>2 DEF Starting
  <2> QED
    BY <2>1, <2>2, AwakeKept
<1>6. ASSUME NEW s \in Sessions, Close(s) PROVE OneAwake'
  <2>1. pc[s] = "closing" /\ pc' = [pc EXCEPT ![s] = "idle"]
        /\ busy' = (busy /\ s \notin Callers)
    BY <1>6 DEF Close, Goto
  <2> QED
    BY <1>0, <2>1 DEF OneAwake, TypeOK
<1>7. ASSUME NEW P \in {"caller", "daemon"}, Kill(P) PROVE OneAwake'
  <2>1. /\ pc' = [s \in Sessions |-> IF Proc(s) = P THEN "idle" ELSE pc[s]]
        /\ busy' = (busy /\ P # "caller")
    BY <1>7 DEF Kill
  <2>2. \A c \in Callers : Proc(c) = "caller"
    BY DEF Proc
  <2> QED
    BY <1>0, <2>1, <2>2 DEF OneAwake, TypeOK
<1>8. ASSUME Collect \/ \E d \in Dirs : RmLock(d) PROVE OneAwake'
  BY <1>8 DEF Collect, RmLock, env, OneAwake
<1>9. CASE UNCHANGED <<pc, left, toss, busy, removed, flocks, kills>>
  BY <1>9 DEF OneAwake
<1> QED
  BY <1>1, <1>2, <1>3, <1>4, <1>5, <1>6, <1>7, <1>8, <1>9 DEF Next, Calling, vars

LEMMA TossStep ==
    ASSUME TypeOK, TossedLater, [Next]_vars
    PROVE  TossedLater'
<1>0. Callers \subseteq Sessions /\ Conns \subseteq Sessions
  BY DEF Sessions
<1>1. ASSUME NEW c \in Callers, Wake(c) \/ NoTx(c) PROVE TossedLater'
  BY <1>0, <1>1 DEF Wake, NoTx, Goto, TossedLater, TypeOK
<1>2. ASSUME NEW c \in Callers, Begin(c) \/ Dial(c) \/ DialFails(c) \/ NoneLeft(c)
      PROVE  TossedLater'
  BY <1>0, <1>2 DEF Begin, Dial, DialFails, NoneLeft, Goto, TossedLater, TypeOK
<1>3. ASSUME NEW d \in Conns, Accept(d) PROVE TossedLater'
  BY <1>0, <1>3 DEF Accept, Goto, TossedLater, TypeOK
<1>4. ASSUME NEW s \in Sessions, NEW d \in Dirs, Lock(s, d) \/ LockFails(s, d)
      PROVE  TossedLater'
  BY <1>4 DEF Lock, LockFails, AfterLock, StartFailed, Goto, TossedLater, TypeOK
<1>5. ASSUME NEW s \in Sessions, Shake(s) \/ ShakeFails(s) \/ Hangup(s)
      PROVE  TossedLater'
  BY <1>5 DEF Shake, ShakeFails, StartFailed, Hangup, Goto, TossedLater, TypeOK
<1>6. ASSUME NEW s \in Sessions, Toss(s) \/ Tossed(s) \/ Close(s) PROVE TossedLater'
  BY <1>6 DEF Toss, Tossed, Close, Goto, TossedLater, TypeOK
<1>7. ASSUME NEW P \in {"caller", "daemon"}, Kill(P) PROVE TossedLater'
  BY <1>7 DEF Kill, TossedLater, TypeOK
<1>8. ASSUME Collect \/ \E d \in Dirs : RmLock(d) PROVE TossedLater'
  BY <1>8 DEF Collect, RmLock, env, TossedLater
<1>9. CASE UNCHANGED <<pc, left, toss, busy, removed, flocks, kills>>
  BY <1>9 DEF TossedLater
<1> QED
  BY <1>1, <1>2, <1>3, <1>4, <1>5, <1>6, <1>7, <1>8, <1>9 DEF Next, Calling, Starting, vars

LEMMA BesideStep == TypeOK /\ Beside /\ [Next]_vars => Beside'
BY AwakeStep, TossStep DEF Beside

LEMMA BesideIsRight == Beside => OneCall /\ TossedWithin
<1> SUFFICES ASSUME Beside PROVE OneCall
  BY DEF Beside, TossedLater, TossedWithin
<1> DEFINE awake == {c \in Callers : pc[c] # "idle"}
<1>1. awake = {} \/ \E c : awake = {c}
  BY DEF Beside, OneAwake
<1> HIDE DEF awake
<1>2. Cardinality(awake) \in {0, 1}
  BY <1>1, FS_EmptySet, FS_Singleton
<1>3. Cardinality(awake) <= 1
  BY <1>2
<1> QED
  BY <1>3 DEF Beside, OneAwake, OneCall, awake

-----------------------------------------------------------------------------
(* The theorems *)

\* Discovery goes on beside the calls, and nothing else touches its table.
LEMMA DiscoveryStep == [Next]_vars => [Discovery!Next]_discovery
BY DEF Next, vars, env, discovery, Wake, Calling, NoTx, Begin, Dial, DialFails, NoneLeft,
   Accept, Starting, Lock, LockFails, Shake, ShakeFails, Hangup, Toss, Tossed, Close,
   Collect, RmLock, Kill

\* The table of discovered addresses (mcd.go): an address heard within two
\* rounds of the sweeper is in it, with its age, however receivers, sweeper
\* and calls interleave, and no more often than receivers hear it.
THEOREM TableRight == Spec => []TableOK
<1>1. Init => Discovery!TableOK
  BY InitTable DEF Init
<1>2. Discovery!TableOK /\ [Next]_vars => Discovery!TableOK'
  BY DiscoveryStep, TableStep
<1> QED
  BY <1>1, <1>2, PTL DEF Spec, TableOK

\* Calls, connections, removals of lock files and kills as they come: the
\* sessions on a directory of the neighbour are at most one more than its
\* lock file was removed (lockdir.go), nncp-caller makes one call of a node
\* at a time and Busy says so, and a tosser ends with its call.
THEOREM CallsRight == Spec => []CallsOK
<1> DEFINE Inv == TypeOK /\ Locking /\ Beside /\ Discovery!TableOK
<1>1. Init => Inv
  BY InitTyped, InitLocking, InitBeside, InitTable DEF Init
<1>2. Inv /\ [Next]_vars => Inv'
  <2>1. Discovery!TableOK => Discovery!TypeOK
    BY DEF Discovery!TableOK
  <2> QED
    BY <2>1, TypeStep, LockingStep, BesideStep, DiscoveryStep, TableStep
<1>3. Inv => CallsOK
  BY LockingExcludes, BesideIsRight DEF CallsOK
<1> HIDE DEF Inv
<1> QED
  BY <1>1, <1>2, <1>3, PTL DEF Spec
=============================================================================
