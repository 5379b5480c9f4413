--------------------------- MODULE SPQueueProofs ---------------------------
(***************************************************************************)
(* For every number of packets, sizes and nicenesses: queueTheir has one   *)
(* entry per request, all but its last entry are sorted, a packet that is  *)
(* being sent is left only for a nicer one unless it is that last entry,   *)
(* and the FILEs sent are those FileStreams asks for.                      *)
(***************************************************************************)
EXTENDS SPQueue, SequenceTheorems, TLAPS

-----------------------------------------------------------------------------
(* Inserting into and removing from a sequence *)

LEMMA InsertAtElements ==
    ASSUME NEW S, NEW s \in Seq(S), NEW e \in S, NEW k \in 1..Len(s) + 1
    PROVE  /\ InsertAt(s, k, e) \in Seq(S)
           /\ Len(InsertAt(s, k, e)) = Len(s) + 1
           /\ \A i \in 1..Len(s) + 1 :
                InsertAt(s, k, e)[i] =
                    IF i < k THEN s[i] ELSE IF i = k THEN e ELSE s[i - 1]
<1> DEFINE a == SubSeq(s, 1, k - 1)
           b == SubSeq(s, k, Len(s))
           ae == a \o <<e>>
<1>1. /\ a \in Seq(S) /\ Len(a) = k - 1
      /\ \A i \in 1..k - 1 : a[i] = s[i]
  BY SubSeqProperties
<1>2. /\ b \in Seq(S) /\ Len(b) = Len(s) - k + 1
      /\ \A i \in 1..Len(s) - k + 1 : b[i] = s[k + i - 1]
  BY SubSeqProperties
<1> HIDE DEF a, b
<1>3. /\ ae \in Seq(S) /\ Len(ae) = k /\ ae[k] = e
      /\ \A i \in 1..k - 1 : ae[i] = s[i]
  <2>1. <<e>> \in Seq(S) /\ Len(<<e>>) = 1 /\ <<e>>[1] = e
    OBVIOUS
  <2> DEFINE one == <<e>>
  <2> HIDE DEF one
  <2>2. /\ a \o one \in Seq(S) /\ Len(a \o one) = Len(a) + Len(one)
        /\ \A i \in 1..Len(a) + Len(one) :
             (a \o one)[i] = IF i <= Len(a) THEN a[i] ELSE one[i - Len(a)]
    BY <1>1, <2>1, ConcatProperties DEF one
  <2>3. one[1] = e /\ Len(one) = 1
    BY <2>1 DEF one
  <2>4. ae = a \o one
    BY DEF one
  <2>5. k \in Nat \ {0}
    OBVIOUS
  <2> HIDE DEF ae
  <2> QED
    BY <1>1, <2>2, <2>3, <2>4, <2>5
<1> HIDE DEF ae
<1>4. /\ ae \o b \in Seq(S) /\ Len(ae \o b) = Len(s) + 1
      /\ \A i \in 1..Len(s) + 1 :
           (ae \o b)[i] = IF i <= k THEN ae[i] ELSE b[i - k]
  <2>1. /\ ae \o b \in Seq(S) /\ Len(ae \o b) = Len(ae) + Len(b)
        /\ \A i \in 1..Len(ae) + Len(b) :
             (ae \o b)[i] = IF i <= Len(ae) THEN ae[i] ELSE b[i - Len(ae)]
    BY <1>2, <1>3, ConcatProperties
  <2>2. Len(s) \in Nat /\ k \in Nat
    OBVIOUS
  <2>3. Len(ae) + Len(b) = Len(s) + 1 /\ Len(ae) = k
    BY <1>2, <1>3, <2>2
  <2> QED
    BY <2>1, <2>3
<1>5. \A i \in k + 1..Len(s) + 1 : b[i - k] = s[i - 1]
  BY <1>2
<1>6. InsertAt(s, k, e) = ae \o b
  BY DEF InsertAt, ae, a, b
<1>7. ASSUME NEW i \in 1..Len(s) + 1
      PROVE  (ae \o b)[i] = IF i < k THEN s[i] ELSE IF i = k THEN e ELSE s[i - 1]
  BY <1>3, <1>4, <1>5
<1> QED
  BY <1>4, <1>6, <1>7

LEMMA RemoveAtElements ==
    ASSUME NEW S, NEW s \in Seq(S), NEW k \in 1..Len(s)
    PROVE  /\ RemoveAt(s, k) \in Seq(S)
           /\ Len(RemoveAt(s, k)) = Len(s) - 1
           /\ \A i \in 1..Len(s) - 1 :
                RemoveAt(s, k)[i] = IF i < k THEN s[i] ELSE s[i + 1]
<1> DEFINE a == SubSeq(s, 1, k - 1)
           b == SubSeq(s, k + 1, Len(s))
<1>1. /\ a \in Seq(S) /\ Len(a) = k - 1
      /\ \A i \in 1..k - 1 : a[i] = s[i]
  BY SubSeqProperties
<1>2. /\ b \in Seq(S) /\ Len(b) = Len(s) - k
      /\ \A i \in 1..Len(s) - k : b[i] = s[k + i]
  BY SubSeqProperties
<1> HIDE DEF a, b
<1>3. /\ a \o b \in Seq(S) /\ Len(a \o b) = Len(s) - 1
      /\ \A i \in 1..Len(s) - 1 :
           (a \o b)[i] = IF i < k THEN a[i] ELSE b[i - k + 1]
  <2>1. /\ a \o b \in Seq(S) /\ Len(a \o b) = Len(a) + Len(b)
        /\ \A i \in 1..Len(a) + Len(b) :
             (a \o b)[i] = IF i <= Len(a) THEN a[i] ELSE b[i - Len(a)]
    BY <1>1, <1>2, ConcatProperties
  <2>2. k \in Nat /\ Len(s) \in Nat
    OBVIOUS
  <2> QED
    BY <1>1, <1>2, <2>1, <2>2
<1>4. \A i \in k..Len(s) - 1 : b[i - k + 1] = s[i + 1]
  BY <1>2
<1>5. RemoveAt(s, k) = a \o b
  BY DEF RemoveAt, a, b
<1>6. ASSUME NEW i \in 1..Len(s) - 1
      PROVE  (a \o b)[i] = IF i < k THEN s[i] ELSE s[i + 1]
  BY <1>1, <1>3, <1>4
<1> QED
  BY <1>3, <1>5, <1>6

-----------------------------------------------------------------------------
(* What the actions do to the queue *)

LEMMA FreqInserts ==
    ASSUME TypeOK, NEW p \in Pkts, NEW off \in 0..Size[p], RecvFreq(p, off), p \in Served
    PROVE  \E k \in 1..Len(queueTheir) + 1 :
             /\ InsertPos(k, Nice[p])
             /\ queueTheir' \in Seq(Entries)
             /\ Len(queueTheir') = Len(queueTheir) + 1
             /\ \A i \in 1..Len(queueTheir) + 1 :
                  queueTheir'[i] = IF i < k THEN queueTheir[i]
                                   ELSE IF i = k THEN Entry(p, off)
                                   ELSE queueTheir[i - 1]
<1>1. PICK k \in 1..Len(queueTheir) + 1 :
        /\ InsertPos(k, Nice[p])
        /\ queueTheir' = InsertAt(queueTheir, k, Entry(p, off))
  BY DEF RecvFreq
<1>2. Entry(p, off) \in Entries
  BY QueueAssumption DEF Entry, Entries
<1>3. queueTheir \in Seq(Entries)
  BY DEF TypeOK
<1> DEFINE e == Entry(p, off)
<1>4. e \in Entries
  BY <1>2
<1> HIDE DEF e
<1>5. /\ InsertAt(queueTheir, k, e) \in Seq(Entries)
      /\ Len(InsertAt(queueTheir, k, e)) = Len(queueTheir) + 1
      /\ \A i \in 1..Len(queueTheir) + 1 :
           InsertAt(queueTheir, k, e)[i] =
               IF i < k THEN queueTheir[i] ELSE IF i = k THEN e ELSE queueTheir[i - 1]
  BY <1>3, <1>4, InsertAtElements
<1> QED
  BY <1>1, <1>5 DEF e

\* The sender's entry is advanced by a chunk or, at the end, removed.
LEMMA AdvanceMoves ==
    ASSUME TypeOK, OneEntry, CurrentQueued, Advance
    PROVE  LET p == current.pkt
               end == current.off + ChunkLen(p, current.off)
           IN  \E k \in 1..Len(queueTheir) :
                 /\ queueTheir[k] = current /\ p \in Pkts
                 /\ end \in Nat /\ end <= Size[p]
                 /\ current.off \in Nat /\ current.off <= Size[p]
                 /\ \/ /\ end # Size[p] /\ finished' = finished
                       /\ queueTheir' = [queueTheir EXCEPT ![k] = Entry(p, end)]
                    \/ /\ end = Size[p] /\ finished' = finished \cup {p}
                       /\ queueTheir' \in Seq(Entries)
                       /\ Len(queueTheir') = Len(queueTheir) - 1
                       /\ \A i \in 1..Len(queueTheir) - 1 :
                            queueTheir'[i] = IF i < k THEN queueTheir[i]
                                             ELSE queueTheir[i + 1]
<1> DEFINE p == current.pkt
           end == current.off + ChunkLen(p, current.off)
<1>1. queueTheir \in Seq(Entries)
  BY DEF TypeOK
<1>2. PICK k \in 1..Len(queueTheir) : queueTheir[k] = current
  BY DEF Advance, CurrentQueued
<1>3. /\ p \in Pkts /\ current.off \in Nat /\ current.off <= Size[p]
      /\ Size[p] \in Nat
  <2>1. queueTheir[k] \in Entries /\ queueTheir[k].off <= Size[queueTheir[k].pkt]
    BY <1>1, <1>2 DEF TypeOK
  <2> QED
    BY <1>2, <2>1, QueueAssumption DEF Entries
<1>4. end \in Nat /\ end <= Size[p]
  BY <1>3 DEF ChunkLen
<1>5. PICK i \in 1..Len(queueTheir) :
        /\ queueTheir[i].pkt = p
        /\ IF end = Size[p] THEN queueTheir' = RemoveAt(queueTheir, i)
           ELSE queueTheir' = [queueTheir EXCEPT ![i] = Entry(p, end)]
  BY DEF Advance
<1>6. i = k
  BY <1>2, <1>5 DEF OneEntry
<1>7. finished' = IF end = Size[p] THEN finished \cup {p} ELSE finished
  BY DEF Advance
<1> HIDE DEF end
<1>8. CASE end # Size[p]
  BY <1>2, <1>3, <1>4, <1>5, <1>6, <1>7, <1>8 DEF end
<1>9. CASE end = Size[p]
  BY <1>1, <1>2, <1>3, <1>4, <1>5, <1>6, <1>7, <1>9, RemoveAtElements DEF end
<1> QED
  BY <1>8, <1>9

-----------------------------------------------------------------------------
(* Types, one entry per request, and order *)

Shape == TypeOK /\ OneEntry /\ CurrentQueued

LEMMA ShapeInit == Init => Shape
  BY DEF Init, Shape, TypeOK, OneEntry, CurrentQueued

LEMMA ShapeFreq ==
    ASSUME Shape, NEW p \in Pkts, NEW off \in 0..Size[p], RecvFreq(p, off)
    PROVE  Shape'
<1> USE QueueAssumption
<1>0. TypeOK /\ OneEntry /\ CurrentQueued
  BY DEF Shape
<1>1. /\ p \notin asked /\ asked' = asked \cup {p}
      /\ UNCHANGED <<current, finished, file>>
  BY DEF RecvFreq
<1>2. CASE p \notin Served
  <2>1. UNCHANGED queueTheir
    BY <1>2 DEF RecvFreq
  <2> QED
    BY <1>0, <1>1, <2>1 DEF Shape, TypeOK, OneEntry, CurrentQueued
<1>3. CASE p \in Served
  <2>1. PICK k \in 1..Len(queueTheir) + 1 :
             /\ queueTheir' \in Seq(Entries)
             /\ Len(queueTheir') = Len(queueTheir) + 1
             /\ \A i \in 1..Len(queueTheir) + 1 :
                  queueTheir'[i] = IF i < k THEN queueTheir[i]
                                   ELSE IF i = k THEN Entry(p, off)
                                   ELSE queueTheir[i - 1]
    BY <1>0, <1>3, FreqInserts
  <2>2. Len(queueTheir) \in Nat
    BY <1>0 DEF TypeOK
  <2>3. Entry(p, off).pkt = p /\ Entry(p, off).off = off
    BY DEF Entry
  <2>9. ASSUME NEW i \in 1..Len(queueTheir')
        PROVE  \/ i = k /\ queueTheir'[i] = Entry(p, off)
               \/ \E j \in 1..Len(queueTheir) :
                     /\ i # k /\ queueTheir'[i] = queueTheir[j]
                     /\ j = IF i < k THEN i ELSE i - 1
    BY <2>1, <2>2
  <2>4. TypeOK'
    <3>1. ASSUME NEW i \in 1..Len(queueTheir')
          PROVE  queueTheir'[i].off <= Size[queueTheir'[i].pkt]
      <4>1. CASE queueTheir'[i] = Entry(p, off)
        BY <2>3, <4>1
      <4>2. CASE \E j \in 1..Len(queueTheir) : queueTheir'[i] = queueTheir[j]
        BY <1>0, <4>2 DEF TypeOK
      <4> QED
        BY <2>9, <4>1, <4>2
    <3> QED
      BY <1>0, <1>1, <2>1, <3>1 DEF TypeOK
  <2>5. \A i \in 1..Len(queueTheir) : queueTheir[i].pkt # p
    BY <1>0, <1>1 DEF OneEntry
  <2>6. p \notin finished
    BY <1>0, <1>1 DEF OneEntry
  <2>7. OneEntry'
    <3>1. ASSUME NEW i \in 1..Len(queueTheir'), NEW j \in 1..Len(queueTheir'),
                 queueTheir'[i].pkt = queueTheir'[j].pkt
          PROVE  i = j
      <4>1. \A m \in 1..Len(queueTheir') : queueTheir'[m].pkt = p <=> m = k
        BY <2>3, <2>5, <2>9
      <4>2. CASE i = k \/ j = k
        BY <3>1, <4>1, <4>2
      <4>3. CASE i # k /\ j # k
        <5>1. PICK a \in 1..Len(queueTheir) :
                queueTheir'[i] = queueTheir[a] /\ a = IF i < k THEN i ELSE i - 1
          BY <2>9, <4>3
        <5>2. PICK b \in 1..Len(queueTheir) :
                queueTheir'[j] = queueTheir[b] /\ b = IF j < k THEN j ELSE j - 1
          BY <2>9, <4>3
        <5>3. a = b
          BY <1>0, <3>1, <5>1, <5>2 DEF OneEntry
        <5> QED
          BY <4>3, <5>1, <5>2, <5>3
      <4> QED
        BY <4>2, <4>3
    <3>2. ASSUME NEW i \in 1..Len(queueTheir')
          PROVE  queueTheir'[i].pkt \in (asked' \cap Served) \ finished'
      BY <1>0, <1>1, <1>3, <2>3, <2>6, <2>9 DEF OneEntry
    <3> QED
      BY <1>0, <1>1, <3>1, <3>2 DEF OneEntry
  <2>8. CurrentQueued'
    <3> SUFFICES ASSUME current # NoEntry
                 PROVE  \E i \in 1..Len(queueTheir') : queueTheir'[i] = current
      BY <1>1 DEF CurrentQueued
    <3>1. PICK i \in 1..Len(queueTheir) : queueTheir[i] = current
      BY <1>0 DEF CurrentQueued
    <3>2. CASE i < k
      BY <2>1, <2>2, <3>1, <3>2
    <3>3. CASE i >= k
      <4>1. i + 1 \in 1..Len(queueTheir')
        BY <2>1, <2>2
      <4>2. queueTheir'[i + 1] = queueTheir[i]
        BY <2>1, <2>2, <3>3
      <4> QED
        BY <3>1, <4>1, <4>2
    <3> QED
      BY <3>2, <3>3
  <2> QED
    BY <2>4, <2>7, <2>8 DEF Shape
<1> QED
  BY <1>2, <1>3

LEMMA ShapeAdvance == ASSUME Shape, Advance PROVE Shape'
<1> USE QueueAssumption
<1>0. TypeOK /\ OneEntry /\ CurrentQueued
  BY DEF Shape
<1> DEFINE end == current.off + ChunkLen(current.pkt, current.off)
<1>1. /\ current' = NoEntry /\ asked' = asked /\ file' = current
      /\ current # NoEntry
  BY DEF Advance
<1>2. PICK p \in Pkts, k \in 1..Len(queueTheir) :
        /\ queueTheir[k] = current /\ p = current.pkt
        /\ end \in Nat /\ end <= Size[p]
        /\ \/ /\ end # Size[p] /\ finished' = finished
              /\ queueTheir' = [queueTheir EXCEPT ![k] = Entry(p, end)]
           \/ /\ end = Size[p] /\ finished' = finished \cup {p}
              /\ queueTheir' \in Seq(Entries)
              /\ Len(queueTheir') = Len(queueTheir) - 1
              /\ \A i \in 1..Len(queueTheir) - 1 :
                   queueTheir'[i] = IF i < k THEN queueTheir[i]
                                    ELSE queueTheir[i + 1]
  BY <1>0, AdvanceMoves
<1> HIDE DEF end
<1>3. Len(queueTheir) \in Nat /\ queueTheir \in Seq(Entries)
  BY <1>0 DEF TypeOK
<1>4. CurrentQueued'
  BY <1>1 DEF CurrentQueued
<1>5. file' \in Entries /\ current.pkt \in asked /\ current.pkt = p
  BY <1>0, <1>1, <1>2, <1>3 DEF OneEntry
<1>6. CASE queueTheir' = [queueTheir EXCEPT ![k] = Entry(p, end)] /\ finished' = finished
  <2>1. Entry(p, end) \in Entries /\ Entry(p, end).pkt = p /\ Entry(p, end).off = end
    BY <1>2 DEF Entry, Entries
  <2>2. queueTheir' \in Seq(Entries) /\ Len(queueTheir') = Len(queueTheir)
    BY <1>3, <1>6, <2>1
  <2>3. \A i \in 1..Len(queueTheir) :
          /\ queueTheir'[i].pkt = queueTheir[i].pkt
          /\ queueTheir'[i].off = IF i = k THEN end ELSE queueTheir[i].off
    BY <1>2, <1>3, <1>6, <2>1
  <2>4. TypeOK'
    BY <1>0, <1>1, <1>2, <1>5, <1>6, <2>2, <2>3 DEF TypeOK
  <2>5. OneEntry'
    BY <1>0, <1>1, <1>6, <2>2, <2>3 DEF OneEntry
  <2> QED
    BY <1>4, <2>4, <2>5 DEF Shape
<1>7. CASE /\ finished' = finished \cup {p}
           /\ queueTheir' \in Seq(Entries)
           /\ Len(queueTheir') = Len(queueTheir) - 1
           /\ \A i \in 1..Len(queueTheir) - 1 :
                queueTheir'[i] = IF i < k THEN queueTheir[i] ELSE queueTheir[i + 1]
  <2>1. ASSUME NEW i \in 1..Len(queueTheir')
        PROVE  \E j \in 1..Len(queueTheir) :
                 /\ j # k /\ queueTheir'[i] = queueTheir[j]
                 /\ j = IF i < k THEN i ELSE i + 1
    BY <1>3, <1>7
  <2>2. TypeOK'
    BY <1>0, <1>1, <1>5, <1>7, <2>1 DEF TypeOK
  <2>3. \A i, j \in 1..Len(queueTheir') : queueTheir'[i].pkt = queueTheir'[j].pkt => i = j
    BY <1>0, <1>3, <1>7, <2>1 DEF OneEntry
  <2>4. \A i \in 1..Len(queueTheir') :
          queueTheir'[i].pkt \in (asked' \cap Served) \ finished'
    BY <1>0, <1>1, <1>2, <1>7, <2>1 DEF OneEntry
  <2>5. finished' \subseteq asked'
    BY <1>0, <1>1, <1>5, <1>7 DEF OneEntry
  <2> QED
    BY <1>4, <2>2, <2>3, <2>4, <2>5 DEF Shape, OneEntry
<1> QED
  BY <1>2, <1>6, <1>7

LEMMA ShapeStep == Shape /\ [Next]_vars => Shape'
<1> SUFFICES ASSUME Shape, [Next]_vars PROVE Shape'
  OBVIOUS
<1>1. CASE Pick
  <2>1. queueTheir[1] \in Entries /\ 1 \in 1..Len(queueTheir)
    BY <1>1 DEF Pick, Shape, TypeOK
  <2> QED
    BY <1>1, <2>1 DEF Pick, Shape, TypeOK, OneEntry, CurrentQueued
<1>2. CASE UNCHANGED vars
  BY <1>2 DEF vars, Shape, TypeOK, OneEntry, CurrentQueued
<1> QED
  BY <1>1, <1>2, ShapeFreq, ShapeAdvance DEF Next

\* The queue is a sequence of valid entries and offsets stay within their
\* packets, for any packets and sizes.
THEOREM QueueTypeCorrect == Spec => []TypeOK
<1>1. Shape => TypeOK
  BY DEF Shape
<1> QED
  BY <1>1, ShapeInit, ShapeStep, PTL DEF Spec

LEMMA ShapeCorrect == Spec => []Shape
  BY ShapeInit, ShapeStep, PTL DEF Spec

LEMMA SortedInit == Init => AllButLastSorted
  BY DEF Init, AllButLastSorted

LEMMA SortedFreq ==
    ASSUME Shape, AllButLastSorted,
           NEW p \in Pkts, NEW off \in 0..Size[p], RecvFreq(p, off), p \in Served
    PROVE  AllButLastSorted'
<1> USE QueueAssumption
<1>1. PICK k \in 1..Len(queueTheir) + 1 :
             /\ InsertPos(k, Nice[p])
             /\ Len(queueTheir') = Len(queueTheir) + 1
             /\ \A i \in 1..Len(queueTheir) + 1 :
                  queueTheir'[i] = IF i < k THEN queueTheir[i]
                                   ELSE IF i = k THEN Entry(p, off)
                                   ELSE queueTheir[i - 1]
  BY FreqInserts DEF Shape
<1>2. /\ queueTheir \in Seq(Entries) /\ Len(queueTheir) \in Nat /\ Nice[p] \in Nat
      /\ \A i \in 1..Len(queueTheir) : NiceAt(i) \in Nat
  <2>1. queueTheir \in Seq(Entries)
    BY DEF Shape, TypeOK
  <2>2. \A i \in 1..Len(queueTheir) : queueTheir[i] \in Entries
    BY <2>1
  <2> QED
    BY <2>1, <2>2 DEF Entries, NiceAt
<1>3. \A i \in 1..Len(queueTheir) + 1 :
        NiceAt(i)' = IF i < k THEN NiceAt(i) ELSE IF i = k THEN Nice[p] ELSE NiceAt(i - 1)
  BY <1>1, <1>2 DEF NiceAt, Entry
<1>4. \A i \in 1..k - 1 : NiceAt(i) <= Nice[p]
  BY <1>1, <1>2 DEF InsertPos
<1>5. /\ k < Len(queueTheir) => NiceAt(k) > Nice[p]
      /\ Len(queueTheir) > 0 => k <= Len(queueTheir)
  BY <1>1, <1>2, EmptySeq DEF InsertPos
<1>7. ASSUME NEW i \in 1..Len(queueTheir) - 1, NEW j \in 1..Len(queueTheir) - 1, i <= j
      PROVE  NiceAt(i) <= NiceAt(j)
  BY <1>7 DEF AllButLastSorted
<1>6. ASSUME NEW i \in 1..Len(queueTheir), NEW j \in 1..Len(queueTheir), i <= j
      PROVE  NiceAt(i)' <= NiceAt(j)'
  <2>0. k <= Len(queueTheir) /\ k \in Nat /\ i \in Nat /\ j \in Nat
    BY <1>2, <1>5
  <2>1. CASE j < k
    <3>1. NiceAt(i) <= NiceAt(j)
      BY <1>2, <1>6, <1>7, <2>0, <2>1
    <3>2. NiceAt(i)' = NiceAt(i)
      BY <1>2, <1>3, <1>6, <2>0, <2>1
    <3>3. NiceAt(j)' = NiceAt(j)
      BY <1>2, <1>3, <2>0, <2>1
    <3> QED
      BY <3>1, <3>2, <3>3
  <2>2. CASE j = k
    BY <1>1, <1>2, <1>3, <1>4, <1>6, <2>2
  <2>3. CASE j > k
    <3>0. NiceAt(k) \in Nat /\ NiceAt(j - 1) \in Nat
      BY <1>2, <2>0, <2>3
    <3>1. NiceAt(j)' = NiceAt(j - 1)
      BY <1>2, <1>3, <2>0, <2>3
    <3>2. NiceAt(k) > Nice[p] /\ NiceAt(k) <= NiceAt(j - 1)
      BY <1>2, <1>5, <1>7, <2>0, <2>3
    <3>3. CASE i < k
      <4>1. NiceAt(i)' = NiceAt(i) /\ NiceAt(i) <= Nice[p]
        BY <1>2, <1>3, <1>4, <2>0, <3>3
      <4>2. NiceAt(i) \in Nat
        BY <1>2
      <4> QED
        BY <1>2, <3>0, <3>1, <3>2, <4>1, <4>2
    <3>4. CASE i = k
      <4>1. NiceAt(i)' = Nice[p]
        BY <1>2, <1>3, <2>0, <3>4
      <4> QED
        BY <1>2, <3>0, <3>1, <3>2, <4>1
    <3>5. CASE i > k
      <4>1. NiceAt(i)' = NiceAt(i - 1)
        BY <1>2, <1>3, <2>0, <3>5
      <4>2. NiceAt(i - 1) <= NiceAt(j - 1)
        BY <1>2, <1>6, <1>7, <2>0, <2>3, <3>5
      <4> QED
        BY <3>1, <4>1, <4>2
    <3> QED
      BY <2>0, <3>3, <3>4, <3>5
  <2> QED
    BY <2>0, <2>1, <2>2, <2>3
<1> QED
  BY <1>1, <1>2, <1>6 DEF AllButLastSorted

LEMMA SortedStep == Shape /\ AllButLastSorted /\ [Next]_vars => AllButLastSorted'
<1> SUFFICES ASSUME Shape, AllButLastSorted, [Next]_vars PROVE AllButLastSorted'
  OBVIOUS
<1>1. ASSUME UNCHANGED queueTheir PROVE AllButLastSorted'
  BY <1>1 DEF AllButLastSorted, NiceAt
<1>2. ASSUME NEW p \in Pkts, NEW off \in 0..Size[p], RecvFreq(p, off)
      PROVE  AllButLastSorted'
  <2>1. CASE p \in Served
    BY <1>2, <2>1, SortedFreq
  <2>2. CASE p \notin Served
    BY <1>1, <1>2, <2>2 DEF RecvFreq
  <2> QED
    BY <2>1, <2>2
<1>3. CASE Advance
  <2> DEFINE end == current.off + ChunkLen(current.pkt, current.off)
  <2>1. PICK k \in 1..Len(queueTheir) :
          /\ queueTheir[k] = current
          /\ \/ queueTheir' = [queueTheir EXCEPT ![k] = Entry(current.pkt, end)]
             \/ /\ Len(queueTheir') = Len(queueTheir) - 1
                /\ \A i \in 1..Len(queueTheir) - 1 :
                     queueTheir'[i] = IF i < k THEN queueTheir[i] ELSE queueTheir[i + 1]
    BY <1>3, AdvanceMoves DEF Shape
  <2> HIDE DEF end
  <2>2. queueTheir \in Seq(Entries) /\ Len(queueTheir) \in Nat
    BY DEF Shape, TypeOK
  <2>3. CASE queueTheir' = [queueTheir EXCEPT ![k] = Entry(current.pkt, end)]
    <3>1. Len(queueTheir') = Len(queueTheir)
      BY <2>2, <2>3
    <3>2. ASSUME NEW i \in 1..Len(queueTheir) PROVE NiceAt(i)' = NiceAt(i)
      BY <2>1, <2>2, <2>3 DEF NiceAt, Entry
    <3> QED
      BY <2>2, <3>1, <3>2 DEF AllButLastSorted
  <2>4. CASE /\ Len(queueTheir') = Len(queueTheir) - 1
             /\ \A i \in 1..Len(queueTheir) - 1 :
                  queueTheir'[i] = IF i < k THEN queueTheir[i] ELSE queueTheir[i + 1]
    <3>1. ASSUME NEW i \in 1..Len(queueTheir) - 1
          PROVE  NiceAt(i)' = IF i < k THEN NiceAt(i) ELSE NiceAt(i + 1)
      BY <2>4 DEF NiceAt
    <3>2. ASSUME NEW i \in 1..Len(queueTheir') - 1, NEW j \in 1..Len(queueTheir') - 1, i <= j
          PROVE  NiceAt(i)' <= NiceAt(j)'
      <4>1. PICK a \in 1..Len(queueTheir) - 1 :
              NiceAt(i)' = NiceAt(a) /\ a = IF i < k THEN i ELSE i + 1
        BY <2>2, <2>4, <3>1
      <4>2. PICK b \in 1..Len(queueTheir) - 1 :
              NiceAt(j)' = NiceAt(b) /\ b = IF j < k THEN j ELSE j + 1
        BY <2>2, <2>4, <3>1
      <4>3. a <= b
        BY <3>2, <4>1, <4>2
      <4>4. NiceAt(a) <= NiceAt(b)
        BY <4>3 DEF AllButLastSorted
      <4> QED
        BY <4>1, <4>2, <4>4
    <3> QED
      BY <3>2 DEF AllButLastSorted
  <2> QED
    BY <2>1, <2>3, <2>4
<1> QED
  BY <1>1, <1>2, <1>3 DEF Next, Pick, vars

\* However many FREQs arrive and in whatever order, only the last entry of
\* queueTheir can be out of order.
THEOREM SortedButLast == Spec => []AllButLastSorted
  BY ShapeCorrect, SortedInit, SortedStep, PTL DEF Spec

-----------------------------------------------------------------------------
(* The queue implements FileStreams *)

LEMMA OffInAt ==
    ASSUME NEW s, NEW i \in 1..Len(s),
           \A j \in 1..Len(s) : s[j].pkt = s[i].pkt => j = i
    PROVE  OffIn(s, s[i].pkt) = s[i].off
<1> DEFINE c == CHOOSE j \in 1..Len(s) : s[j].pkt = s[i].pkt
<1>1. c \in 1..Len(s) /\ s[c].pkt = s[i].pkt
  OBVIOUS
<1>2. c = i
  BY <1>1
<1> QED
  BY <1>2 DEF OffIn

LEMMA OffInSame ==
    ASSUME NEW s, NEW t, NEW q,
           \A i, j \in 1..Len(s) : s[i].pkt = s[j].pkt => i = j,
           \A i, j \in 1..Len(t) : t[i].pkt = t[j].pkt => i = j,
           \A i \in 1..Len(s) : s[i].pkt = q => \E j \in 1..Len(t) : t[j] = s[i],
           \A j \in 1..Len(t) : t[j].pkt = q => \E i \in 1..Len(s) : s[i] = t[j]
    PROVE  OffIn(s, q) = OffIn(t, q)
<1>1. CASE \E i \in 1..Len(s) : s[i].pkt = q
  <2>1. PICK i \in 1..Len(s) : s[i].pkt = q
    BY <1>1
  <2>2. PICK j \in 1..Len(t) : t[j] = s[i]
    BY <2>1
  <2>3. OffIn(s, q) = s[i].off
    BY <2>1, OffInAt
  <2>4. OffIn(t, q) = t[j].off
    BY <2>1, <2>2, OffInAt
  <2> QED
    BY <2>2, <2>3, <2>4
<1>2. CASE \A i \in 1..Len(s) : s[i].pkt # q
  BY <1>2 DEF OffIn
<1> QED
  BY <1>1, <1>2

LEMMA StreamsInit == Init => Streams!Init
  BY DEF Init, Streams!Init, OffIn

LEMMA StreamsFreq ==
    ASSUME Shape, NEW p \in Pkts, NEW off \in 0..Size[p], RecvFreq(p, off), p \in Served
    PROVE  Streams!Request(p, off)
<1>0. TypeOK /\ OneEntry /\ OneEntry'
  BY ShapeFreq DEF Shape
<1>1. PICK k \in 1..Len(queueTheir) + 1 :
             /\ Len(queueTheir') = Len(queueTheir) + 1
             /\ \A i \in 1..Len(queueTheir) + 1 :
                  queueTheir'[i] = IF i < k THEN queueTheir[i]
                                   ELSE IF i = k THEN Entry(p, off)
                                   ELSE queueTheir[i - 1]
  BY <1>0, FreqInserts
<1>2. Len(queueTheir) \in Nat
  BY <1>0 DEF TypeOK
<1>3. p \notin asked /\ finished' = finished /\ file' = file
  BY DEF RecvFreq
<1>4. OffIn(queueTheir, p) = Absent /\ p \notin finished
  BY <1>0, <1>3 DEF OneEntry, OffIn
<1>5. OffIn(queueTheir', p) = off
  <2>1. k \in 1..Len(queueTheir') /\ queueTheir'[k] = Entry(p, off)
    BY <1>1, <1>2
  <2>2. \A j \in 1..Len(queueTheir') : queueTheir'[j].pkt = queueTheir'[k].pkt => j = k
    BY <1>0, <2>1 DEF OneEntry
  <2>3. OffIn(queueTheir', queueTheir'[k].pkt) = queueTheir'[k].off
    BY <2>1, <2>2, OffInAt
  <2> QED
    BY <2>1, <2>3 DEF Entry
<1>6. ASSUME NEW q \in Pkts, q # p PROVE OffIn(queueTheir', q) = OffIn(queueTheir, q)
  <2>1. ASSUME NEW i \in 1..Len(queueTheir)
        PROVE  \E j \in 1..Len(queueTheir') : queueTheir'[j] = queueTheir[i]
    <3>1. CASE i < k
      BY <1>1, <1>2, <3>1
    <3>2. CASE i >= k
      <4>1. i + 1 \in 1..Len(queueTheir') /\ queueTheir'[i + 1] = queueTheir[i]
        BY <1>1, <1>2, <3>2
      <4> QED
        BY <4>1
    <3> QED
      BY <1>2, <3>1, <3>2
  <2>2. ASSUME NEW j \in 1..Len(queueTheir'), queueTheir'[j].pkt = q
        PROVE  \E i \in 1..Len(queueTheir) : queueTheir[i] = queueTheir'[j]
    BY <1>1, <1>2, <1>6, <2>2 DEF Entry
  <2> QED
    BY <1>0, <2>1, <2>2, OffInSame DEF OneEntry
<1>7. [q \in Pkts |-> OffIn(queueTheir', q)]
        = [[q \in Pkts |-> OffIn(queueTheir, q)] EXCEPT ![p] = off]
  BY <1>5, <1>6
<1> QED
  BY <1>3, <1>4, <1>7 DEF Streams!Request

LEMMA StreamsAdvance == ASSUME Shape, Advance PROVE Streams!Send(current.pkt)
<1> USE QueueAssumption
<1> DEFINE end == current.off + ChunkLen(current.pkt, current.off)
<1>0. TypeOK /\ OneEntry /\ CurrentQueued /\ OneEntry'
  BY ShapeAdvance DEF Shape
<1>1. PICK p \in Pkts, k \in 1..Len(queueTheir) :
        /\ queueTheir[k] = current /\ p = current.pkt
        /\ current.off \in Nat /\ current.off <= Size[p]
        /\ \/ /\ end # Size[p] /\ finished' = finished
              /\ queueTheir' = [queueTheir EXCEPT ![k] = Entry(p, end)]
           \/ /\ end = Size[p] /\ finished' = finished \cup {p}
              /\ Len(queueTheir') = Len(queueTheir) - 1
              /\ \A i \in 1..Len(queueTheir) - 1 :
                   queueTheir'[i] = IF i < k THEN queueTheir[i] ELSE queueTheir[i + 1]
  BY <1>0, AdvanceMoves
<1>2. /\ queueTheir \in Seq(Entries) /\ Len(queueTheir) \in Nat
      /\ \A i \in 1..Len(queueTheir) : queueTheir[i] \in Entries
      /\ Size[p] \in Nat
  BY <1>0 DEF TypeOK
<1>3. OffIn(queueTheir, p) = current.off
  BY <1>0, <1>1, OffInAt DEF OneEntry
<1>4. file' = [pkt |-> p, off |-> current.off]
  BY <1>1, <1>2 DEF Advance, Entries
<1>5. \/ end # Size[p] /\ end = current.off + 1 /\ current.off + 1 < Size[p]
      \/ end = Size[p] /\ ~(current.off + 1 < Size[p])
  BY <1>1, <1>2 DEF ChunkLen
<1>8. /\ \A i, j \in 1..Len(queueTheir) :
           queueTheir[i].pkt = queueTheir[j].pkt => i = j
      /\ \A i, j \in 1..Len(queueTheir') :
           queueTheir'[i].pkt = queueTheir'[j].pkt => i = j
  BY <1>0 DEF OneEntry
<1> HIDE DEF end
<1>6. CASE end # Size[p]
  <2>1. /\ queueTheir' = [queueTheir EXCEPT ![k] = Entry(p, current.off + 1)]
        /\ current.off + 1 < Size[p] /\ finished' = finished
    BY <1>1, <1>5, <1>6
  <2>2. Len(queueTheir') = Len(queueTheir) /\ queueTheir'[k] = Entry(p, current.off + 1)
    BY <1>2, <2>1
  <2>3. OffIn(queueTheir', p) = current.off + 1
    <3>1. OffIn(queueTheir', queueTheir'[k].pkt) = queueTheir'[k].off
      BY <1>0, <2>2, OffInAt DEF OneEntry
    <3> QED
      BY <2>2, <3>1 DEF Entry
  <2>4. ASSUME NEW q \in Pkts, q # p PROVE OffIn(queueTheir', q) = OffIn(queueTheir, q)
    <3>1. \A i \in 1..Len(queueTheir) : i # k => queueTheir'[i] = queueTheir[i]
      BY <1>2, <2>1
    <3>2. queueTheir[k].pkt = p /\ queueTheir'[k].pkt = p
      BY <1>1, <2>2 DEF Entry
    <3>3. \A i \in 1..Len(queueTheir) :
            queueTheir[i].pkt = q => \E j \in 1..Len(queueTheir') : queueTheir'[j] = queueTheir[i]
      BY <2>2, <2>4, <3>1, <3>2
    <3>4. \A j \in 1..Len(queueTheir') :
            queueTheir'[j].pkt = q => \E i \in 1..Len(queueTheir) : queueTheir[i] = queueTheir'[j]
      BY <2>2, <2>4, <3>1, <3>2
    <3> QED
      BY <1>8, <3>3, <3>4, OffInSame
  <2>5. [q \in Pkts |-> OffIn(queueTheir', q)]
          = [[q \in Pkts |-> OffIn(queueTheir, q)] EXCEPT ![p] = @ + 1]
    BY <1>3, <2>3, <2>4
  <2> QED
    BY <1>1, <1>2, <1>3, <1>4, <2>1, <2>5 DEF Streams!Send, Absent
<1>7. CASE end = Size[p]
  <2>1. /\ ~(current.off + 1 < Size[p]) /\ finished' = finished \cup {p}
        /\ Len(queueTheir') = Len(queueTheir) - 1
        /\ \A i \in 1..Len(queueTheir) - 1 :
             queueTheir'[i] = IF i < k THEN queueTheir[i] ELSE queueTheir[i + 1]
    BY <1>1, <1>5, <1>7
  <2>2. \A i \in 1..Len(queueTheir') :
          \E j \in 1..Len(queueTheir) : j # k /\ queueTheir'[i] = queueTheir[j]
    BY <1>2, <2>1
  <2>3. ASSUME NEW j \in 1..Len(queueTheir), j # k
        PROVE  \E i \in 1..Len(queueTheir') : queueTheir'[i] = queueTheir[j]
    <3>1. CASE j < k
      BY <1>2, <2>1, <3>1
    <3>2. CASE j > k
      <4>1. j - 1 \in 1..Len(queueTheir') /\ queueTheir'[j - 1] = queueTheir[j]
        BY <1>2, <2>1, <3>2
      <4> QED
        BY <4>1
    <3> QED
      BY <1>2, <2>3, <3>1, <3>2
  <2>4. OffIn(queueTheir', p) = Absent
    <3>1. \A i \in 1..Len(queueTheir') : queueTheir'[i].pkt # p
      BY <1>1, <1>8, <2>2
    <3> QED
      BY <3>1 DEF OffIn
  <2>5. ASSUME NEW q \in Pkts, q # p PROVE OffIn(queueTheir', q) = OffIn(queueTheir, q)
    <3>1. ASSUME NEW j \in 1..Len(queueTheir), queueTheir[j].pkt = q
          PROVE  \E i \in 1..Len(queueTheir') : queueTheir'[i] = queueTheir[j]
      BY <1>1, <2>3, <2>5, <3>1
    <3>2. \A i \in 1..Len(queueTheir') :
            \E j \in 1..Len(queueTheir) : queueTheir[j] = queueTheir'[i]
      BY <2>2
    <3> QED
      BY <1>8, <3>1, <3>2, OffInSame
  <2>6. [q \in Pkts |-> OffIn(queueTheir', q)]
          = [[q \in Pkts |-> OffIn(queueTheir, q)] EXCEPT ![p] = Absent]
    BY <2>4, <2>5
  <2> QED
    BY <1>1, <1>2, <1>3, <1>4, <2>1, <2>6 DEF Streams!Send, Absent
<1> QED
  BY <1>6, <1>7

LEMMA StreamsStep == Shape /\ [Next]_vars => [Streams!Next]_(Streams!vars)
<1> SUFFICES ASSUME Shape, [Next]_vars PROVE [Streams!Next]_(Streams!vars)
  OBVIOUS
<1>1. ASSUME UNCHANGED <<queueTheir, finished, file>> PROVE UNCHANGED Streams!vars
  BY <1>1 DEF Streams!vars
<1>2. ASSUME NEW p \in Pkts, NEW off \in 0..Size[p], RecvFreq(p, off)
      PROVE  [Streams!Next]_(Streams!vars)
  <2>1. CASE p \in Served
    <3>1. Streams!Request(p, off)
      BY <1>2, <2>1, StreamsFreq
    <3> QED
      BY <3>1 DEF Streams!Next
  <2>2. CASE p \notin Served
    BY <1>1, <1>2, <2>2 DEF RecvFreq
  <2> QED
    BY <2>1, <2>2
<1>3. CASE Advance
  <2>1. PICK p \in Pkts : p = current.pkt
    BY <1>3, AdvanceMoves DEF Shape
  <2>2. Streams!Send(p)
    BY <1>3, <2>1, StreamsAdvance
  <2> QED
    BY <2>1, <2>2 DEF Streams!Next
<1> QED
  BY <1>1, <1>2, <1>3 DEF Next, Pick, vars

\* Whatever its order, and however insertions move the entry the sender is at
\* work on, the queue sends what was requested and in order.
THEOREM QueueSendsStreams == Spec => SendsStreams
  BY ShapeCorrect, StreamsInit, StreamsStep, PTL
     DEF Spec, SendsStreams, Streams!Spec

-----------------------------------------------------------------------------
(* What interrupts a packet that is being sent *)

\* All that is before q's entry is nicer, unless that is the last one.
Ahead(q) ==
    \A i \in 1..Len(queueTheir) - 1 :
        queueTheir[i].pkt = q => \A j \in 1..i - 1 : NiceAt(j) < NiceAt(i)
Queued(q) == \E i \in 1..Len(queueTheir) : queueTheir[i].pkt = q

\* What the sender has looked at, and not yet sent, is not behind what it has
\* sent last.
Serving ==
    /\ current # NoEntry => Ahead(current.pkt)
    /\ file # NoEntry =>
         /\ Ahead(file.pkt) /\ file.pkt \in asked
         /\ file.pkt \in finished \/ Queued(file.pkt)
    /\ current # NoEntry /\ file # NoEntry =>
         \A i, c \in 1..Len(queueTheir) :
            queueTheir[i].pkt = file.pkt /\ queueTheir[c].pkt = current.pkt => c <= i

LEMMA ServingInit == Init => Serving
  BY DEF Init, Serving

LEMMA ServingFreq ==
    ASSUME Shape, Serving,
           NEW p \in Pkts, NEW off \in 0..Size[p], RecvFreq(p, off), p \in Served
    PROVE  Serving'
<1> USE QueueAssumption
<1>0. TypeOK /\ OneEntry /\ CurrentQueued
  BY DEF Shape
<1>1. PICK k \in 1..Len(queueTheir) + 1 :
             /\ InsertPos(k, Nice[p])
             /\ Len(queueTheir') = Len(queueTheir) + 1
             /\ \A i \in 1..Len(queueTheir) + 1 :
                  queueTheir'[i] = IF i < k THEN queueTheir[i]
                                   ELSE IF i = k THEN Entry(p, off)
                                   ELSE queueTheir[i - 1]
  BY <1>0, FreqInserts
<1>2. /\ queueTheir \in Seq(Entries) /\ Len(queueTheir) \in Nat /\ Nice[p] \in Nat
      /\ \A i \in 1..Len(queueTheir) : NiceAt(i) \in Nat
  <2>1. queueTheir \in Seq(Entries)
    BY <1>0 DEF TypeOK
  <2>2. \A i \in 1..Len(queueTheir) : queueTheir[i] \in Entries
    BY <2>1
  <2> QED
    BY <2>1, <2>2 DEF Entries, NiceAt
<1>3. \A i \in 1..Len(queueTheir) + 1 :
        NiceAt(i)' = IF i < k THEN NiceAt(i) ELSE IF i = k THEN Nice[p] ELSE NiceAt(i - 1)
  BY <1>1, <1>2 DEF NiceAt, Entry
<1>4. /\ k < Len(queueTheir) => NiceAt(k) > Nice[p]
      /\ Len(queueTheir) > 0 => k <= Len(queueTheir)
  BY <1>1, <1>2, EmptySeq DEF InsertPos
<1>5. p \notin asked /\ asked' = asked \cup {p} /\ UNCHANGED <<current, finished, file>>
  BY DEF RecvFreq
<1>6. ASSUME NEW i \in 1..Len(queueTheir'), queueTheir'[i].pkt # p
      PROVE  \E j \in 1..Len(queueTheir) :
               /\ i # k /\ queueTheir'[i].pkt = queueTheir[j].pkt
               /\ j = IF i < k THEN i ELSE i - 1
  BY <1>1, <1>2, <1>6 DEF Entry
<1>7. ASSUME NEW q, q # p, Ahead(q) PROVE Ahead(q)'
  <2> SUFFICES ASSUME NEW i \in 1..Len(queueTheir') - 1, queueTheir'[i].pkt = q,
                      NEW j \in 1..i - 1
               PROVE  NiceAt(j)' < NiceAt(i)'
    BY DEF Ahead
  <2>1. i \in 1..Len(queueTheir) /\ i \in 1..Len(queueTheir') /\ j \in 1..Len(queueTheir)
    BY <1>1, <1>2
  <2>2. PICK o \in 1..Len(queueTheir) :
          i # k /\ queueTheir[o].pkt = q /\ o = IF i < k THEN i ELSE i - 1
    BY <1>6, <1>7, <2>1
  <2>3. /\ o \in 1..Len(queueTheir) - 1
        /\ NiceAt(i)' = NiceAt(o) /\ NiceAt(o) \in Nat
    <3>1. k \in Nat /\ k <= Len(queueTheir) /\ i \in Nat /\ i <= Len(queueTheir)
      BY <1>2, <1>4, <2>1, <2>2
    <3>2. o <= Len(queueTheir) - 1
      BY <1>2, <2>2, <3>1
    <3>3. i \in 1..Len(queueTheir) + 1
      BY <1>2, <2>1
    <3>4. NiceAt(i)' = NiceAt(o)
      BY <1>3, <2>2, <3>1, <3>3
    <3> QED
      BY <1>2, <2>2, <3>2, <3>4
  <2>4. \A m \in 1..o - 1 : NiceAt(m) < NiceAt(o)
    BY <1>7, <2>2, <2>3 DEF Ahead
  <2>5. CASE j < k
    <3>1. NiceAt(j)' = NiceAt(j) /\ j \in 1..o - 1
      BY <1>3, <2>1, <2>2, <2>5
    <3> QED
      BY <2>3, <2>4, <3>1
  <2>6. CASE j = k
    <3>1. NiceAt(j)' = Nice[p] /\ k \in 1..o /\ k < Len(queueTheir)
      BY <1>2, <1>3, <2>1, <2>2, <2>3, <2>6
    <3>2. Nice[p] < NiceAt(k) /\ NiceAt(k) \in Nat
      BY <1>2, <1>4, <3>1
    <3>3. k = o \/ k \in 1..o - 1
      BY <3>1
    <3> QED
      BY <1>2, <2>3, <2>4, <3>1, <3>2, <3>3
  <2>7. CASE j > k
    <3>1. NiceAt(j)' = NiceAt(j - 1) /\ j - 1 \in 1..o - 1
      BY <1>3, <2>1, <2>2, <2>7
    <3> QED
      BY <2>3, <2>4, <3>1
  <2> QED
    BY <2>1, <2>5, <2>6, <2>7
<1>8. ASSUME NEW q, Queued(q) PROVE Queued(q)'
  <2>1. PICK i \in 1..Len(queueTheir) : queueTheir[i].pkt = q
    BY <1>8 DEF Queued
  <2>2. CASE i < k
    BY <1>1, <1>2, <2>1, <2>2 DEF Queued
  <2>3. CASE i >= k
    <3>1. i + 1 \in 1..Len(queueTheir') /\ queueTheir'[i + 1] = queueTheir[i]
      BY <1>1, <1>2, <2>3
    <3> QED
      BY <2>1, <3>1 DEF Queued
  <2> QED
    BY <1>2, <2>2, <2>3
<1>9. current # NoEntry => current.pkt # p
  BY <1>0, <1>5 DEF CurrentQueued, OneEntry
<1>10. file # NoEntry => file.pkt # p
  BY <1>5 DEF Serving
<1>11. ASSUME current # NoEntry, file # NoEntry,
              NEW i \in 1..Len(queueTheir'), NEW c \in 1..Len(queueTheir'),
              queueTheir'[i].pkt = file.pkt, queueTheir'[c].pkt = current.pkt
       PROVE  c <= i
  <2>1. PICK a \in 1..Len(queueTheir) :
          i # k /\ queueTheir[a].pkt = file.pkt /\ a = IF i < k THEN i ELSE i - 1
    BY <1>6, <1>10, <1>11
  <2>2. PICK b \in 1..Len(queueTheir) :
          c # k /\ queueTheir[b].pkt = current.pkt /\ b = IF c < k THEN c ELSE c - 1
    BY <1>6, <1>9, <1>11
  <2>3. b <= a
    BY <1>11, <2>1, <2>2 DEF Serving
  <2> QED
    BY <2>1, <2>2, <2>3
<1> QED
  BY <1>5, <1>7, <1>8, <1>9, <1>10, <1>11 DEF Serving

LEMMA ServingAdvance == ASSUME Shape, Serving, Advance PROVE Serving'
<1> USE QueueAssumption
<1>0. TypeOK /\ OneEntry /\ CurrentQueued
  BY DEF Shape
<1> DEFINE end == current.off + ChunkLen(current.pkt, current.off)
<1>1. current' = NoEntry /\ asked' = asked /\ file' = current /\ current # NoEntry
  BY DEF Advance
<1>2. PICK q \in Pkts, k \in 1..Len(queueTheir) :
        /\ q = current.pkt /\ queueTheir[k] = current
        /\ \/ /\ queueTheir' = [queueTheir EXCEPT ![k] = Entry(q, end)]
              /\ finished' = finished
           \/ /\ finished' = finished \cup {q}
              /\ Len(queueTheir') = Len(queueTheir) - 1
              /\ \A i \in 1..Len(queueTheir) - 1 :
                   queueTheir'[i] = IF i < k THEN queueTheir[i] ELSE queueTheir[i + 1]
  BY <1>0, AdvanceMoves
<1> HIDE DEF end
<1>3. queueTheir \in Seq(Entries) /\ Len(queueTheir) \in Nat
  BY <1>0 DEF TypeOK
<1>4. q \in asked /\ Ahead(q) /\ queueTheir[k].pkt = q
  BY <1>0, <1>1, <1>2 DEF OneEntry, Serving
<1>5. Ahead(q)' /\ (q \in finished' \/ Queued(q)')
  <2>1. CASE queueTheir' = [queueTheir EXCEPT ![k] = Entry(q, end)]
    <3>1. Len(queueTheir') = Len(queueTheir)
      BY <1>3, <2>1
    <3>2. ASSUME NEW i \in 1..Len(queueTheir)
          PROVE  queueTheir'[i].pkt = queueTheir[i].pkt /\ NiceAt(i)' = NiceAt(i)
      BY <1>3, <1>4, <2>1 DEF Entry, NiceAt
    <3>3. ASSUME NEW i \in 1..Len(queueTheir) - 1, queueTheir'[i].pkt = q,
                 NEW j \in 1..i - 1
          PROVE  NiceAt(j)' < NiceAt(i)'
      <4>1. i \in 1..Len(queueTheir) /\ j \in 1..Len(queueTheir)
        BY <1>3
      <4> QED
        BY <1>4, <3>2, <3>3, <4>1 DEF Ahead
    <3> QED
      BY <1>4, <3>1, <3>2, <3>3 DEF Ahead, Queued
  <2>2. CASE /\ finished' = finished \cup {q}
             /\ Len(queueTheir') = Len(queueTheir) - 1
             /\ \A i \in 1..Len(queueTheir) - 1 :
                  queueTheir'[i] = IF i < k THEN queueTheir[i] ELSE queueTheir[i + 1]
    <3>1. ASSUME NEW i \in 1..Len(queueTheir') PROVE queueTheir'[i].pkt # q
      <4>1. \E j \in 1..Len(queueTheir) : j # k /\ queueTheir'[i] = queueTheir[j]
        <5>0. /\ i \in Nat /\ k \in Nat /\ i \in 1..Len(queueTheir) /\ i + 1 \in 1..Len(queueTheir)
              /\ queueTheir'[i] = IF i < k THEN queueTheir[i] ELSE queueTheir[i + 1]
          BY <1>3, <2>2
        <5>1. CASE i < k
          BY <5>0, <5>1
        <5>2. CASE i >= k
          <6>1. i + 1 # k /\ queueTheir'[i] = queueTheir[i + 1]
            BY <5>0, <5>2
          <6> QED
            BY <5>0, <6>1
        <5> QED
          <6>1. i < k \/ i >= k
            BY <5>0
          <6> QED
            BY <5>1, <5>2, <6>1
      <4> QED
        BY <1>0, <1>4, <4>1 DEF OneEntry
    <3>2. \A i \in 1..Len(queueTheir') - 1 : i \in 1..Len(queueTheir')
      BY <1>3, <2>2
    <3> QED
      BY <2>2, <3>1, <3>2 DEF Ahead
  <2> QED
    BY <1>2, <2>1, <2>2
<1> QED
  BY <1>1, <1>2, <1>4, <1>5 DEF Serving

LEMMA ServingStep == Shape /\ Serving /\ [Next]_vars => Serving'
<1> SUFFICES ASSUME Shape, Serving, [Next]_vars PROVE Serving'
  OBVIOUS
<1>1. ASSUME UNCHANGED <<queueTheir, current, finished, file>>, asked \subseteq asked'
      PROVE  Serving'
  BY <1>1 DEF Serving, Ahead, Queued, NiceAt
<1>2. ASSUME NEW p \in Pkts, NEW off \in 0..Size[p], RecvFreq(p, off)
      PROVE  Serving'
  <2>1. CASE p \in Served
    BY <1>2, <2>1, ServingFreq
  <2>2. CASE p \notin Served
    BY <1>1, <1>2, <2>2 DEF RecvFreq
  <2> QED
    BY <2>1, <2>2
<1>3. CASE Pick
  <2>1. /\ current' = queueTheir[1] /\ UNCHANGED <<asked, queueTheir, finished, file>>
        /\ Len(queueTheir) \in Nat /\ 1 \in 1..Len(queueTheir) /\ OneEntry
    BY <1>3, EmptySeq DEF Pick, Shape, TypeOK
  <2>2. PICK q : q = queueTheir[1].pkt
    OBVIOUS
  <2>3. \A c \in 1..Len(queueTheir) : queueTheir[c].pkt = q => c = 1
    BY <2>1, <2>2 DEF OneEntry
  <2>4. Ahead(q)
    BY <2>1, <2>3 DEF Ahead
  <2>5. Ahead(q)' /\ current'.pkt = q
    BY <2>1, <2>2, <2>4 DEF Ahead, NiceAt
  <2>6. file # NoEntry => /\ Ahead(file.pkt)' /\ file.pkt \in asked
                          /\ file.pkt \in finished \/ Queued(file.pkt)'
    BY <2>1 DEF Serving, Ahead, Queued, NiceAt
  <2> QED
    BY <2>1, <2>3, <2>5, <2>6 DEF Serving
<1>4. CASE Advance
  BY <1>4, ServingAdvance
<1> QED
  BY <1>1, <1>2, <1>3, <1>4 DEF Next, vars

\* However many FREQs arrive while the sender reads and sends: a packet of
\* which a chunk was sent is interrupted only by a nicer one, or when it is the
\* last entry, before which ProcessSP's loop puts whatever arrives.
THEOREM InterruptedForNicer == Spec => OnlyForNicer
<1>1. Shape /\ Serving /\ [Next]_vars =>
        [/\ file # NoEntry /\ file' # file
         /\ file.pkt \notin finished /\ file'.pkt # file.pkt
         => \/ Nice[file'.pkt] < Nice[file.pkt]
            \/ queueTheir[Len(queueTheir)].pkt = file.pkt]_vars
  <2> SUFFICES ASSUME Shape, Serving, [Next]_vars, file # NoEntry, file' # file,
                      file.pkt \notin finished, file'.pkt # file.pkt,
                      queueTheir[Len(queueTheir)].pkt # file.pkt
               PROVE  Nice[file'.pkt] < Nice[file.pkt]
    OBVIOUS
  <2>1. Advance
    BY DEF Next, RecvFreq, Pick, vars
  <2>2. file' = current /\ current # NoEntry
    BY <2>1 DEF Advance
  <2>3. PICK i \in 1..Len(queueTheir) : queueTheir[i].pkt = file.pkt
    BY DEF Serving, Queued
  <2>4. PICK c \in 1..Len(queueTheir) : queueTheir[c] = current
    BY <2>2 DEF Shape, CurrentQueued
  <2>5. c <= i /\ Ahead(file.pkt)
    BY <2>2, <2>3, <2>4 DEF Serving
  <2>6. i \in 1..Len(queueTheir) - 1 /\ c \in 1..i - 1
    BY <2>2, <2>3, <2>4, <2>5 DEF Shape, TypeOK
  <2>7. NiceAt(c) < NiceAt(i)
    BY <2>3, <2>5, <2>6 DEF Ahead
  <2> QED
    BY <2>2, <2>3, <2>4, <2>7 DEF NiceAt
<1> QED
  BY <1>1, ShapeCorrect, ServingInit, ServingStep, PTL DEF Spec, OnlyForNicer
=============================================================================
