--------------------------- MODULE AreaTossProofs ---------------------------
(***************************************************************************)
(* Proofs about AreaToss, for every network of nodes and subscriptions:    *)
(* types, and that no copy of an area message is given up before all that  *)
(* it was to be done with it is done.                                      *)
(***************************************************************************)
EXTENDS AreaToss, TLAPS

USE AreaAssumption

(* TypeOK, with the part that spans two variables apart *)

TypeSpool ==
    /\ inbox \in [Nodes -> [Nodes -> Nat]]
    /\ removed \in [Nodes -> [Nodes -> Nat]]
    /\ seen \in [Nodes -> SUBSET Nodes]
TypeTosser ==
    /\ at \in [Nodes -> [Nodes -> Stages]]
    /\ echo \in [Nodes -> [Nodes -> Nodes \cup {None}]]
TypeEcho ==
    \A n, s \in Nodes : at[n][s] \in {"send", "mark"} => echo[n][s] \in Subs[n]
TypeOutput ==
    /\ sent \in [Nodes -> [Nodes -> Nat]]
    /\ read \in [Nodes -> Nat]
TypeRest ==
    /\ posting \in {"no", "committed", "done"}
    /\ troubles \in 0..MaxTroubles

LEMMA TypeParts ==
    TypeOK <=> TypeSpool /\ TypeTosser /\ TypeEcho /\ TypeOutput /\ TypeRest
  BY DEF TypeOK, TypeSpool, TypeTosser, TypeEcho, TypeOutput, TypeRest

LEMMA TypeTogether ==
    ASSUME TypeSpool', TypeTosser', TypeEcho', TypeOutput', TypeRest'
    PROVE  TypeOK'
  BY DEF TypeOK, TypeSpool, TypeTosser, TypeEcho, TypeOutput, TypeRest

\* A directory that is being tossed has a copy in it.
Carried == \A n, s \in Nodes : at[n][s] # "idle" => inbox[n][s] > 0

LEMMA AreaTypeInit == Init => TypeOK
<1> SUFFICES ASSUME Init PROVE TypeOK
  OBVIOUS
<1>1. TypeSpool
  BY DEF Init, Each, TypeSpool
<1>2. TypeTosser
  BY DEF Init, Each, TypeTosser, Stages
<1>3. TypeEcho
  BY DEF Init, Each, TypeEcho
<1>4. TypeOutput
  BY DEF Init, Each, TypeOutput
<1>5. TypeRest
  BY DEF Init, TypeRest
<1> QED
  BY <1>1, <1>2, <1>3, <1>4, <1>5, TypeParts

LEMMA AreaTypeStep == TypeOK /\ Carried /\ [Next]_vars => TypeOK'
<1> SUFFICES ASSUME TypeOK, Carried, [Next]_vars PROVE TypeOK'
  OBVIOUS
<1>0. TypeSpool /\ TypeTosser /\ TypeEcho /\ TypeOutput /\ TypeRest
  BY TypeParts
<1>1. CASE Post
  <2>1. TypeSpool' BY <1>0, <1>1 DEF Post, TypeSpool
  <2>2. TypeTosser' BY <1>0, <1>1 DEF Post, tosser, TypeTosser
  <2>3. TypeEcho' BY <1>0, <1>1 DEF Post, tosser, TypeEcho
  <2>4. TypeOutput' BY <1>0, <1>1 DEF Post, output, TypeOutput
  <2>5. TypeRest' BY <1>0, <1>1 DEF Post, TypeRest
  <2> QED BY <2>1, <2>2, <2>3, <2>4, <2>5, TypeTogether
<1>2. CASE PostSeen
  <2>1. TypeSpool' BY <1>0, <1>2 DEF PostSeen, TypeSpool
  <2>2. TypeTosser' BY <1>0, <1>2 DEF PostSeen, tosser, TypeTosser
  <2>3. TypeEcho' BY <1>0, <1>2 DEF PostSeen, tosser, TypeEcho
  <2>4. TypeOutput' BY <1>0, <1>2 DEF PostSeen, output, TypeOutput
  <2>5. TypeRest' BY <1>0, <1>2 DEF PostSeen, TypeRest
  <2> QED BY <2>1, <2>2, <2>3, <2>4, <2>5, TypeTogether
<1>3. CASE PostStop
  <2>1. TypeSpool' BY <1>0, <1>3 DEF PostStop, spool, TypeSpool
  <2>2. TypeTosser' BY <1>0, <1>3 DEF PostStop, tosser, TypeTosser
  <2>3. TypeEcho' BY <1>0, <1>3 DEF PostStop, tosser, TypeEcho
  <2>4. TypeOutput' BY <1>0, <1>3 DEF PostStop, output, TypeOutput
  <2>5. TypeRest' BY <1>0, <1>3 DEF PostStop, Trouble, TypeRest
  <2> QED BY <2>1, <2>2, <2>3, <2>4, <2>5, TypeTogether
<1>4. ASSUME NEW n \in Nodes, NEW s \in Nodes, Begin(n, s) PROVE TypeOK'
  <2>1. TypeSpool' BY <1>0, <1>4 DEF Begin, spool, TypeSpool
  <2>2. TypeTosser' BY <1>0, <1>4 DEF Begin, Step, TypeTosser, Stages
  <2>3. TypeEcho' BY <1>0, <1>4 DEF Begin, Step, TypeEcho, TypeTosser
  <2>4. TypeOutput' BY <1>0, <1>4 DEF Begin, output, TypeOutput
  <2>5. TypeRest' BY <1>0, <1>4 DEF Begin, TypeRest
  <2> QED BY <2>1, <2>2, <2>3, <2>4, <2>5, TypeTogether
<1>5. ASSUME NEW n \in Nodes, NEW s \in Nodes, Pass(n, s) PROVE TypeOK'
  <2>1. TypeSpool' BY <1>0, <1>5 DEF Pass, spool, TypeSpool
  <2>2. TypeTosser'
    <3>1. CASE \E x \in Unserved(n) : /\ Step(n, s, "pass", Target(n, s, x))
                                      /\ echo' = [echo EXCEPT ![n][s] = x]
      BY <1>0, <3>1 DEF Unserved, Step, Target, TypeTosser, Stages
    <3>2. CASE Step(n, s, "pass", Own(n)) /\ UNCHANGED echo
      BY <1>0, <3>2 DEF Step, Own, TypeTosser, Stages
    <3> QED BY <1>5, <3>1, <3>2 DEF Pass
  <2>3. TypeEcho'
    <3>1. CASE \E x \in Unserved(n) : /\ Step(n, s, "pass", Target(n, s, x))
                                      /\ echo' = [echo EXCEPT ![n][s] = x]
      BY <1>0, <3>1 DEF Unserved, Step, TypeTosser, TypeEcho
    <3>2. CASE Step(n, s, "pass", Own(n)) /\ UNCHANGED echo
      BY <1>0, <3>2 DEF Step, Own, TypeTosser, TypeEcho
    <3> QED BY <1>5, <3>1, <3>2 DEF Pass
  <2>4. TypeOutput' BY <1>0, <1>5 DEF Pass, output, TypeOutput
  <2>5. TypeRest' BY <1>0, <1>5 DEF Pass, TypeRest
  <2> QED BY <2>1, <2>2, <2>3, <2>4, <2>5, TypeTogether
<1>6. ASSUME NEW n \in Nodes, NEW s \in Nodes, Send(n, s) PROVE TypeOK'
  <2>0. PICK x \in Nodes : x = echo[n][s]
    BY <1>0, <1>6 DEF Send, Step, TypeEcho
  <2>1. TypeSpool' BY <1>0, <1>6, <2>0 DEF Send, TypeSpool
  <2>2. TypeTosser' BY <1>0, <1>6 DEF Send, Step, TypeTosser, Stages
  <2>3. TypeEcho' BY <1>0, <1>6 DEF Send, Step, TypeEcho, TypeTosser
  <2>4. TypeOutput' BY <1>0, <1>6, <2>0 DEF Send, TypeOutput
  <2>5. TypeRest' BY <1>0, <1>6 DEF Send, TypeRest
  <2> QED BY <2>1, <2>2, <2>3, <2>4, <2>5, TypeTogether
<1>7. ASSUME NEW n \in Nodes, NEW s \in Nodes, Mark(n, s) PROVE TypeOK'
  <2>0. PICK x \in Nodes : x = echo[n][s]
    BY <1>0, <1>7 DEF Mark, Step, TypeEcho
  <2>1. TypeSpool' BY <1>0, <1>7, <2>0 DEF Mark, Marked, TypeSpool
  <2>2. TypeTosser' BY <1>0, <1>7 DEF Mark, Step, TypeTosser, Stages
  <2>3. TypeEcho' BY <1>0, <1>7 DEF Mark, Step, TypeEcho, TypeTosser
  <2>4. TypeOutput' BY <1>0, <1>7 DEF Mark, output, TypeOutput
  <2>5. TypeRest' BY <1>0, <1>7 DEF Mark, TypeRest
  <2> QED BY <2>1, <2>2, <2>3, <2>4, <2>5, TypeTogether
<1>8. ASSUME NEW n \in Nodes, NEW s \in Nodes, Read(n, s) PROVE TypeOK'
  <2>1. TypeSpool' BY <1>0, <1>8 DEF Read, spool, TypeSpool
  <2>2. TypeTosser' BY <1>0, <1>8 DEF Read, Step, TypeTosser, Stages
  <2>3. TypeEcho' BY <1>0, <1>8 DEF Read, Step, TypeEcho, TypeTosser
  <2>4. TypeOutput' BY <1>0, <1>8 DEF Read, TypeOutput
  <2>5. TypeRest' BY <1>0, <1>8 DEF Read, TypeRest
  <2> QED BY <2>1, <2>2, <2>3, <2>4, <2>5, TypeTogether
<1>9. ASSUME NEW n \in Nodes, NEW s \in Nodes, MarkSelf(n, s) PROVE TypeOK'
  <2>1. TypeSpool' BY <1>0, <1>9 DEF MarkSelf, Marked, TypeSpool
  <2>2. TypeTosser' BY <1>0, <1>9 DEF MarkSelf, Step, TypeTosser, Stages
  <2>3. TypeEcho' BY <1>0, <1>9 DEF MarkSelf, Step, TypeEcho, TypeTosser
  <2>4. TypeOutput' BY <1>0, <1>9 DEF MarkSelf, output, TypeOutput
  <2>5. TypeRest' BY <1>0, <1>9 DEF MarkSelf, Trouble, TypeRest
  <2> QED BY <2>1, <2>2, <2>3, <2>4, <2>5, TypeTogether
<1>10. ASSUME NEW n \in Nodes, NEW s \in Nodes, Remove(n, s) PROVE TypeOK'
  <2>0. inbox[n][s] \in Nat /\ inbox[n][s] > 0
    BY <1>0, <1>10 DEF Remove, Step, TypeSpool, Carried
  <2>1. TypeSpool' BY <1>0, <1>10, <2>0 DEF Remove, TypeSpool
  <2>2. TypeTosser' BY <1>0, <1>10 DEF Remove, Step, TypeTosser, Stages
  <2>3. TypeEcho' BY <1>0, <1>10 DEF Remove, Step, TypeEcho, TypeTosser
  <2>4. TypeOutput' BY <1>0, <1>10 DEF Remove, output, TypeOutput
  <2>5. TypeRest' BY <1>0, <1>10 DEF Remove, TypeRest
  <2> QED BY <2>1, <2>2, <2>3, <2>4, <2>5, TypeTogether
<1>11. ASSUME NEW n \in Nodes, NEW s \in Nodes, Stop(n, s) PROVE TypeOK'
  <2>1. TypeSpool' BY <1>0, <1>11 DEF Stop, spool, TypeSpool
  <2>2. TypeTosser' BY <1>0, <1>11 DEF Stop, TypeTosser, Stages
  <2>3. TypeEcho' BY <1>0, <1>11 DEF Stop, TypeEcho, TypeTosser
  <2>4. TypeOutput' BY <1>0, <1>11 DEF Stop, output, TypeOutput
  <2>5. TypeRest' BY <1>0, <1>11 DEF Stop, Trouble, TypeRest
  <2> QED BY <2>1, <2>2, <2>3, <2>4, <2>5, TypeTogether
<1>12. ASSUME NEW n \in Nodes, Crash(n) PROVE TypeOK'
  <2>1. TypeSpool' BY <1>0, <1>12 DEF Crash, TypeSpool
  <2>2. TypeTosser' BY <1>0, <1>12 DEF Crash, TypeTosser, Stages
  <2>3. TypeEcho' BY <1>0, <1>12 DEF Crash, TypeEcho, TypeTosser
  <2>4. TypeOutput' BY <1>0, <1>12 DEF Crash, output, TypeOutput
  <2>5. TypeRest' BY <1>0, <1>12 DEF Crash, Trouble, TypeRest
  <2> QED BY <2>1, <2>2, <2>3, <2>4, <2>5, TypeTogether
<1>13. CASE UNCHANGED vars
  BY <1>13 DEF vars, spool, tosser, output, TypeOK
<1> QED
  BY <1>1, <1>2, <1>3, <1>4, <1>5, <1>6, <1>7, <1>8, <1>9, <1>10, <1>11, <1>12,
     <1>13 DEF Next, Toss, JobProcess
-----------------------------------------------------------------------------
(* What a node has done when it gives up a copy *)

\* All that n has to do with the message is done.
Done(n) == /\ \A x \in Subs[n] : Shared(n, x)
           /\ n \in Keys \ {Author} => read[n] > 0

\* Copies come from those who have sent them.
Sourced ==
    \A n, s \in Nodes :
        n # s /\ (inbox[n][s] > 0 \/ removed[n][s] > 0) => sent[s][n] > 0

\* A file of a subscriber stands for a copy shared with him, the node's own
\* file for the message read.
Truthful ==
    \A n \in Nodes :
        /\ \A x \in Subs[n] \cap seen[n] : Shared(n, x)
        /\ n \in seen[n] /\ n \in Keys \ {Author} => read[n] > 0

\* Tosses know what they are about to put down.
Founded ==
    \A n, s \in Nodes :
        /\ at[n][s] = "mark" => Shared(n, echo[n][s])
        /\ at[n][s] \in {"read", "markself", "remove"} =>
             \A x \in Subs[n] : Shared(n, x)
        /\ at[n][s] \in {"markself", "remove"} /\ n \in Keys \ {Author} =>
             read[n] > 0

\* What is removed, or was there and is not any more, is done with.
Finished ==
    \A n \in Nodes :
        /\ (\E s \in Nodes : removed[n][s] > 0) => Done(n)
        /\ Had(n) => Done(n) \/ \E s \in Nodes : inbox[n][s] > 0

Relaying == Carried /\ Sourced /\ Truthful /\ Founded /\ Finished

\* Nothing that was sent or read is taken back.
LEMMA Lasting ==
    ASSUME TypeOutput,
           \/ UNCHANGED <<sent, read>>
           \/ \E n, x \in Nodes : /\ sent' = [sent EXCEPT ![n][x] = @ + 1]
                                  /\ UNCHANGED read
           \/ \E n \in Nodes : /\ read' = [read EXCEPT ![n] = @ + 1]
                               /\ UNCHANGED sent
    PROVE  /\ \A n, x \in Nodes : sent[n][x] > 0 => sent'[n][x] > 0
           /\ \A n, x \in Nodes : Shared(n, x) => Shared(n, x)'
           /\ \A n \in Nodes : read[n] > 0 => read'[n] > 0
           /\ \A n \in Nodes : Done(n) => Done(n)'
<1>1. \A n, x \in Nodes : sent[n][x] > 0 => sent'[n][x] > 0
  BY DEF TypeOutput
<1>2. \A n \in Nodes : read[n] > 0 => read'[n] > 0
  BY DEF TypeOutput
<1>3. \A n, x \in Nodes : Shared(n, x) => Shared(n, x)'
  BY <1>1 DEF Shared
<1>4. \A n \in Nodes : Done(n) => Done(n)'
  BY <1>2, <1>3 DEF Done
<1> QED
  BY <1>1, <1>2, <1>3, <1>4

LEMMA RelayingInit == Init => Relaying
<1> SUFFICES ASSUME Init PROVE Relaying
  OBVIOUS
<1>1. Carried /\ Sourced
  BY DEF Init, Each, Carried, Sourced
<1>2. Truthful /\ Founded
  BY DEF Init, Each, Truthful, Founded
<1>3. Finished
  BY DEF Init, Each, Finished, Had
<1> QED
  BY <1>1, <1>2, <1>3 DEF Relaying

LEMMA RelayingStep == TypeOK /\ Relaying /\ [Next]_vars => Relaying'
<1> SUFFICES ASSUME TypeOK, Relaying, [Next]_vars PROVE Relaying'
  OBVIOUS
<1>0. /\ TypeSpool /\ TypeTosser /\ TypeEcho /\ TypeOutput /\ TypeRest
      /\ Carried /\ Sourced /\ Truthful /\ Founded /\ Finished
  BY TypeParts DEF Relaying
<1>1. CASE Post
  <2>0. UNCHANGED <<seen, removed, at, echo, sent, read>>
    BY <1>1 DEF Post, tosser, output
  <2>1. \A n, s \in Nodes : inbox[n][s] > 0 => inbox'[n][s] > 0
    BY <1>0, <1>1 DEF Post, TypeSpool
  <2>2. Carried' BY <1>0, <2>0, <2>1 DEF Carried
  <2>3. Sourced' BY <1>0, <1>1, <2>0 DEF Post, Sourced, TypeSpool
  <2>4. Truthful' /\ Founded' BY <1>0, <2>0 DEF Truthful, Founded, Shared
  <2>5. inbox'[Author][Author] > 0 BY <1>0, <1>1 DEF Post, TypeSpool
  <2>6. Finished'
    BY <1>0, <1>1, <2>0, <2>1, <2>5 DEF Finished, Done, Shared, Had
  <2> QED BY <2>2, <2>3, <2>4, <2>6 DEF Relaying
<1>2. CASE PostSeen
  <2>0. UNCHANGED <<inbox, removed, at, echo, sent, read>>
    BY <1>2 DEF PostSeen, tosser, output
  <2>1. Carried' /\ Sourced' BY <1>0, <2>0 DEF Carried, Sourced
  <2>2. Truthful' BY <1>0, <1>2, <2>0 DEF PostSeen, Truthful, Shared, TypeSpool
  <2>3. Founded' BY <1>0, <2>0 DEF Founded, Shared
  <2>4. Finished' BY <1>0, <1>2, <2>0 DEF PostSeen, Finished, Done, Shared, Had
  <2> QED BY <2>1, <2>2, <2>3, <2>4 DEF Relaying
<1>3. CASE PostStop
  <2>0. UNCHANGED <<inbox, removed, seen, at, echo, sent, read>>
    BY <1>3 DEF PostStop, spool, tosser, output
  <2>1. Carried' /\ Sourced' BY <1>0, <2>0 DEF Carried, Sourced
  <2>2. Truthful' /\ Founded' BY <1>0, <2>0 DEF Truthful, Founded, Shared
  <2>3. Finished' BY <1>0, <1>3, <2>0 DEF PostStop, Finished, Done, Shared, Had
  <2> QED BY <2>1, <2>2, <2>3 DEF Relaying
<1>4. ASSUME NEW n \in Nodes, NEW s \in Nodes, Begin(n, s) PROVE Relaying'
  <2>0. UNCHANGED <<posting, inbox, removed, seen, sent, read>>
    BY <1>4 DEF Begin, spool, output
  <2>1. Carried' BY <1>0, <1>4, <2>0 DEF Begin, Step, Carried, TypeTosser
  <2>2. Sourced' /\ Truthful' BY <1>0, <2>0 DEF Sourced, Truthful, Shared
  <2>3. Founded' BY <1>0, <1>4, <2>0 DEF Begin, Step, Founded, Shared, TypeTosser
  <2>4. Finished' BY <1>0, <2>0 DEF Finished, Done, Shared, Had
  <2> QED BY <2>1, <2>2, <2>3, <2>4 DEF Relaying
<1>5. ASSUME NEW n \in Nodes, NEW s \in Nodes, Pass(n, s) PROVE Relaying'
  <2>0. UNCHANGED <<posting, inbox, removed, seen, sent, read>>
    BY <1>5 DEF Pass, spool, output
  <2>1. /\ at[n][s] = "pass"
        /\ \A m, r \in Nodes : ~(m = n /\ r = s) => /\ at'[m][r] = at[m][r]
                                                    /\ echo'[m][r] = echo[m][r]
    BY <1>0, <1>5 DEF Pass, Step, TypeTosser
  <2>2. Carried' BY <1>0, <2>0, <2>1 DEF Carried
  <2>3. Sourced' /\ Truthful' BY <1>0, <2>0 DEF Sourced, Truthful, Shared
  <2>4. Founded'
    <3>1. inbox[n][s] > 0
      BY <1>0, <2>1 DEF Carried
    <3>2. CASE \E x \in Unserved(n) : /\ Step(n, s, "pass", Target(n, s, x))
                                      /\ echo' = [echo EXCEPT ![n][s] = x]
      <4>1. PICK x \in Subs[n] : /\ at'[n][s] = Target(n, s, x)
                                 /\ echo'[n][s] = x
        BY <1>0, <3>2 DEF Unserved, Step, TypeTosser
      <4>2. x = s => Shared(n, x)
        BY <1>0, <3>1, <4>1 DEF Sourced, Shared
      <4>3. /\ at'[n][s] = "mark" => Shared(n, echo'[n][s])
            /\ at'[n][s] \notin {"read", "markself", "remove"}
        BY <4>1, <4>2 DEF Target
      <4> QED
        BY <1>0, <2>0, <2>1, <4>3 DEF Founded, Shared
    <3>3. CASE Unserved(n) = {} /\ Step(n, s, "pass", Own(n)) /\ UNCHANGED echo
      <4>1. \A x \in Subs[n] : Shared(n, x)
        BY <1>0, <3>3 DEF Unserved, Truthful
      <4>2. at'[n][s] = Own(n)
        BY <1>0, <3>3 DEF Step, TypeTosser
      <4>3. /\ at'[n][s] # "mark"
            /\ at'[n][s] \in {"markself", "remove"} /\ n \in Keys \ {Author}
                 => read[n] > 0
        BY <1>0, <4>2 DEF Own, Truthful
      <4> QED
        BY <1>0, <2>0, <2>1, <4>1, <4>3 DEF Founded, Shared
    <3> QED BY <1>5, <3>2, <3>3 DEF Pass
  <2>5. Finished' BY <1>0, <2>0 DEF Finished, Done, Shared, Had
  <2> QED BY <2>2, <2>3, <2>4, <2>5 DEF Relaying
<1>6. ASSUME NEW n \in Nodes, NEW s \in Nodes, Send(n, s) PROVE Relaying'
  <2>0. UNCHANGED <<posting, removed, seen, echo, read>> /\ at[n][s] = "send"
    BY <1>6 DEF Send, Step
  <2>1. PICK x \in Subs[n] : x = echo[n][s]
    BY <1>0, <2>0 DEF TypeEcho
  <2>2. x \in Nodes /\ x # n
    BY <2>1
  <2>3. /\ sent' = [sent EXCEPT ![n][x] = @ + 1]
        /\ inbox' = [inbox EXCEPT ![x][n] = @ + 1]
    BY <1>6, <2>1 DEF Send
  <2>4. /\ \A m, r \in Nodes : sent[m][r] > 0 => sent'[m][r] > 0
        /\ \A m, r \in Nodes : Shared(m, r) => Shared(m, r)'
        /\ \A m \in Nodes : Done(m) => Done(m)'
    BY <1>0, <2>0, <2>2, <2>3, Lasting
  <2>5. sent'[n][x] > 0 /\ inbox'[x][n] > 0
    BY <1>0, <2>2, <2>3 DEF TypeOutput, TypeSpool
  <2>6. \A m, r \in Nodes : /\ inbox[m][r] > 0 => inbox'[m][r] > 0
                            /\ ~(m = x /\ r = n) => inbox'[m][r] = inbox[m][r]
                            /\ ~(m = n /\ r = x) => sent'[m][r] = sent[m][r]
    BY <1>0, <2>2, <2>3 DEF TypeSpool, TypeOutput
  <2>7. \A m, r \in Nodes : at'[m][r] = IF m = n /\ r = s THEN "mark" ELSE at[m][r]
    BY <1>0, <1>6 DEF Send, Step, TypeTosser
  <2>8. Carried' BY <1>0, <2>0, <2>6, <2>7 DEF Carried
  <2>9. Sourced' BY <1>0, <2>0, <2>4, <2>5, <2>6 DEF Sourced
  <2>10. Truthful' BY <1>0, <2>0, <2>4 DEF Truthful
  <2>11. Shared(n, x)' BY <2>5 DEF Shared
  <2>12. Founded'
    <3> SUFFICES ASSUME NEW m \in Nodes, NEW r \in Nodes
                 PROVE  /\ at'[m][r] = "mark" => Shared(m, echo[m][r])'
                        /\ at'[m][r] \in {"read", "markself", "remove"} =>
                             \A y \in Subs[m] : Shared(m, y)'
                        /\ at'[m][r] \in {"markself", "remove"}
                           /\ m \in Keys \ {Author} => read'[m] > 0
      BY DEF Founded
    <3>1. CASE m = n /\ r = s
      BY <2>0, <2>1, <2>7, <2>11, <3>1
    <3>2. CASE ~(m = n /\ r = s)
      <4>1. at'[m][r] = at[m][r]
        BY <2>7, <3>2
      <4>2. at[m][r] = "mark" => echo[m][r] \in Nodes
        BY <1>0 DEF TypeEcho
      <4> QED
        BY <1>0, <2>0, <2>4, <4>1, <4>2 DEF Founded
    <3> QED BY <3>1, <3>2
  <2>13. Finished'
    <3> SUFFICES ASSUME NEW m \in Nodes
                 PROVE  /\ (\E r \in Nodes : removed'[m][r] > 0) => Done(m)'
                        /\ Had(m)' => Done(m)' \/ \E r \in Nodes : inbox'[m][r] > 0
      BY DEF Finished
    <3>1. (\E r \in Nodes : removed'[m][r] > 0) => Done(m)'
      BY <1>0, <2>0, <2>4 DEF Finished
    <3>2. CASE m = x
      BY <2>5, <3>1, <3>2
    <3>3. CASE m # x
      <4>1. Had(m)' => Had(m)
        BY <2>0, <2>6, <3>3 DEF Had
      <4> QED BY <1>0, <2>4, <2>6, <3>1, <4>1 DEF Finished
    <3> QED BY <3>2, <3>3
  <2> QED BY <2>8, <2>9, <2>10, <2>12, <2>13 DEF Relaying
<1>7. ASSUME NEW n \in Nodes, NEW s \in Nodes, Mark(n, s) PROVE Relaying'
  <2>0. UNCHANGED <<posting, inbox, removed, sent, read>> /\ at[n][s] = "mark"
    BY <1>7 DEF Mark, Step, output
  <2>1. PICK x \in Subs[n] : x = echo[n][s]
    BY <1>0, <2>0 DEF TypeEcho
  <2>2. x \in Nodes /\ x # n /\ Shared(n, x)
    BY <1>0, <2>0, <2>1 DEF Founded
  <2>3. seen' = [seen EXCEPT ![n] = @ \cup {x}]
    BY <1>7, <2>1 DEF Mark, Marked
  <2>4. /\ at'[n][s] \in {"idle", "pass"}
        /\ \A m, r \in Nodes : ~(m = n /\ r = s) => /\ at'[m][r] = at[m][r]
                                                    /\ echo'[m][r] = echo[m][r]
    BY <1>0, <1>7 DEF Mark, Step, TypeTosser
  <2>5. Carried' BY <1>0, <2>0, <2>4 DEF Carried
  <2>6. Sourced' BY <1>0, <2>0 DEF Sourced
  <2>7. Truthful' BY <1>0, <2>0, <2>2, <2>3 DEF Truthful, Shared, TypeSpool
  <2>8. Founded' BY <1>0, <2>0, <2>4 DEF Founded, Shared
  <2>9. Finished' BY <1>0, <2>0 DEF Finished, Done, Shared, Had
  <2> QED BY <2>5, <2>6, <2>7, <2>8, <2>9 DEF Relaying
<1>8. ASSUME NEW n \in Nodes, NEW s \in Nodes, Read(n, s) PROVE Relaying'
  <2>0. UNCHANGED <<posting, inbox, removed, seen, echo, sent>> /\ at[n][s] = "read"
    BY <1>8 DEF Read, Step, spool
  <2>1. read' = [read EXCEPT ![n] = @ + 1]
    BY <1>8 DEF Read
  <2>2. /\ \A m, r \in Nodes : Shared(m, r) => Shared(m, r)'
        /\ \A m \in Nodes : read[m] > 0 => read'[m] > 0
        /\ \A m \in Nodes : Done(m) => Done(m)'
    BY <1>0, <2>0, <2>1, Lasting
  <2>3. read'[n] > 0
    BY <1>0, <2>1 DEF TypeOutput
  <2>4. \A m, r \in Nodes :
           at'[m][r] = IF m = n /\ r = s THEN "markself" ELSE at[m][r]
    BY <1>0, <1>8 DEF Read, Step, TypeTosser
  <2>5. Carried' BY <1>0, <2>0, <2>4 DEF Carried
  <2>6. Sourced' BY <1>0, <2>0 DEF Sourced
  <2>7. Truthful' BY <1>0, <2>0, <2>2 DEF Truthful
  <2>8. Founded'
    <3>1. \A x \in Subs[n] : Shared(n, x)'
      BY <1>0, <2>0, <2>2 DEF Founded
    <3>2. \A m, r \in Nodes : at[m][r] = "mark" => echo[m][r] \in Nodes
      BY <1>0 DEF TypeEcho
    <3> QED BY <1>0, <2>0, <2>2, <2>3, <2>4, <3>1, <3>2 DEF Founded
  <2>9. Finished' BY <1>0, <2>0, <2>2 DEF Finished, Had
  <2> QED BY <2>5, <2>6, <2>7, <2>8, <2>9 DEF Relaying
<1>9. ASSUME NEW n \in Nodes, NEW s \in Nodes, MarkSelf(n, s) PROVE Relaying'
  <2>0. UNCHANGED <<posting, inbox, removed, echo, sent, read>>
        /\ at[n][s] = "markself"
    BY <1>9 DEF MarkSelf, Step, output
  <2>1. seen' = [seen EXCEPT ![n] = @ \cup {n}] \/ UNCHANGED seen
    BY <1>9 DEF MarkSelf, Marked
  <2>2. \A m, r \in Nodes :
           at'[m][r] = IF m = n /\ r = s THEN "remove" ELSE at[m][r]
    BY <1>0, <1>9 DEF MarkSelf, Step, TypeTosser
  <2>3. n \in Keys \ {Author} => read[n] > 0
    BY <1>0, <2>0 DEF Founded
  <2>4. Carried' BY <1>0, <2>0, <2>2 DEF Carried
  <2>5. Sourced' BY <1>0, <2>0 DEF Sourced
  <2>6. Truthful' BY <1>0, <2>0, <2>1, <2>3 DEF Truthful, Shared, TypeSpool
  <2>7. Founded' BY <1>0, <2>0, <2>2 DEF Founded, Shared
  <2>8. Finished' BY <1>0, <2>0 DEF Finished, Done, Shared, Had
  <2> QED BY <2>4, <2>5, <2>6, <2>7, <2>8 DEF Relaying
<1>10. ASSUME NEW n \in Nodes, NEW s \in Nodes, Remove(n, s) PROVE Relaying'
  <2>0. UNCHANGED <<posting, seen, echo, sent, read>> /\ at[n][s] = "remove"
    BY <1>10 DEF Remove, Step, output
  <2>1. Done(n)
    BY <1>0, <2>0 DEF Founded, Done
  <2>2. inbox[n][s] > 0
    BY <1>0, <2>0 DEF Carried
  <2>3. \A m, r \in Nodes :
           /\ ~(m = n /\ r = s) => /\ inbox'[m][r] = inbox[m][r]
                                   /\ removed'[m][r] = removed[m][r]
                                   /\ at'[m][r] = at[m][r]
           /\ m = n /\ r = s => at'[m][r] = "idle"
    BY <1>0, <1>10 DEF Remove, Step, TypeSpool, TypeTosser
  <2>4. Carried' BY <1>0, <2>3 DEF Carried
  <2>5. Sourced' BY <1>0, <2>0, <2>2, <2>3 DEF Sourced
  <2>6. Truthful' BY <1>0, <2>0 DEF Truthful, Shared
  <2>7. Founded' BY <1>0, <2>0, <2>3 DEF Founded, Shared
  <2>8. Finished'
    <3>1. \A m \in Nodes : /\ Done(m)' <=> Done(m)
                           /\ Had(m)' <=> Had(m)
      BY <2>0 DEF Done, Had, Shared
    <3> QED BY <1>0, <2>1, <2>3, <3>1 DEF Finished
  <2> QED BY <2>4, <2>5, <2>6, <2>7, <2>8 DEF Relaying
<1>11. ASSUME NEW n \in Nodes, NEW s \in Nodes, Stop(n, s) PROVE Relaying'
  <2>0. UNCHANGED <<posting, inbox, removed, seen, sent, read>>
    BY <1>11 DEF Stop, spool, output
  <2>1. \A m, r \in Nodes :
           /\ ~(m = n /\ r = s) => /\ at'[m][r] = at[m][r]
                                   /\ echo'[m][r] = echo[m][r]
           /\ m = n /\ r = s => at'[m][r] = "idle"
    BY <1>0, <1>11 DEF Stop, TypeTosser
  <2>2. Carried' BY <1>0, <2>0, <2>1 DEF Carried
  <2>3. Sourced' /\ Truthful' BY <1>0, <2>0 DEF Sourced, Truthful, Shared
  <2>4. Founded' BY <1>0, <2>0, <2>1 DEF Founded, Shared
  <2>5. Finished' BY <1>0, <2>0 DEF Finished, Done, Shared, Had
  <2> QED BY <2>2, <2>3, <2>4, <2>5 DEF Relaying
<1>12. ASSUME NEW n \in Nodes, Crash(n) PROVE Relaying'
  <2>0. UNCHANGED <<sent, read>> /\ (posting' # "no" <=> posting # "no")
    BY <1>12 DEF Crash, output
  <2>1. \A m, r \in Nodes :
           /\ m # n => /\ inbox'[m][r] = inbox[m][r]
                       /\ removed'[m][r] = removed[m][r]
                       /\ at'[m][r] = at[m][r] /\ echo'[m][r] = echo[m][r]
           /\ m = n => /\ at'[m][r] = "idle" /\ removed'[m][r] = 0
                       /\ \/ inbox'[m][r] = inbox[m][r]
                          \/ inbox'[m][r] = inbox[m][r] + removed[m][r]
    BY <1>0, <1>12 DEF Crash, TypeSpool, TypeTosser
  <2>2. \A m \in Nodes : seen'[m] \subseteq seen[m]
    BY <1>0, <1>12 DEF Crash, TypeSpool
  <2>3. \A m, r \in Nodes : /\ inbox[m][r] > 0 => inbox'[m][r] > 0
                            /\ inbox'[m][r] > 0 => inbox[m][r] > 0 \/ removed[m][r] > 0
                            /\ removed'[m][r] > 0 => removed[m][r] > 0
    BY <1>0, <2>1 DEF TypeSpool
  <2>4. Carried' BY <1>0, <2>1, <2>3 DEF Carried
  <2>5. Sourced' BY <1>0, <2>0, <2>3 DEF Sourced
  <2>6. Truthful' BY <1>0, <2>0, <2>2 DEF Truthful, Shared
  <2>7. Founded' BY <1>0, <2>0, <2>1 DEF Founded, Shared
  <2>8. Finished'
    <3>1. \A m \in Nodes : /\ Done(m)' <=> Done(m)
                           /\ Had(m)' <=> Had(m)
      BY <2>0 DEF Done, Had, Shared
    <3> QED BY <1>0, <2>3, <3>1 DEF Finished
  <2> QED BY <2>4, <2>5, <2>6, <2>7, <2>8 DEF Relaying
<1>13. CASE UNCHANGED vars
  <2>0. UNCHANGED <<posting, inbox, removed, seen, at, echo, sent, read>>
    BY <1>13 DEF vars, spool, tosser, output
  <2>1. Carried' /\ Sourced' BY <1>0, <2>0 DEF Carried, Sourced
  <2>2. Truthful' /\ Founded' BY <1>0, <2>0 DEF Truthful, Founded, Shared
  <2>3. Finished' BY <1>0, <2>0 DEF Finished, Done, Shared, Had
  <2> QED BY <2>1, <2>2, <2>3 DEF Relaying
<1> QED
  BY <1>1, <1>2, <1>3, <1>4, <1>5, <1>6, <1>7, <1>8, <1>9, <1>10, <1>11, <1>12,
     <1>13 DEF Next, Toss, JobProcess

\* Together they are inductive: removing a copy takes one from inbox, and that
\* there is one is what Carried says.
LEMMA AreaInvariant == Spec => [](TypeOK /\ Relaying)
<1>1. Init => TypeOK /\ Relaying
  BY AreaTypeInit, RelayingInit
<1>2. TypeOK /\ Relaying /\ [Next]_vars => (TypeOK /\ Relaying)'
  BY AreaTypeStep, RelayingStep DEF Relaying
<1> QED
  BY <1>1, <1>2, PTL DEF Spec

\* Every variable of AreaToss keeps its type: the tosser's echo is always a
\* subscriber, and there is a copy whenever one is removed (toss.go:737-909).
THEOREM AreaTypeCorrect == Spec => []TypeOK
BY AreaInvariant, PTL

\* However many nodes, subscriptions, parallel tosses, failures and crashes: a
\* node that has removed a copy, or has none left, has sent the message to all
\* its subscribers and read it if it can (toss.go:737-909).
THEOREM ServedBeforeRemoved == Spec => []AllServed
<1>1. TypeOK /\ Relaying => AllServed
  <2> SUFFICES ASSUME TypeOK, Relaying, NEW n \in Nodes, WorkedOff(n)
               PROVE  Done(n)
    BY DEF AllServed, Done
  <2>1. CASE \E s \in Nodes : removed[n][s] > 0
    BY <2>1 DEF Relaying, Finished
  <2>2. CASE Had(n) /\ \A s \in Nodes : inbox[n][s] = 0
    BY <2>2 DEF Relaying, Finished
  <2> QED BY <2>1, <2>2 DEF WorkedOff
<1> QED
  BY <1>1, AreaInvariant, PTL

-----------------------------------------------------------------------------
(* How often a message is sent and read *)

\* One directory at a time, but where tosses are parallel.
Alone ==
    \A n \in Nodes \ Parallel : \A r, s \in Nodes :
        at[n][r] # "idle" /\ at[n][s] # "idle" => r = s

\* What is noted, or about to be, accounts for one copy or reading; every
\* other one takes a failure.
SentOnce(n) ==
    \A x \in Nodes :
        /\ sent[n][x] <= 1 + troubles
        /\ \/ sent[n][x] <= troubles
           \/ x \in seen[n]
           \/ \E s \in Nodes : at[n][s] = "mark" /\ echo[n][s] = x
ReadOnceMore(n) ==
    /\ read[n] <= 1 + troubles
    /\ \/ read[n] <= troubles
       \/ n \in seen[n]
       \/ \E s \in Nodes : at[n][s] = "markself"
Before(n) ==
    \A s \in Nodes :
        /\ at[n][s] = "send" => sent[n][echo[n][s]] <= troubles
        /\ at[n][s] = "read" => read[n] <= troubles

Accounted ==
    \A n \in Nodes \ Parallel : SentOnce(n) /\ ReadOnceMore(n) /\ Before(n)

LEMMA AccountedInit == Init => Alone /\ Accounted
<1> SUFFICES ASSUME Init PROVE Alone /\ Accounted
  OBVIOUS
<1>1. Alone
  BY DEF Init, Each, Alone
<1>2. Accounted
  BY DEF Init, Each, Accounted, SentOnce, ReadOnceMore, Before
<1> QED
  BY <1>1, <1>2

LEMMA AloneStep == TypeOK /\ Alone /\ [Next]_vars => Alone'
<1> SUFFICES ASSUME TypeOK, Alone, [Next]_vars PROVE Alone'
  OBVIOUS
<1>0. TypeTosser
  BY TypeParts
<1>1. CASE UNCHANGED at
  BY <1>1 DEF Alone
<1>2. ASSUME NEW n \in Nodes, NEW s \in Nodes, Begin(n, s) PROVE Alone'
  BY <1>0, <1>2 DEF Begin, Step, Alone, TypeTosser
<1>3. ASSUME NEW n \in Nodes, NEW s \in Nodes, at[n][s] # "idle",
             NEW stage, at' = [at EXCEPT ![n][s] = stage]
      PROVE  Alone'
  BY <1>0, <1>3 DEF Alone, TypeTosser
<1>4. ASSUME NEW n \in Nodes, NEW s \in Nodes, JobProcess(n, s) \/ Stop(n, s)
      PROVE  /\ at[n][s] # "idle"
             /\ \E stage : at' = [at EXCEPT ![n][s] = stage]
  BY <1>4 DEF JobProcess, Pass, Send, Mark, Read, MarkSelf, Remove, Stop, Step
<1>5. ASSUME NEW n \in Nodes, NEW s \in Nodes, JobProcess(n, s) \/ Stop(n, s)
      PROVE  Alone'
  BY <1>3, <1>4, <1>5
<1>6. ASSUME NEW n \in Nodes, Crash(n) PROVE Alone'
  BY <1>0, <1>6 DEF Crash, Alone, TypeTosser
<1>7. ASSUME Post \/ PostSeen \/ PostStop \/ UNCHANGED vars PROVE UNCHANGED at
  BY <1>7 DEF Post, PostSeen, PostStop, vars, tosser
<1> QED
  BY <1>1, <1>2, <1>5, <1>6, <1>7 DEF Next, Toss

\* Other nodes' steps, and failures, leave a node's account in order.
LEMMA AccountFrame ==
    ASSUME NEW n \in Nodes \ Parallel, TypeOutput, TypeTosser, TypeEcho, TypeRest,
           SentOnce(n), ReadOnceMore(n), Before(n),
           sent'[n] = sent[n], read'[n] = read[n], seen[n] \subseteq seen'[n],
           at'[n] = at[n], echo'[n] = echo[n],
           troubles' \in Nat, troubles' >= troubles
    PROVE  SentOnce(n)' /\ ReadOnceMore(n)' /\ Before(n)'
<1>1. \A x \in Nodes : sent[n][x] \in Nat /\ read[n] \in Nat /\ troubles \in Nat
  BY DEF TypeOutput, TypeRest
<1>2. SentOnce(n)'
  BY <1>1 DEF SentOnce
<1>3. ReadOnceMore(n)'
  BY <1>1 DEF ReadOnceMore
<1>4. Before(n)'
  <2>1. \A s \in Nodes : at[n][s] = "send" => echo[n][s] \in Nodes
    BY DEF TypeEcho
  <2> QED BY <1>1, <2>1 DEF Before
<1> QED
  BY <1>2, <1>3, <1>4

\* A failure settles what had not been noted.
LEMMA AccountSettled ==
    ASSUME NEW n \in Nodes \ Parallel, TypeOutput, TypeRest, SentOnce(n),
           ReadOnceMore(n), sent'[n] = sent[n], read'[n] = read[n],
           troubles' = troubles + 1
    PROVE  /\ \A x \in Nodes : sent'[n][x] <= troubles'
           /\ read'[n] <= troubles'
  BY DEF TypeOutput, TypeRest, SentOnce, ReadOnceMore

\* The step of a node's toss that was at the given stage: nothing else is
\* going on at that node.
LEMMA OnlyToss ==
    ASSUME Alone, NEW n \in Nodes \ Parallel, NEW s \in Nodes, at[n][s] # "idle"
    PROVE  \A r \in Nodes : at[n][r] # "idle" => r = s
  BY DEF Alone

LEMMA AccountedStep ==
    TypeOK /\ Carried /\ Alone /\ Accounted /\ [Next]_vars => Accounted'
<1> SUFFICES ASSUME TypeOK, Carried, Alone, Accounted, [Next]_vars,
                    NEW n \in Nodes \ Parallel
             PROVE  SentOnce(n)' /\ ReadOnceMore(n)' /\ Before(n)'
  BY DEF Accounted
<1>0. /\ TypeSpool /\ TypeTosser /\ TypeEcho /\ TypeOutput /\ TypeRest
      /\ SentOnce(n) /\ ReadOnceMore(n) /\ Before(n) /\ n \in Nodes
      /\ troubles \in Nat
  BY TypeParts DEF Accounted, TypeRest
<1>1. CASE Post \/ PostSeen \/ PostStop \/ UNCHANGED vars
  <2>1. /\ UNCHANGED <<sent, read, at, echo>>
        /\ troubles' = troubles \/ troubles' = troubles + 1
    BY <1>1 DEF Post, PostSeen, PostStop, Trouble, vars, spool, tosser, output
  <2>2. seen[n] \subseteq seen'[n]
    BY <1>0, <1>1 DEF Post, PostSeen, PostStop, vars, spool, TypeSpool
  <2> QED BY <1>0, <2>1, <2>2, AccountFrame
<1>2. ASSUME NEW m \in Nodes, NEW s \in Nodes, m # n, Toss(m, s) \/ Stop(m, s)
      PROVE  SentOnce(n)' /\ ReadOnceMore(n)' /\ Before(n)'
  <2>1. sent'[n] = sent[n] /\ read'[n] = read[n]
    BY <1>0, <1>2 DEF Toss, JobProcess, Begin, Pass, Send, Mark, Read, MarkSelf,
                      Remove, Stop, output, TypeOutput
  <2>2. at'[n] = at[n] /\ echo'[n] = echo[n]
    BY <1>0, <1>2 DEF Toss, JobProcess, Begin, Pass, Send, Mark, Read, MarkSelf,
                      Remove, Stop, Step, TypeTosser
  <2>3. seen[n] \subseteq seen'[n]
    BY <1>0, <1>2 DEF Toss, JobProcess, Begin, Pass, Send, Mark, Read, MarkSelf,
                      Remove, Stop, Marked, spool, TypeSpool
  <2>4. troubles' = troubles \/ troubles' = troubles + 1
    BY <1>2 DEF Toss, JobProcess, Begin, Pass, Send, Mark, Read, MarkSelf,
                Remove, Stop, Trouble
  <2> QED BY <1>0, <2>1, <2>2, <2>3, <2>4, AccountFrame
<1>3. ASSUME NEW s \in Nodes, Begin(n, s)
      PROVE  SentOnce(n)' /\ ReadOnceMore(n)' /\ Before(n)'
  <2>1. UNCHANGED <<sent, read, seen, echo, troubles>>
    BY <1>3 DEF Begin, spool, output
  <2>2. /\ at[n][s] = "idle"
        /\ \A r \in Nodes : at'[n][r] = IF r = s THEN "pass" ELSE at[n][r]
    BY <1>0, <1>3 DEF Begin, Step, TypeTosser
  <2> QED BY <1>0, <2>1, <2>2 DEF SentOnce, ReadOnceMore, Before
<1>4. ASSUME NEW s \in Nodes, Pass(n, s)
      PROVE  SentOnce(n)' /\ ReadOnceMore(n)' /\ Before(n)'
  <2>1. UNCHANGED <<sent, read, seen, troubles>>
    BY <1>4 DEF Pass, spool, output
  <2>2. /\ at[n][s] = "pass"
        /\ \A r \in Nodes \ {s} : /\ at'[n][r] = at[n][r]
                                  /\ echo'[n][r] = echo[n][r]
    BY <1>0, <1>4 DEF Pass, Step, TypeTosser
  <2>3. \A r \in Nodes : at[n][r] # "idle" => r = s
    BY <1>0, <2>2, OnlyToss
  <2>4. SentOnce(n)' /\ ReadOnceMore(n)'
    BY <1>0, <2>1, <2>2, <2>3 DEF SentOnce, ReadOnceMore
  <2>5. CASE \E x \in Unserved(n) : /\ Step(n, s, "pass", Target(n, s, x))
                                    /\ echo' = [echo EXCEPT ![n][s] = x]
    <3>1. PICK x \in Nodes : /\ x \notin seen[n] /\ echo'[n][s] = x
                             /\ at'[n][s] \in {"send", "mark"}
      BY <1>0, <2>5 DEF Unserved, Step, Target, TypeTosser
    <3>2. sent[n][x] <= troubles
      BY <1>0, <2>2, <2>3, <3>1 DEF SentOnce
    <3>3. Before(n)'
      BY <1>0, <2>1, <2>2, <2>3, <3>1, <3>2 DEF Before
    <3> QED BY <2>4, <3>3
  <2>6. CASE Step(n, s, "pass", Own(n)) /\ UNCHANGED echo
    <3>1. at'[n][s] # "send" /\ (at'[n][s] = "read" => n \notin seen[n])
      BY <1>0, <2>6 DEF Step, Own, TypeTosser
    <3>2. at'[n][s] = "read" => read[n] <= troubles
      BY <1>0, <2>2, <2>3, <3>1 DEF ReadOnceMore
    <3>3. Before(n)'
      BY <1>0, <2>1, <2>2, <2>3, <3>1, <3>2 DEF Before
    <3> QED BY <2>4, <3>3
  <2> QED BY <1>4, <2>5, <2>6 DEF Pass
<1>5. ASSUME NEW s \in Nodes, Send(n, s)
      PROVE  SentOnce(n)' /\ ReadOnceMore(n)' /\ Before(n)'
  <2>1. UNCHANGED <<read, seen, echo, troubles>>
    BY <1>5 DEF Send
  <2>2. /\ at[n][s] = "send"
        /\ \A r \in Nodes : at'[n][r] = IF r = s THEN "mark" ELSE at[n][r]
    BY <1>0, <1>5 DEF Send, Step, TypeTosser
  <2>3. \A r \in Nodes : at[n][r] # "idle" => r = s
    BY <1>0, <2>2, OnlyToss
  <2>4. PICK x \in Nodes : x = echo[n][s]
    BY <1>0, <2>2 DEF TypeEcho
  <2>5. \A y \in Nodes : sent'[n][y] = IF y = x THEN sent[n][y] + 1 ELSE sent[n][y]
    BY <1>0, <1>5, <2>4 DEF Send, TypeOutput
  <2>6. sent[n][x] <= troubles
    BY <1>0, <2>2, <2>4 DEF Before
  <2>7. SentOnce(n)'
    BY <1>0, <2>1, <2>2, <2>3, <2>4, <2>5, <2>6 DEF SentOnce, TypeOutput
  <2>8. ReadOnceMore(n)' /\ Before(n)'
    BY <1>0, <2>1, <2>2, <2>3 DEF ReadOnceMore, Before
  <2> QED BY <2>7, <2>8
<1>6. ASSUME NEW s \in Nodes, Mark(n, s)
      PROVE  SentOnce(n)' /\ ReadOnceMore(n)' /\ Before(n)'
  <2>1. UNCHANGED <<sent, read, troubles>>
    BY <1>6 DEF Mark, output
  <2>2. /\ at[n][s] = "mark" /\ at'[n][s] \in {"idle", "pass"}
        /\ \A r \in Nodes \ {s} : /\ at'[n][r] = at[n][r]
                                  /\ echo'[n][r] = echo[n][r]
    BY <1>0, <1>6 DEF Mark, Step, TypeTosser
  <2>3. \A r \in Nodes : at[n][r] # "idle" => r = s
    BY <1>0, <2>2, OnlyToss
  <2>4. seen'[n] = seen[n] \cup {echo[n][s]}
    BY <1>0, <1>6 DEF Mark, Marked, TypeSpool
  <2>5. SentOnce(n)'
    BY <1>0, <2>1, <2>2, <2>3, <2>4 DEF SentOnce
  <2>6. ReadOnceMore(n)' /\ Before(n)'
    BY <1>0, <2>1, <2>2, <2>3, <2>4 DEF ReadOnceMore, Before
  <2> QED BY <2>5, <2>6
<1>7. ASSUME NEW s \in Nodes, Read(n, s)
      PROVE  SentOnce(n)' /\ ReadOnceMore(n)' /\ Before(n)'
  <2>1. UNCHANGED <<sent, seen, echo, troubles>>
    BY <1>7 DEF Read, spool
  <2>2. /\ at[n][s] = "read"
        /\ \A r \in Nodes : at'[n][r] = IF r = s THEN "markself" ELSE at[n][r]
    BY <1>0, <1>7 DEF Read, Step, TypeTosser
  <2>3. \A r \in Nodes : at[n][r] # "idle" => r = s
    BY <1>0, <2>2, OnlyToss
  <2>4. read'[n] = read[n] + 1 /\ read[n] \in Nat /\ read[n] <= troubles
    BY <1>0, <1>7, <2>2 DEF Read, TypeOutput, Before
  <2>5. ReadOnceMore(n)'
    BY <1>0, <2>1, <2>2, <2>4 DEF ReadOnceMore
  <2>6. SentOnce(n)' /\ Before(n)'
    BY <1>0, <2>1, <2>2, <2>3 DEF SentOnce, Before
  <2> QED BY <2>5, <2>6
<1>8. ASSUME NEW s \in Nodes, MarkSelf(n, s)
      PROVE  SentOnce(n)' /\ ReadOnceMore(n)' /\ Before(n)'
  <2>1. UNCHANGED <<sent, read, echo>>
    BY <1>8 DEF MarkSelf, output
  <2>2. /\ at[n][s] = "markself"
        /\ \A r \in Nodes : at'[n][r] = IF r = s THEN "remove" ELSE at[n][r]
    BY <1>0, <1>8 DEF MarkSelf, Step, TypeTosser
  <2>3. \A r \in Nodes : at[n][r] # "idle" => r = s
    BY <1>0, <2>2, OnlyToss
  <2>4. Before(n)'
    BY <2>2, <2>3 DEF Before
  <2>5. CASE seen' = Marked(n, n) /\ UNCHANGED troubles
    <3>1. seen'[n] = seen[n] \cup {n}
      BY <1>0, <2>5 DEF Marked, TypeSpool
    <3> QED BY <1>0, <2>1, <2>2, <2>3, <2>4, <2>5, <3>1 DEF SentOnce, ReadOnceMore
  <2>6. CASE troubles' = troubles + 1
    <3>1. \A x \in Nodes : sent'[n][x] <= troubles' /\ read'[n] <= troubles'
      BY <1>0, <2>1, <2>6, AccountSettled
    <3> QED BY <1>0, <2>1, <2>4, <2>6, <3>1
            DEF SentOnce, ReadOnceMore, TypeOutput
  <2> QED BY <1>8, <2>5, <2>6 DEF MarkSelf, Trouble
<1>9. ASSUME NEW s \in Nodes, Remove(n, s)
      PROVE  SentOnce(n)' /\ ReadOnceMore(n)' /\ Before(n)'
  <2>1. UNCHANGED <<sent, read, seen, echo, troubles>>
    BY <1>9 DEF Remove, output
  <2>2. /\ at[n][s] = "remove"
        /\ \A r \in Nodes : at'[n][r] = IF r = s THEN "idle" ELSE at[n][r]
    BY <1>0, <1>9 DEF Remove, Step, TypeTosser
  <2>3. \A r \in Nodes : at[n][r] # "idle" => r = s
    BY <1>0, <2>2, OnlyToss
  <2> QED BY <1>0, <2>1, <2>2, <2>3 DEF SentOnce, ReadOnceMore, Before
<1>10. ASSUME NEW s \in Nodes, Stop(n, s)
      PROVE  SentOnce(n)' /\ ReadOnceMore(n)' /\ Before(n)'
  <2>1. UNCHANGED <<sent, read>> /\ troubles' = troubles + 1
    BY <1>10 DEF Stop, Trouble, output
  <2>2. /\ at[n][s] # "idle"
        /\ \A r \in Nodes : at'[n][r] = IF r = s THEN "idle" ELSE at[n][r]
    BY <1>0, <1>10 DEF Stop, TypeTosser
  <2>3. \A r \in Nodes : at'[n][r] = "idle"
    BY <1>0, <2>2, OnlyToss
  <2>4. \A x \in Nodes : sent'[n][x] <= troubles' /\ read'[n] <= troubles'
    BY <1>0, <2>1, AccountSettled
  <2> QED BY <1>0, <2>1, <2>3, <2>4 DEF SentOnce, ReadOnceMore, Before, TypeOutput
<1>11. ASSUME NEW m \in Nodes, Crash(m)
      PROVE  SentOnce(n)' /\ ReadOnceMore(n)' /\ Before(n)'
  <2>1. UNCHANGED <<sent, read>> /\ troubles' = troubles + 1
    BY <1>11 DEF Crash, Trouble, output
  <2>2. CASE m = n
    <3>1. \A r \in Nodes : at'[n][r] = "idle"
      BY <1>0, <1>11, <2>2 DEF Crash, TypeTosser
    <3>2. \A x \in Nodes : sent'[n][x] <= troubles' /\ read'[n] <= troubles'
      BY <1>0, <2>1, AccountSettled
    <3> QED BY <1>0, <2>1, <3>1, <3>2 DEF SentOnce, ReadOnceMore, Before, TypeOutput
  <2>3. CASE m # n
    <3>1. at'[n] = at[n] /\ echo'[n] = echo[n] /\ seen'[n] = seen[n]
      BY <1>0, <1>11, <2>3 DEF Crash, TypeTosser, TypeSpool
    <3> QED BY <1>0, <2>1, <3>1, AccountFrame
  <2> QED BY <2>2, <2>3
<1> QED
  BY <1>1, <1>2, <1>3, <1>4, <1>5, <1>6, <1>7, <1>8, <1>9, <1>10, <1>11
     DEF Next, Toss, JobProcess

\* However the subscriptions go in circles, however many copies come back, and
\* whatever fails: where one directory is tossed at a time, nobody is sent the
\* message more than once, nor is it read more than once, but for one more
\* time per failure (toss.go:737-897).
THEOREM CopiesAreFew == Spec => []FewCopies
<1>1. Init => Alone /\ Accounted
  BY AccountedInit
<1>2. TypeOK /\ Relaying /\ Alone /\ Accounted /\ [Next]_vars
      => Alone' /\ Accounted'
  BY AloneStep, AccountedStep DEF Relaying
<1>3. Alone /\ Accounted => FewCopies
  BY DEF Accounted, SentOnce, ReadOnceMore, FewCopies
<1> QED
  BY <1>1, <1>2, <1>3, AreaInvariant, PTL DEF Spec
=============================================================================
