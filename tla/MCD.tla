-------------------------------- MODULE MCD --------------------------------
(***************************************************************************)
(* Multicast discovery of one neighbour (src/src/mcd.go): a goroutine per  *)
(* interface and regular expression that matches it takes the neighbour's  *)
(* beacons and notes the address they came from; another one drops, every  *)
(* minute, the addresses not seen for two.  nncp-caller and nncp-call      *)
(* prepend what they find in the table to the configured addresses.        *)
(*                                                                         *)
(* An address includes its zone, so it stands for an interface.            *)
(***************************************************************************)
EXTENDS Integers, Sequences, FiniteSets

CONSTANTS
    Receivers,   \* goroutines of MCDRx
    Zone         \* the interface each of them listens on

Addrs == {Zone[r] : r \in Receivers}

VARIABLES
    mcdAddrs,    \* MCDAddrs of the neighbour: addresses and their age in minutes
    rx,          \* whether a receiver is between the two locked regions
    heard        \* minutes since a beacon was last noted (history)

vars == <<mcdAddrs, rx, heard>>

(* mcdAddrLifetime, in rounds of the sweeper: what it drops in its third   *)
(* round was last seen more than two minutes before.                       *)
Lifetime == 2
Entry(a, age) == [addr |-> a, age |-> age]
At(a) == {k \in DOMAIN mcdAddrs : mcdAddrs[k].addr = a}
First(K) == CHOOSE k \in K : \A other \in K : k <= other

Init ==
    /\ mcdAddrs = <<>>
    /\ rx = [r \in Receivers |-> "listening"]
    /\ heard = [a \in Addrs |-> Lifetime + 1]

(* Bug: a beacon of a known address is ignored. *)
NoRefresh(r) ==
    LET a == Zone[r] IN
    /\ rx[r] = "listening" /\ At(a) # {}
    /\ heard' = [heard EXCEPT ![a] = 0]
    /\ UNCHANGED <<mcdAddrs, rx>>

(* The neighbour's daemon sends beacons, and the network loses them, as    *)
(* they please.  A beacon is found in the table: the first entry of its    *)
(* address is refreshed, under the read lock.                              *)
Refresh(r) ==
    LET a == Zone[r] IN
    /\ rx[r] = "listening" /\ At(a) # {}
    /\ mcdAddrs' = [mcdAddrs EXCEPT ![First(At(a))].age = 0]
    /\ heard' = [heard EXCEPT ![a] = 0]
    /\ UNCHANGED rx

(* It is not found, and the read lock is given back ...                    *)
LookUp(r) ==
    /\ rx[r] = "listening" /\ At(Zone[r]) = {}
    /\ rx' = [rx EXCEPT ![r] = "new"]
    /\ UNCHANGED <<mcdAddrs, heard>>

(* ... and it is appended under the write lock, without another look.      *)
Append1(r) ==
    /\ rx[r] = "new"
    /\ mcdAddrs' = Append(mcdAddrs, Entry(Zone[r], 0))
    /\ heard' = [heard EXCEPT ![Zone[r]] = 0]
    /\ rx' = [rx EXCEPT ![r] = "listening"]

(* A minute passes and the sweeper has its round: the entries that are     *)
(* still alive are copied in their order.                                  *)
Older(age) == IF age > Lifetime THEN age ELSE age + 1
Alive == {k \in DOMAIN mcdAddrs : mcdAddrs[k].age < Lifetime}
Sweep ==
    /\ \E pos \in [1..Cardinality(Alive) -> Alive] :
          /\ \A i, j \in DOMAIN pos : i < j => pos[i] < pos[j]
          /\ mcdAddrs' = [i \in DOMAIN pos |->
                             [mcdAddrs[pos[i]] EXCEPT !.age = Older(@)]]
    /\ heard' = [a \in Addrs |-> Older(heard[a])]
    /\ UNCHANGED rx

Next ==
    \/ \E r \in Receivers : Refresh(r) \/ LookUp(r) \/ Append1(r)
    \/ Sweep

Spec == Init /\ [][Next]_vars

----------------------------------------------------------------------------
(* Properties. *)

TypeOK ==
    /\ mcdAddrs \in Seq([addr : Addrs, age : 0..Lifetime])
    /\ rx \in [Receivers -> {"listening", "new"}]
    /\ heard \in [Addrs -> 0..(Lifetime + 1)]

(* An address whose beacon was noted within the last two rounds is in the  *)
(* table, with that age, whatever other entries come and go.               *)
KeptWhileHeard ==
    \A a \in Addrs : heard[a] <= Lifetime => \E k \in At(a) : mcdAddrs[k].age = heard[a]

(* Two receivers of one interface may enter an address twice, but each     *)
(* only once: a call dials an address at most as often as there are        *)
(* regular expressions that match its interface.                           *)
FewEntries ==
    \A a \in Addrs :
        Cardinality(At(a)) + Cardinality({r \in Receivers : Zone[r] = a /\ rx[r] = "new"})
            <= Cardinality({r \in Receivers : Zone[r] = a})

TableOK == TypeOK /\ KeptWhileHeard /\ FewEntries
=============================================================================
