-------------------------------- MODULE MTH --------------------------------
(***************************************************************************)
(* The Merkle tree hash that names packets and checks what was received    *)
(* (src/src/mth.go): MTHSeq folds the tree while bytes come in writes of   *)
(* any length, starting at the offset a download was resumed from; the     *)
(* blocks before it are added later (PreaddFrom), from the file.  MTHFat   *)
(* is the code's own reference: all leaves first, then level by level.     *)
(*                                                                         *)
(* A hash stands for what was hashed: a leaf for its bytes, a node for its *)
(* two children, so equal hashes are hashes of equal things.               *)
(***************************************************************************)
EXTENDS Integers, Sequences

CONSTANTS
    MTHBlockSize,
    Sizes,          \* sizes of the files
    MaxWrite        \* bytes of one Write at most

VARIABLES
    size, offset,   \* arguments of MTHNew
    at,             \* bytes of the file that were written to the hasher
    mth,            \* the MTHSeq
    stage           \* "writing", "whole" or "summed"

vars == <<size, offset, at, mth, stage>>

Leaf(bytes) == [bytes |-> bytes]
Node(a, b)  == [left |-> a, right |-> b]
Ent(level, c, h) == [l |-> level, c |-> c, h |-> h]
Bytes(from, to) == [k \in 1..(to - from) |-> from + k]
Least(a, b) == IF a < b THEN a ELSE b
Drop(s, n) == SubSeq(s, n + 1, Len(s))

----------------------------------------------------------------------------
(* MTHFat.                                                                 *)
Leaves(n) ==
    [k \in 1..((n + MTHBlockSize - 1) \div MTHBlockSize) |->
        Leaf(Bytes((k - 1) * MTHBlockSize, Least(k * MTHBlockSize, n)))]

(* The next level: pairs, and the last alone if it has no other.           *)
Up(hashes) ==
    LET n == Len(hashes)
    IN  [k \in 1..((n + 1) \div 2) |->
            IF 2 * k <= n THEN Node(hashes[2 * k - 1], hashes[2 * k]) ELSE hashes[n]]

(* A level of one hash is followed by itself.                              *)
Top(hashes) ==
    LET level[i \in 0..Len(hashes)] == IF i = 0 THEN hashes ELSE Up(level[i - 1])
    IN  level[Len(hashes)][1]

MTHFat(n) ==
    LET leaves == IF n = 0 THEN <<Leaf(<<>>)>> ELSE Leaves(n)
    IN  Top(IF Len(leaves) = 1 THEN leaves \o leaves ELSE leaves)

----------------------------------------------------------------------------
(* MTHSeq.                                                                 *)
MTHSeqNew(n, off) ==
    LET inBlock == off % MTHBlockSize
        prepends == (off + MTHBlockSize - 1) \div MTHBlockSize
    IN  IF n = 0
        THEN [hashes |-> <<>>, buf |-> <<>>, ctr |-> 0, prependSize |-> 0, toSkip |-> 0]
        ELSE [hashes |-> <<>>, buf |-> <<>>, ctr |-> prepends,
              prependSize |-> Least(prepends * MTHBlockSize, n),
              toSkip |-> IF inBlock = 0 THEN 0 ELSE Least(MTHBlockSize - inBlock, n - off)]

(* What cannot be folded stays, so as many steps as there are hashes do.   *)
Folds(hashes) ==
    LET n == Len(hashes)
    IN  n >= 2 /\ hashes[n - 1].c % 2 = 0 /\ hashes[n - 1].l = hashes[n].l

foldOnce(hashes) ==
    LET n == Len(hashes)
        end1 == hashes[n - 1]
        end0 == hashes[n]
    IN  IF ~Folds(hashes) THEN hashes
        ELSE Append(SubSeq(hashes, 1, n - 2),
                    Ent(end1.l + 1, end1.c \div 2, Node(end1.h, end0.h)))

fold(hashes) ==
    LET after[k \in 0..Len(hashes)] == IF k = 0 THEN hashes ELSE foldOnce(after[k - 1])
    IN  after[Len(hashes)]

leafAdd(m, bytes) ==
    [m EXCEPT !.hashes = fold(Append(@, Ent(0, m.ctr, Leaf(bytes)))),
              !.ctr = @ + 1]

Block(m) ==
    IF Len(m.buf) < MTHBlockSize THEN m
    ELSE leafAdd([m EXCEPT !.buf = Drop(@, MTHBlockSize)], SubSeq(m.buf, 1, MTHBlockSize))

Blocks(m) ==
    LET after[k \in 0..Len(m.buf)] == IF k = 0 THEN m ELSE Block(after[k - 1])
    IN  after[Len(m.buf)]

(* The rest of the block a download was resumed in is not hashed: it is    *)
(* added with the blocks before.                                           *)
Written(m, bytes) ==
    LET more == [m EXCEPT !.buf = @ \o bytes]
    IN  IF Len(more.buf) < more.toSkip THEN more
        ELSE Blocks([more EXCEPT !.buf = Drop(@, m.toSkip), !.toSkip = 0])

Flush(m) == IF m.buf = <<>> THEN m ELSE leafAdd([m EXCEPT !.buf = <<>>], m.buf)

(* Bug: the blocks already folded are put behind the others unfolded.      *)
PreaddNoFold(m) ==
    LET last == Flush(m)
        first == Written([last EXCEPT !.hashes = <<>>, !.ctr = 0], Bytes(0, m.prependSize))
    IN  [first EXCEPT !.hashes = @ \o last.hashes, !.ctr = last.ctr]

Joined(first, then) ==
    LET with[k \in 0..Len(then)] ==
            IF k = 0 THEN first ELSE fold(Append(with[k - 1], then[k]))
    IN  with[Len(then)]

PreaddFrom(m) ==
    LET last == Flush(m)
        first == Written([last EXCEPT !.hashes = <<>>, !.ctr = 0], Bytes(0, m.prependSize))
    IN  [first EXCEPT !.hashes = Joined(@, last.hashes),
                      !.ctr = IF first.buf = <<>> THEN last.ctr ELSE last.ctr - 1]

(* The last hash takes its place on the level of the one before it.        *)
collapseOnce(hashes) ==
    LET n == Len(hashes) IN
    IF n < 2 THEN hashes
    ELSE fold([hashes EXCEPT ![n].l = hashes[n - 1].l, ![n].c = hashes[n - 1].c + 1])

Collapse(hashes) ==
    LET after[k \in 0..Len(hashes)] == IF k = 0 THEN hashes ELSE collapseOnce(after[k - 1])
    IN  after[Len(hashes)]

Sum(m) ==
    LET flushed == Flush(m)
        atLeast1 == IF flushed.ctr = 0 THEN leafAdd(flushed, <<>>) ELSE flushed
        atLeast2 == IF atLeast1.ctr = 1
                    THEN fold(Append(atLeast1.hashes, Ent(0, 1, atLeast1.hashes[1].h)))
                    ELSE atLeast1.hashes
    IN  Collapse(atLeast2)[1].h

----------------------------------------------------------------------------
(* A hasher over a file's life: created when a download starts or resumes, *)
(* fed with what arrives, then, if the download was resumed, with what was *)
(* there before.                                                           *)
Init ==
    /\ size \in Sizes
    /\ offset \in 0..size
    /\ at = offset
    /\ mth = MTHSeqNew(size, offset)
    /\ stage = "writing"

Write ==
    /\ stage = "writing"
    /\ \E n \in 1..Least(MaxWrite, size - at) :
          /\ mth' = Written(mth, Bytes(at, at + n))
          /\ at' = at + n
    /\ UNCHANGED <<size, offset, stage>>

Preadd ==
    /\ stage = "writing" /\ at = size
    /\ mth' = IF mth.prependSize > 0 THEN PreaddFrom(mth) ELSE mth
    /\ stage' = "whole"
    /\ UNCHANGED <<size, offset, at>>

Summed ==
    /\ stage = "whole"
    /\ mth' = [mth EXCEPT !.hashes = <<Ent(0, 0, Sum(mth))>>]
    /\ stage' = "summed"
    /\ UNCHANGED <<size, offset, at>>

Next == Write \/ Preadd \/ Summed

Spec == Init /\ [][Next]_vars

(* However a file came in, in which pieces and resumed where, its hash is  *)
(* that of the whole file.                                                 *)
SumIsTree == stage = "summed" => mth.hashes[1].h = MTHFat(size)
=============================================================================
