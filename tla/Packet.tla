------------------------------- MODULE Packet -------------------------------
(***************************************************************************)
(* The encrypted packet (src/src/pkt.go): PktEncWrite turns a plain packet *)
(* of any length into a header, sealed blocks, one of which tells the      *)
(* length and is sealed with a key of its own, and padding up to the size  *)
(* asked for; PktEncRead turns it back while it reads.                     *)
(*                                                                         *)
(* A byte of a sealed block stands for the whole block with its key and    *)
(* nonce: only all of its bytes together open.  The keys, the signature    *)
(* and the bytes of the plain packet are not modelled beyond that: byte k  *)
(* of the payload is k, a zero byte of padding 0.                          *)
(***************************************************************************)
EXTENDS Integers, Sequences

CONSTANTS
    EncBlkSize, TagSize,
    PktOverhead, PktEncOverhead,   \* of the plain and of the encrypted header
    Payloads,                      \* lengths of plain packets
    MinSizes,                      \* sizes asked for
    MaxWrappers                    \* encryptions around each other, at most

PktSizeOverhead == 2               \* the two numbers of PktSize
Sealed == EncBlkSize + TagSize     \* the length of a whole block

VARIABLES
    payload, minSize, damage,
    stream,      \* what is left to read
    reader       \* state of PktEncRead

vars == <<payload, minSize, damage, stream, reader>>

Byte(key, nonce, pt, k) == [key |-> key, nonce |-> nonce, pt |-> pt, k |-> k]
Header == [k \in 1..PktEncOverhead |-> Byte("header", 0, <<>>, k)]
Xof(n) == [k \in 1..n |-> Byte("pad", 0, <<>>, k)]
Seal(key, nonce, pt) == [k \in 1..(Len(pt) + TagSize) |-> Byte(key, nonce, pt, k)]
Opens(key, nonce, ct) == ct # <<>> /\ ct = Seal(key, nonce, ct[1].pt)
Zeros(n) == [k \in 1..n |-> 0]
Least(a, b) == IF a < b THEN a ELSE b
Most(a, b)  == IF a < b THEN b ELSE a
Drop(s, n) == SubSeq(s, n + 1, Len(s))   \* empty when n is beyond the end

----------------------------------------------------------------------------
sizeWithTags(size) ==
    LET full == size + PktSizeOverhead
    IN  full + ((full + EncBlkSize - 1) \div EncBlkSize) * TagSize

wrapped(sizePayload, wrappers) ==
    LET size[i \in 0..wrappers] ==
            IF i = 0 THEN sizePayload - PktOverhead
            ELSE PktEncOverhead + sizeWithTags(PktOverhead + size[i - 1])
    IN  size[wrappers]
sizePadCalc(sizePayload, min, wrappers) == Most(min - wrapped(sizePayload, wrappers), 0)

(* PktEncWrite.  The payload's whole blocks are sealed as they are read;   *)
(* what remains goes with the sizes, but for what finds no room beside     *)
(* them: that is one more block.                                           *)
Whole(data) == Len(data) \div EncBlkSize
Block(data, n) == SubSeq(data, n * EncBlkSize + 1, (n + 1) * EncBlkSize)
WholeBlocks(data) ==
    [i \in 1..(Whole(data) * Sealed) |->
        LET n == (i - 1) \div Sealed IN Seal("full", n, Block(data, n))[i - n * Sealed]]

Remains(data) == Drop(data, Whole(data) * EncBlkSize)
Room == EncBlkSize - PktSizeOverhead
Splits(data) == Len(Remains(data)) > Room
BesideSizes(data) == SubSeq(Remains(data), 1, Least(Room, Len(Remains(data))))
SizeText(data, pad) == <<Len(data), pad>> \o BesideSizes(data)
Last(data, pad) == IF Splits(data) THEN Drop(Remains(data), Room) ELSE SizeText(data, pad)
PadZeros(data, pad) == Least(pad, EncBlkSize - Len(Last(data, pad)))
LastText(data, pad) == Last(data, pad) \o Zeros(PadZeros(data, pad))

Encrypted(data, pad) ==
    Header \o WholeBlocks(data)
    \o (IF Splits(data)
        THEN Seal("size", Whole(data), SizeText(data, pad))
             \o Seal("full", Whole(data) + 1, LastText(data, pad))
        ELSE Seal("size", Whole(data), LastText(data, pad)))
    \o Xof(pad - PadZeros(data, pad))

PktEncWrite(data, min, wrappers) == Encrypted(data, sizePadCalc(Len(data), min, wrappers))

Plain(n) == [k \in 1..n |-> k]
Written == PktEncWrite(Plain(payload), minSize, 1)

(* How large a packet of Tx gets: one of length bytes, padded for wrappers *)
(* encryptions, with a packet without padding of its own for each further  *)
(* hop around it.  An area's packet is put into the first of them, and one *)
(* encryption more is reckoned with for it than there are around it.       *)
Outer(length) == Len(PktEncWrite(Plain(PktOverhead + length), 0, 0))
Inside(length, n, wrappers) ==
    LET size[i \in 1..n] == IF i = 1 THEN Len(PktEncWrite(Plain(length), minSize, wrappers))
                            ELSE Outer(size[i - 1])
    IN  size[n]
Around(n) == Inside(payload, n, n)
AreaAround(n) == Inside(PktOverhead + Len(PktEncWrite(Plain(payload), 0, 0)), n, n + 1)

----------------------------------------------------------------------------
(* What may happen to the stream on its way.                               *)
Damaged(s, d) ==
    CASE d.kind = "none" -> s
      [] d.kind = "cut"  -> SubSeq(s, 1, d.at - 1)
      [] d.kind = "junk" -> [s EXCEPT ![d.at] = Byte("junk", 0, <<>>, 0)]
      [] d.kind = "more" -> Append(s, Byte("junk", 0, <<>>, 0))

Init ==
    /\ payload \in Payloads /\ minSize \in MinSizes
    /\ damage \in [kind : {"none", "more"}, at : {0}]
                  \cup [kind : {"cut", "junk"}, at : 1..Len(Written)]
    /\ stream = Damaged(Written, damage)
    /\ reader = [stage |-> "header", nonce |-> 0, out |-> <<>>,
                 pt |-> <<>>, left |-> 0, pad |-> 0]

(* One io.ReadFull of a sealed block.                                      *)
Ct == SubSeq(stream, 1, Least(Sealed, Len(stream)))
Go(r) == reader' = r /\ stream' = Drop(stream, Len(Ct)) /\ UNCHANGED <<payload, minSize, damage>>
Fails == Go([reader EXCEPT !.stage = "error"])

(* A header that was changed is not recognised, or gives another ad with   *)
(* which nothing opens.                                                    *)
ReadHeader ==
    /\ reader.stage = "header"
    /\ reader' = [reader EXCEPT !.stage =
                     IF /\ Len(stream) >= PktEncOverhead
                        /\ SubSeq(stream, 1, PktEncOverhead) = Header
                     THEN "blocks" ELSE "error"]
    /\ stream' = Drop(stream, PktEncOverhead)
    /\ UNCHANGED <<payload, minSize, damage>>

(* FullRead: whole blocks are tried with the key of the data, and what     *)
(* does not open with it with the key of the size.                         *)
BlockOpens == Len(Ct) = Sealed /\ Opens("full", reader.nonce, Ct)

FullRead ==
    /\ reader.stage = "blocks" /\ BlockOpens
    /\ Go([reader EXCEPT !.out = @ \o Ct[1].pt, !.nonce = @ + 1])

SizeRead ==
    /\ reader.stage = "blocks" /\ ~BlockOpens
    /\ IF Opens("size", reader.nonce, Ct)
       THEN Go([reader EXCEPT
                  !.stage = "rest",
                  !.pt = Drop(Ct[1].pt, PktSizeOverhead),
                  !.left = Ct[1].pt[1] - Len(reader.out),
                  !.pad = Ct[1].pt[2]])
       ELSE Fails

(* What the size says is still to come: what was decrypted is given out    *)
(* before the next block is read.                                          *)
RestRead ==
    /\ reader.stage = "rest" /\ reader.left > Len(reader.pt)
    /\ IF Opens("full", reader.nonce + 1, Ct)
       THEN Go([reader EXCEPT
                  !.out = @ \o reader.pt,
                  !.left = @ - Len(reader.pt),
                  !.pt = Ct[1].pt,
                  !.nonce = @ + 1])
       ELSE Go([reader EXCEPT !.stage = "error", !.out = @ \o reader.pt])

(* Bug: the zeros of the last block are not taken off the padding.         *)
LastKeepsPad ==
    /\ reader.stage = "rest" /\ reader.left <= Len(reader.pt)
    /\ reader' = [reader EXCEPT
                     !.out = @ \o SubSeq(reader.pt, 1, reader.left),
                     !.pt = <<>>,
                     !.stage = IF reader.pad = 0 THEN "done" ELSE "pad"]
    /\ UNCHANGED <<payload, minSize, damage, stream>>

(* The end of the payload, the zeros behind it, and the padding behind     *)
(* them.                                                                   *)
LastRead ==
    /\ reader.stage = "rest" /\ reader.left <= Len(reader.pt)
    /\ LET zeros == Drop(reader.pt, reader.left)
           bad == reader.pad < Len(zeros) \/ zeros # Zeros(Len(zeros))
       IN  reader' = [reader EXCEPT
                         !.out = @ \o SubSeq(reader.pt, 1, reader.left),
                         !.pt = <<>>, !.left = 0,
                         !.pad = @ - Len(zeros),
                         !.stage = IF bad THEN "error"
                                   ELSE IF reader.pad = Len(zeros) THEN "done" ELSE "pad"]
    /\ UNCHANGED <<payload, minSize, damage, stream>>

PadRead ==
    /\ reader.stage = "pad"
    /\ IF Ct # <<>> /\ \A k \in 1..Len(Ct) : Ct[k] = Byte("pad", 0, <<>>, reader.left + k)
       THEN Go([reader EXCEPT
                  !.pad = @ - Len(Ct), !.left = @ + Len(Ct),
                  !.stage = IF reader.pad = Len(Ct) THEN "done"
                            ELSE IF reader.pad < Len(Ct) THEN "error" ELSE "pad"])
       ELSE Fails

Next == ReadHeader \/ FullRead \/ SizeRead \/ RestRead \/ LastRead \/ PadRead

Spec == Init /\ [][Next]_vars

----------------------------------------------------------------------------
(* A packet is read back as it was written, whatever its length falls on;  *)
(* one that lost its end or was changed anywhere is not accepted.  What    *)
(* follows a packet that ends with a whole block is not looked at.         *)
ReadsBack ==
    /\ reader.stage = "done" => reader.out = Plain(payload)
    /\ reader.stage = "done" => damage.kind \in {"none", "more"}
    /\ reader.stage = "error" => damage.kind # "none"
    /\ Len(reader.out) <= payload /\ reader.out = Plain(Len(reader.out))

(* However many hops wrap it, a packet is at least as large as asked for,  *)
(* because the innermost one is padded for all of them; an area's would be *)
(* with one encryption more, which its padding reckons with.               *)
AtLeastMinSize ==
    reader.stage = "header" =>
        \A n \in 1..MaxWrappers : Around(n) >= minSize /\ Outer(AreaAround(n)) >= minSize

PacketOK == ReadsBack /\ AtLeastMinSize

(* What -minsize asks for, of an area's packet too.  It does not hold.     *)
AreaAtLeastMinSize ==
    reader.stage = "header" => \A n \in 1..MaxWrappers : AreaAround(n) >= minSize
=============================================================================
