------------------------------- MODULE Files -------------------------------
(***************************************************************************)
(* What a file goes through, one part beside the other: Tx, which passes   *)
(* it through its goroutines, Packet, which is what each of them writes,   *)
(* Chunked, for files sent in parts, and MTH, the hash that names packets. *)
(* They have no state in common: Tx only knows that a packet is complete   *)
(* or is not, Chunked that packets arrive, and MTH sees bytes.             *)
(***************************************************************************)
EXTENDS Chunked

CONSTANTS
    EncBlkSize, TagSize, PktOverhead, PktEncOverhead, Payloads, MinSizes, MaxWrappers,
    MaxHops,
    MTHBlockSize, HashSizes, MaxWrite

ASSUME PacketAssumption ==
    /\ EncBlkSize \in Nat /\ EncBlkSize > 2 /\ TagSize \in Nat \ {0}
    /\ PktOverhead \in Nat /\ PktEncOverhead \in Nat
    /\ Payloads \subseteq Nat /\ MinSizes \subseteq Nat /\ MaxWrappers \in Nat

ASSUME HopsAreNat == MaxHops \in Nat

ASSUME HashAssumption ==
    MTHBlockSize \in Nat \ {0} /\ HashSizes \subseteq Nat /\ MaxWrite \in Nat

VARIABLES
    payload, minSize, damage, stream, reader,
    hops, area, source, stage, err, lacking, got, ignored, feed, caller,
    filesize, resumed, fed, hasher, hashed

Pkt  == INSTANCE Packet
Pipe == INSTANCE Tx
Hash == INSTANCE MTH WITH Sizes <- HashSizes, size <- filesize, offset <- resumed,
                          at <- fed, mth <- hasher, stage <- hashed

(* Packets are read back as they were written and not otherwise, and are   *)
(* as large as asked for (src/src/pkt.go).                                 *)
PacketOK == Pkt!PacketOK

(* An area's packet is as large as asked for, too.  It is not: Tx reckons  *)
(* with an encryption that is not made (tx.go:77, tx.go:162).              *)
AreaAtLeastMinSize == Pkt!AreaAtLeastMinSize

(* A packet that was sent is complete, and sending ends, but for an area   *)
(* message whose first error is not looked at (src/src/tx.go:203-208) and  *)
(* an exec whose compressor is not heard of again (tx.go:657-672).         *)
TxOK == Pipe!TxOK

(* However a file came in, in which pieces and resumed where, MTHSeq gives *)
(* the hash MTHFat gives (src/src/mth.go).                                 *)
SumIsTree == Hash!SumIsTree
=============================================================================
