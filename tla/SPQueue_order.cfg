SPECIFICATION FairSpec
CONSTANTS
    p1 = p1
    p2 = p2
    p3 = p3
    p4 = p4
    p5 = p5
    p6 = p6
    NoPkt = NoPkt
    Pkts <- AllPkts
    Size <- Sizes
    Nice <- Nices
    Known <- Offered
    OnlyPkts <- Named
INVARIANTS TypeOK AllButLastSorted
PROPERTIES OnlyForNicer SendsStreams AllSent
\* The sender idles once everything requested is sent.
CHECK_DEADLOCK FALSE
