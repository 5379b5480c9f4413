SPECIFICATION Spec
CONSTANTS
    p1 = p1
    p2 = p2
    NoPkt = NoPkt
    Pkts <- TwoPkts
    Size <- Sizes
    Nice <- Nices
    NiceOur = 2
    NiceTheir = 2
    Rotten <- First
    NoCKs = {FALSE}
    DoSeen = TRUE
    Checkers = {"sp"}
    FaultKinds = {"space", "dirsync"}
    Window = 2
    MaxCuts = 2
    MaxKills = 0
    MaxCrashes = 1
    MaxFaults = 1
    MaxDeliver = 2
INVARIANTS OnlyIntact AtMostOnce
