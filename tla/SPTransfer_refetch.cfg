SPECIFICATION Spec
CONSTANTS
    p1 = p1
    p2 = p2
    NoPkt = NoPkt
    Pkts <- OnePkt
    Size <- Sizes
    Nice <- Nices
    NiceOur = 1
    NiceTheir = 1
    Rotten = {}
    NoCKs = {FALSE}
    DoSeen = TRUE
    Checkers = {"sp", "cmd"}
    FaultKinds = {"space", "sync", "rename", "dirsync"}
    Window = 2
    MaxCuts = 1
    MaxKills = 0
    MaxCrashes = 0
    MaxFaults = 0
    MaxDeliver = 2
INVARIANTS NoRefetch

