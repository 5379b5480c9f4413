SPECIFICATION FairSpec
CONSTANTS
    p1 = p1
    p2 = p2
    NoPkt = NoPkt
    Pkts <- OnePkt
    Size <- Sizes
    Nice <- Nices
    NiceOur = 1
    NiceTheir = 1
    Rotten = {}
    NoCKs = {TRUE, FALSE}
    DoSeen = TRUE
    Checkers = {"sp", "cmd"}
    FaultKinds = {"space", "sync", "rename"}
    Window = 2
    MaxCuts = 0
    MaxKills = 0
    MaxCrashes = 1
    MaxFaults = 1
    MaxDeliver = 2

PROPERTIES Delivers Releases
