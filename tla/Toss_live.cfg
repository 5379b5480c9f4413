SPECIFICATION FairSpec
CONSTANTS
    p1 = p1
    p2 = p2
    p3 = p3
    p4 = p4
    a = a
    b = b
    cmd = cmd
    autoA = autoA
    autoB = autoB
    dst = dst
    sub = sub
    dirA = dirA
    dirB = dirB
    None = None
    Pkts <- Passed
    Nodes <- Both
    Tossers <- Mixed
    Watchers <- AutoOnly
    Visits <- VisitsOf
    From <- FromA
    FilePkts <- One
    Dst <- SameDst
    Incoming <- Apart
    Deep = {}
    Ignored <- FourthOnly
    Long <- FourthOnly
    Faulty <- ThirdOnly
    DoSeen = TRUE
    MaxSuffix = 2
    MaxFaults = 1
    MaxKills = 0
    MaxCrashes = 0
PROPERTIES Tossed
