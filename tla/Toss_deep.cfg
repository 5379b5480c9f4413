SPECIFICATION Spec
CONSTANTS
    p1 = p1
    p2 = p2
    p3 = p3
    p4 = p4
    a = a
    b = b
    cmd = cmd
    autoA = autoA
    autoB = autoB
    dst = dst
    sub = sub
    dirA = dirA
    dirB = dirB
    None = None
    Pkts <- Two
    Nodes <- Both
    Tossers <- Mixed
    Watchers <- AutoOnly
    Visits <- VisitsOf
    From <- FromA
    FilePkts <- Two
    Dst <- SubDst
    Incoming <- Apart
    Deep <- Subdir
    Ignored = {}
    Long = {}
    Faulty = {}
    DoSeen = TRUE
    MaxSuffix = 3
    MaxFaults = 0
    MaxKills = 0
    MaxCrashes = 1
INVARIANTS Kept
