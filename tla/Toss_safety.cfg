SPECIFICATION Spec
CONSTANTS
    p1 = p1
    p2 = p2
    p3 = p3
    p4 = p4
    a = a
    b = b
    cmd = cmd
    autoA = autoA
    autoB = autoB
    dst = dst
    sub = sub
    dirA = dirA
    dirB = dirB
    None = None
    Pkts <- Two
    Nodes <- Both
    Tossers <- Mixed
    Watchers <- AutoOnly
    Visits <- VisitsOf
    From <- FromA
    FilePkts <- Two
    Dst <- SameDst
    Incoming <- Apart
    Deep = {}
    Ignored = {}
    Long = {}
    Faulty = {}
    DoSeen = TRUE
    MaxSuffix = 3
    MaxFaults = 1
    MaxKills = 1
    MaxCrashes = 1
INVARIANTS TypeOK Exclusive Kept FewCopies SeenGot
PROPERTIES NoOverwrite
