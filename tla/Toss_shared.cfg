SPECIFICATION Spec
CONSTANTS
    p1 = p1
    p2 = p2
    p3 = p3
    p4 = p4
    a = a
    b = b
    cmd = cmd
    autoA = autoA
    autoB = autoB
    dst = dst
    sub = sub
    dirA = dirA
    dirB = dirB
    None = None
    Pkts <- OneEach
    Nodes <- Both
    Tossers <- Autos
    Watchers <- Autos
    Visits <- VisitsOf
    From <- FromA
    FilePkts <- OneEach
    Dst <- SameDst
    Incoming <- Together
    Deep = {}
    Ignored = {}
    Long = {}
    Faulty = {}
    DoSeen = TRUE
    MaxSuffix = 3
    MaxFaults = 0
    MaxKills = 0
    MaxCrashes = 0
PROPERTIES NoOverwrite
