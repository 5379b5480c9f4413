SPECIFICATION FairSpec
CONSTANTS
    d1 = d1
    a = a
    b1 = b1
    b2 = b2
    Data = {d1}
    Procs = {a, b1, b2}
    Host <- AtNodes
    May <- Programs
    TxKeeps = {TRUE, FALSE}
    RxKeeps = {FALSE}
    Bundled = FALSE
    DoSeen = TRUE
    MaxFaults = 1
INVARIANTS NeverLost SpoolOK
PROPERTIES Arrives
CHECK_DEADLOCK FALSE
