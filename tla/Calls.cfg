SPECIFICATION FairSpec
CONSTANTS
    c1 = c1
    c2 = c2
    conn = conn
    r1 = r1
    r2 = r2
    ifi = ifi
    Callers = {c1, c2}
    Conns = {conn}
    Locks <- LocksOf
    WhenTx = {c2}
    Tossing = {c1, conn}
    Cfg = 1
    Receivers = {r1, r2}
    Zone <- Same
    MaxRms = 1
    MaxKills = 1
INVARIANTS CallsOK TableOK
PROPERTIES CallsEnd
CHECK_DEADLOCK FALSE
