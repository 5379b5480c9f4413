SPECIFICATION FairSpec
CONSTANTS
    A = A
    B = B
    C = C
    None = None
    Nodes <- All
    Author = A
    Subs <- Circles
    Keys <- Readers
    Parallel = {}
    Long = TRUE
    MaxTroubles = 1
INVARIANTS TypeOK AllServed FewCopies
PROPERTIES Flooded
CHECK_DEADLOCK FALSE
