SPECIFICATION Spec
CONSTANTS
    A = A
    B = B
    C = C
    None = None
    Nodes <- All
    Author = A
    Subs <- Circles
    Keys <- Readers
    Parallel = {}
    Long = TRUE
    MaxTroubles = 0
INVARIANTS AuthorSpared
CHECK_DEADLOCK FALSE
