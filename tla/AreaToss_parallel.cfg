SPECIFICATION Spec
CONSTANTS
    A = A
    B = B
    C = C
    None = None
    Nodes <- All
    Author = A
    Subs <- Circles
    Keys <- Readers
    Parallel <- OnlyC
    Long = TRUE
    MaxTroubles = 0
INVARIANTS ReadOnce
CHECK_DEADLOCK FALSE
