SPECIFICATION FairSpec
CONSTANTS
    Wants <- SomeWants
    MaxRest = 1
    Msgs = 2
    MaxReplies = 1
    MaxInfos = 1
    MaxPings = 1
    MaxDones = 1
INVARIANTS SessionOK InOrder
PROPERTIES Finishes
CHECK_DEADLOCK FALSE
