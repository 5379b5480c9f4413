SPECIFICATION MCSpec
CONSTANTS
    r1 = r1
    r2 = r2
    r3 = r3
    EncBlkSize = 4
    TagSize = 1
    PktOverhead = 1
    PktEncOverhead = 2
    Payloads <- FewPayloads
    MinSizes <- FewMinSizes
    MaxWrappers = 3
    MaxHops = 3
    MTHBlockSize = 2
    HashSizes <- FewHashSizes
    MaxWrite = 5
    Versions = {1, 2}
    FileSize <- TwoSizes
    ChunkSize = 2
    Reassemblers = {r1, r2, r3}
    Keep = {r3}
    MaxFaults = 2
INVARIANTS AreaAtLeastMinSize
