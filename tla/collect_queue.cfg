SPECIFICATION FairSpec
CONSTANTS
    MaxId = 6
    Gaps = {2}
    PageSize = 1
    MaxPages = 2
    ChunkPages = 2
    Workers = {w1, w2}
    MaxFailures = 2
    Faults = {"crash", "request", "rewind", "reset", "disable"}
    MaxFaults = 2
    Started <- UnmarkedSource
INVARIANTS TypeOK  NothingSkipped
PROPERTIES Collected
