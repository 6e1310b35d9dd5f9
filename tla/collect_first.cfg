SPECIFICATION Spec
CONSTANTS
    MaxId = 4
    Gaps = {2}
    PageSize = 1
    MaxPages = 2
    ChunkPages = 1
    Workers = {w1, w2}
    MaxFailures = 2
    Faults = {"request", "overrun"}
    MaxFaults = 1
    Started <- NewSource
INVARIANTS NothingSkipped
