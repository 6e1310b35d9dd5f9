SPECIFICATION Spec
CONSTANTS
    MaxId = 5
    Gaps = {2}
    PageSize = 1
    MaxPages = 1
    ChunkPages = 1
    Workers = {w1, w2}
    MaxFailures = 1
    Faults = {"crash", "request", "rewind", "overrun", "kept"}
    MaxFaults = 1
    Started <- OldSource
SYMMETRY Symmetry
INVARIANTS NothingSkipped CatchUpCovered
