SPECIFICATION PipelineFairSpec
CONSTANTS
    MaxId = 5
    Gaps = {1}
    PageSize = 1
    MaxPages = 1
    ChunkPages = 1
    Workers = {w1}
    Pipelines = {p1}
    PlanPages = 2
    MaxFailures = 1
    Faults = {"crash", "request"}
    MaxFaults = 1
    Started <- OldSource
INVARIANTS PipelineTypeOK Accounted
PROPERTIES StoredOrLost
