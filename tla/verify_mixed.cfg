SPECIFICATION FairSpec
CONSTANTS
    Resources = {r1}
    Workers = {w1, w2}
    Manual = {}
    Pipelines = {p1}
    Lease = 2
    Limit = 1
    WriteBatch = 1
    ValidTTL = 2
    InvalidTTL = 3
    AttemptsCap = 3
    MaxBackoff = 2
    MaxExponent = 20
    Outcomes = {"VALID", "INVALID", "NEED_PASSWORD", "RATE_LIMITED", "ERROR", "UNSUPPORTED"}
    Faults = {"crash", "abort"}
INVARIANTS TypeOK 
 
