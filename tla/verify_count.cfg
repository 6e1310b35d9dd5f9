SPECIFICATION Spec
CONSTANTS
    Resources = {r1, r2}
    Workers = {w1}
    Manual = {}
    Pipelines = {}
    Lease = 3
    Limit = 2
    WriteBatch = 2
    ValidTTL = 2
    InvalidTTL = 3
    AttemptsCap = 3
    MaxBackoff = 2
    MaxExponent = 20
    Outcomes = {"VALID", "INVALID"}
    Faults = {}
INVARIANT CountExact
