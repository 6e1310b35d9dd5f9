SPECIFICATION Spec
CONSTANTS
    Docs = {d1, d2}
    Workers = {w1, w2}
    MAX_PARSE_ATTEMPTS = 3
    Lease = 3
    Limit = 2
    WriteBatch = 2
    MaxVersion = 1
    MaxBackoff = 2
    MaxExponent = 20
    Faults = {}
    Poison = {d1}
INVARIANT HealthyNeverFails
