SPECIFICATION Spec
CONSTANTS
    Resources = {r1, r2, r3}
    Workers = {w1, w2}
    Manual = {}
    Pipelines = {}
    Lease = 3
    Limit = 2
    WriteBatch = 2
    ValidTTL = 2
    InvalidTTL = 3
    AttemptsCap = 3
    MaxBackoff = 2
    MaxExponent = 20
    Outcomes = {"VALID", "INVALID", "ERROR"}
    Faults = {}
SYMMETRY Symmetry
INVARIANTS  RetiredIffConfirmed NeverOverstates
PROPERTY RetiresWhenDue
