SPECIFICATION FairSpec
CONSTANTS
    Docs = {d1, d2}
    Workers = {w1, w2}
    MAX_PARSE_ATTEMPTS = 3
    Lease = 3
    Limit = 2
    WriteBatch = 2
    MaxVersion = 2
    MaxBackoff = 2
    MaxExponent = 20
    Faults = {"crash", "abort", "conflict", "failure"}
    Poison = {}
INVARIANTS TypeOK NoDoubleParse LeaseCovers RetryLimit
PROPERTIES TerminalStable ImplementsTaskQueue Settles
