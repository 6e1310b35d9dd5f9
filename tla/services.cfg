SPECIFICATION Spec
CONSTANTS
    p1 = p1
    p2 = p2
    c1 = c1
    d1 = d1
    d2 = d2
    d3 = d3
    d4 = d4
    s1 = s1
    s2 = s2
    s3 = s3
    l0 = l0
    l1 = l1
    l2 = l2
    w1 = w1
    w2 = w2
    k1 = k1
    k2 = k2
    b1 = b1
    b2 = b2
    NoSeason = NoSeason
    local = local
    remote = remote
    r1 = r1
    r2 = r2
    r3 = r3
    r4 = r4
    r5 = r5
    NoParent = NoParent
    Shown = {"persist", "pipeline", "identities", "canon", "repair", "rate", "sync", "tables"}
    Parsers = {p1, p2}
    Cleaners = {c1}
    Docs = {d1, d2, d3, d4}
    Seasons = {s1, s2, s3}
    Links = {l0, l1, l2}
    MaxTag = 2
    Chunks <- MCChunks
    SeasonOf <- MCSeasonOf
    LinksOf <- MCLinksOf
    TagsOf <- MCTagsOf
    Jobs <- MCJobs
    Stock <- MCStock
    MaxMishaps = 1
    MaxDoc = 3
    Shards = 2
    PageDocs = 1
    WriteBatch = 1
    InCap = 1
    OutCap = 1
    Threads = 1
    Limits = {3}
    FirstPapers <- MCPapers
    LastTime = 2
    MaxTrouble = 1
    MediaRows = {1, 2, 3, 4}
    Works = {w1, w2}
    Home <- MCHome
    Holds <- MCHolds
    Places <- MCPlaces
    Batches <- OneBatch
    MaxVanished = 1
    Keys = {k1, k2}
    Blocks = {b1, b2}
    Entries <- MCEntries
    Attempts = 2
    MaxResolves = 2
    Medias = {1, 2}
    ApplyLimit = 1
    DeletePercent = 50
    RehomePercent = 50
    FirstMedia <- MCFirstMedia
    MaxChanges = 1
    LastProvider = 3
    BaseInterval <- MCInterval
    MaxStretch = 2
    Backlog <- MCBacklog
    PageLinks = 2
    VerifyLimit = 5
    TimeBudget = 8
    QueueCap = 1
    ProbeThreads = 1
    Sides = {local, remote}
    Ids = {r1, r2, r3, r4, r5}
    SyncTableSeq <- MCTables
    Mutable = {1}
    KeyOf <- MCKeyOf
    ParentOf <- MCParentOf
    Overlap = 3
    TxTime = 1
    RunTime = 1
    FirstRows <- MCFirstRows
    Alternate = TRUE
    LastTick = 4
    SourceKinds = {"sheet", "records", "index"}
    SheetCount = 2
    MaxRows = 3
    PageRows = 2
    MaxPages = 1
    MaxHitches = 1
INVARIANTS
    TypeOK
     TagCounts DoneStored 
    EachOnce
    IdentityUnique TwoPasses  WorkCounts
    MarksTrue
PROPERTIES
    TypedKeepsIdentity ComesToRest  Paced  ReadInTheEnd
CHECK_DEADLOCK FALSE
