SPECIFICATION MCSpec
CONSTANTS
    w1 = w1  w2 = w2  a = a  t = t  h = h
    e1 = e1  e2 = e2  b1 = b1  b2 = b2  r1 = r1
    t1 = t1  t2 = t2  t3 = t3
    Worker = {w1, w2}
    NoWorker = NoWorker
    NoJob = NoJob
    Entity = {a, t, h}
    KindOf <- MCKindOf
    MaxRow = 6
    FirstTop <- MCFirstTop
    BlockEnds = {1, 4, 6}
    Unkeyed <- MCUnkeyed
    ProviderPage = 2
    RowCap = 4
    MaxAttempts = 2
    PagesPerHour = 1
    MaxMishaps = 2
    Seen = h
    KeyOf <- MCKeyOf
    LocalPage = 1
    SeenCap = 2
    Endpoints <- MCEndpoints
    Unable <- MCUnable
    Caller = {b1, b2, r1}
    KindOfCall <- MCKindOfCall
    StartOf <- MCStartOf
    DemoteAfter = 1
    MaxLapses = 1
    BlockWriter = {w1, w2}
    TxsOf <- MCTxsOf
    MaxAborts = 2
    Notifier = {w1, w2}
    Webhook = {h}
    Hash = {b1, b2}
    MaxStumbles = 1
    Addr = {b1, b2}
    TxRow = {t1, t2}
    AddrsOf <- MCAddrsOf
    MaxUndone = 1
    MaxUpsets = 1
    Horizon = 5
    Start = 1
    Width = 2
    Ahead = 1
    LagLimit = 3
    Margin = 2
    HighWater = 1
    BodyWindow = 2
    CompactWindow = 3
    MaxLosses = 1
    Inserter = {w1, w2, r1}
    NumTokens = 2
    MaxGb = 3
    FirstGb = {1}
    FirstStored = {0, 1}
    MaxGlitches = 3
    Client = {w1, w2, r1}
    Shared = {w1, w2}
    Request = {b1, b2, t1}
    ProcOf <- MCProcOf
    Bucket = {"history"}
    CostOf <- MCCostOf
    MonthlyMax = 5
    WindowMax = 1
    MaxMonths = 2
    MaxBlips = 1
    Editor = {w1, w2}
    MaxCreatives = 2
    TypedId = {0, 1}
    MaxActs = 4
    MaxFaults = 1
    MaxTop = 4
    MaxRewinds = 1
    Cutoffs = {3}
INVARIANTS
    CursorBacked
    NoBlockSkipped
    CleanMeansUntouched
    WavesPerLapse
    RowsExact
    AtMostOnce
    CountsConserved
    NoOrphans
    FloorTruthful
    RecentRowsKept
    NoCircularWait
    NeverWedged
    BillBounded
    LedgerExact
    ArtworkOnItsCreative
    OverwritesSeen
    ReportExact
    GreenIsTrue
PROPERTIES
    WatermarkForward
    SeamExact
    EntitiesSettle
    DiskAgrees
CHECK_DEADLOCK FALSE
