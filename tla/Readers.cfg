SPECIFICATION ReadersSpec
CONSTANTS
    \* Fetch
    a = a
    b = b
    c = c
    d = d
    t1 = t1
    t2 = t2
    Comment = {a, b, c, d}
    Thread = {t1, t2}
    NoThread = none
    ThreadOf <- Home
    Fetcher = {f1}
    Kept = {a, b, d}
    ThreadCap = 0
    CommentBudget = 1
    FetchFailBound = 1
    \* Rotation
    Feeds <- Feed3
    BrowserFeeds = {"a"}
    SingleFeeds = {"c"}
    PortalFeeds = {"b"}
    Depth = 2
    PostCeiling = 1
    CommentCeiling = 1
    LiveBound = 3
    BreakBound = 1
    \* Backfill
    Stories = {s1, s2, s3, s4}
    Quiet = {s4}
    Times = 5
    PageSize = 2
    Shared = FALSE
    WalkBound = 1
    LostBound = 1
    \* Signals
    i1 = i1
    i2 = i2
    x1 = x1
    x2 = x2
    Items = {i1, i2}
    Texts = {x1, x2}
    NQueries = 2
    Matches <- QueryHits
    Collectors = {c1}
    Outcomes = {won}
    CloseFloor = 1
    OperatorDuring <- Aside
    None = None
    RulesBound = 2
    EventBound = 2
    OperationBound = 1
    FaultBound = 1
    PassBound = 2
    \* SignalChain
    NSources = 2
    RequestBudget = 2
    ChainQueries = 2
    Retries = 2
    Day = 2
    Waits = {1}
    TimeBound = 2
    LedgerBound = 2
    ChainFaultBound = 1
    \* SignalExport
    Records = {r1, r2}
    NoFile = NoFile
    DirSyncs = TRUE
    UnlinkFails = FALSE
    Retires = FALSE
    WriteBound = 3
    ExportBound = 2
    LoadBound = 1
    \* Listings
    Adverts <- TwoAdverts
    PortalOf <- PortalNames
    Prices = {1, 2}
    Kinship <- Kinds
    Visitors = {v1}
    ListingBound = 3
    AdvertFaultBound = 1
    \* IdeaArchive
    Nugget = {1, 2, 3, 4}
    Backlog = {1, 2, 3, 4}
    NuggetThread <- OneThread
    ChunkCap = 2
    Worker = {w1}
    UseIndex = TRUE
    RescorePerRun = 2
    StallAttempts = 1
    SlowCritic = FALSE
    Operator = {"resynth", "mark", "standin"}
    CrashBound = 0
    IdeaBound = 2
    \* Cycle
    Turns = {q1, q2}
    QueueCeiling = 2
    FetchBound = 1
    CycleBound = 3
    CycleKills = 1
    \* SpecJourney
    SpecIds = {e1}
    Commanders = {p1, p2}
    ActorKinds = {"human", "agent"}
    GatePages = 2
    MaxSamples = 3
    RunLimit = 1
    CommandBound = 5
    SpecKills = 1
    \* Leads
    RoomPosts = {z1}
    BoardPosts = {z2}
    CompanyOf <- Hirer
    Says = {"hiring", "selling"}
    Misshapen = {"selling"}
    Buying = {"hiring", "selling"}
    Practising = {}
    Routed = {"hiring"}
    Scorers = {"scheduled", "shell"}
    Clerks = {k1}
    People = {h1}
    Written = {1, 3}
    NoLead = NoLead
    Unread = Unread
    LeadEvents = 1
    ScoreBound = 2
    SheetBound = 1
    MarkBound = 1
INVARIANT HandedOnce
INVARIANT SkippedIsQueued
INVARIANT NoneOvertaken
INVARIANT NoHole
INVARIANT BudgetKept
INVARIANT VouchedIsTrue
 
 
INVARIANT ActiveIsProved
 
 
 
 
SYMMETRY SameTexts
CHECK_DEADLOCK FALSE
