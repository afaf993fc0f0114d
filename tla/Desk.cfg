SPECIFICATION DeskSpec
CONSTANTS
    \* RunProcess
    a = a
    b = b
    c = c
    t1 = t1
    Comment = {a, b, c}
    Thread = {t1}
    ThreadOf <- OneThread
    TextOf <- TextsOf
    Process = {p1, p2}
    Droppable = {c}
    BiteBudget = 1
    SlowRun = FALSE
    Backlog <- TwoBatches
    CrashBound = 1
    OutageBound = 1
    \* Edits
    v0 = v0
    Actor = {a1, a2}
    NoOne = NoOne
    Cell = {title}
    Setting = {k1}
    Value = {v0, v1}
    ProposalBound = 2
    ForeignBound = 1
    ConsoleDeaths = 1
    \* Llm
    Runs = {"treat", "rescore"}
    RoleOrder <- JobOrder
    Serves <- RolesOf
    Key <- ModelOf
    NoKey = NoKey
    N = 2
    Waits429 = {0, 2}
    DefaultWait = 1
    ClockBound = 1
    CallBound = 2
    LlmRunBound = 2
    \* Corpus
    m1 = m1
    Nuggets = {n1, n2}
    Models = {m1, m2}
    NoModel = NoModel
    Overlap = FALSE
    Sweeps = TRUE
    SpaceFaultBound = 2
    ModelBound = 2
    RepairBound = 2
    \* Backup
    SetBound = 2
    Keep = 1
    WriterBound = 1
    RotBound = 1
    KillBound = 2
    RestoreBound = 1
    \* Schedule
    Tasks <- DeclaredTasks
    TaskCommand <- OwnCommand
    Cadences = {"daily", "weekly"}
    Scopes = {"all", "some"}
    CodeVersions = 2
    ScheduleOps = 2
    ScheduleFaults = 1
    \* Budget
    Checkers = {q1, q2}
    DailyBudget = 2
    Days = 2
    CheckBound = 4
    \* GroqChat
    Timeout = 4
    MaxRetries = 2
    Asked = {0, 2, 9}
    NoHeader = NoHeader
    LongestWait = 5
    Oversleep = 1
    \* Themes
    Chunks = {1, 2, 3, 4}
    NuggetOf <- Owner
    Readings <- Found
    Misreadings <- Confused
    Tighter <- TighterOnes
    MinSize = 2
    MinNuggets = 2
    Largest = 3
    Groupers = {p1, p2}
    Drafters = {t1}
    Savers = {s1}
    ThemePasses = 2
    DraftBound = 1
    \* CsvExport
    Exporters = {e1, e2}
    Shards = {"comments", "ideas"}
    TreeBound = 3
    ExportKills = 2
    DiskFaults = 2
    \* Settings
    Profiles = {"config", "config-live"}
    Primary = "config"
    Editors = {g1, g2}
    Urls = {"u1", "u2"}
    Stems = {"a"}
    SuffixBound = 3
    Chars = {1, 2}
    ModelNames = {"m", "n"}
    SettingBound = 2
    SettingKills = 1
    \* Schema
    Openers = {o1, o2}
    Tables = {"runs", "clusters"}
    DerivedTables = {"clusters"}
    Builds = 2
    Declares <- TableShapes
    AddColumns <- AlteredIn
    SchemaVersion <- OneVersion
    Together = FALSE
    RowBound = 2
    OpenBound = 3
    OpenerKills = 1
    \* ChatTurn
    ReplyCap = 2
    RoundCap = 2
    DemandBound = 3
    MaxRounds = 3
    Window = 2
    TurnBound = 2
    TurnKills = 1
    \* Packs
    NuggetKeys = {x1, x2}
    RunKeys = {x1}
    IdeaRows = {y1}
    Packers = {u1, u2}
    PackBound = 2
INVARIANT PackAgrees
INVARIANT BatchesAreKept
INVARIANT OneSpace
INVARIANT AppliedIsDesired
INVARIANT SearchesPaid
 
INVARIANT ExportWhole
INVARIANT ProfilesKeepTheirOwn
INVARIANT RowsKept
INVARIANT TurnIsAccounted
INVARIANT RepliesAreTrue
INVARIANT BackupsAreGood
INVARIANT EditsAreTrue
INVARIANT NothingTwice
 
 
SYMMETRY SameActors
CHECK_DEADLOCK FALSE
