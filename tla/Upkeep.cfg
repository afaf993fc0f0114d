SPECIFICATION UpkeepFairSpec
CONSTANTS
    \* IdeaArchive
    Nugget = {1, 2, 3}
    Backlog = {1, 2}
    NuggetThread <- OneThread
    ChunkCap = 0
    Worker = {w1, w2}
    UseIndex = FALSE
    RescorePerRun = 1
    StallAttempts = 2
    SlowCritic = FALSE
    Operator = {}
    CrashBound = 1
    IdeaBound = 3
    \* Jobs
    Console = {c1, c2}
    SlowJob = FALSE
    JobBound = 3
    RestartBound = 2
    \* Plan
    Planned <- Planned3
    MinZero = 1
    Worthy = {"h"}
    Springs = {"h"}
    OtherRuns = FALSE
    \* Requests
    Conns = {k1}
    Calls <- Callable
    BodyLimit = 1
    DrainLimit = 2
INVARIANT EvidenceIsSound
INVARIANT AnswerArrives
PROPERTY WaitingIsServed
PROPERTY JobsSettle
PROPERTY ProbedInTurn
PROPERTY ConnectionsEnd
