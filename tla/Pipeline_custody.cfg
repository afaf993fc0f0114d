SPECIFICATION PipelineFairSpec
CONSTANTS
    a = a
    b = b
    t1 = t1
    Comment = {a, b}
    Thread = {t1}
    ThreadOf <- OneThread
    Fetcher = {f1}
    NoThread = NoThread
    Kept = {a, b}
    ThreadCap = 0
    CommentBudget = 0
    FetchFailBound = 0
    TextOf <- Texts
    Process = {p1}
    Droppable = {b}
    BiteBudget = 1
    SlowRun = FALSE
    Backlog <- Empty
    CrashBound = 1
    OutageBound = 1
PROPERTY KeepsCustody
PROPERTY EveryCommentSettles
