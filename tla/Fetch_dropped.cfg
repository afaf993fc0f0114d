SPECIFICATION FetchSpec
CONSTANTS
    a = a
    b = b
    c = c
    d = d
    t1 = t1
    t2 = t2
    Comment = {a, b, c, d}
    Thread = {t1, t2}
    NoThread = none
    ThreadOf <- Home
    Fetcher = {f1}
    Kept = {a, b, d}
    ThreadCap = 0
    CommentBudget = 0
    FetchFailBound = 1
INVARIANT NothingLost
