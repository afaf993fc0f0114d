SPECIFICATION BackfillSpec
CONSTANTS
    Stories = {s1, s2, s3, s4, s5}
    Quiet = {s5}
    Times = 5
    PageSize = 2
    Shared = TRUE
    WalkBound = 2
    LostBound = 1
INVARIANT NoHole
