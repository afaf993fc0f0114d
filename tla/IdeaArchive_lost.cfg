SPECIFICATION Spec
CONSTANTS
    Nugget = {1, 2, 3, 4}
    Backlog = {1, 2, 3, 4}
    NuggetThread <- Parity
    ChunkCap = 0
    Worker = {w1, w2}
    UseIndex = TRUE
    RescorePerRun = 1
    StallAttempts = 2
    SlowCritic = FALSE
    Operator = {}
    CrashBound = 1
    IdeaBound = 3
INVARIANT ClaimedIsSupported
SYMMETRY WorkerSymmetry
