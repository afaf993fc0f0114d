SPECIFICATION CorpusSpec
CONSTANTS
    Nuggets = {n1, n2}
    Models = {m1, m2}
    NoModel = NoModel
    Overlap = FALSE
    Sweeps = TRUE
    SpaceFaultBound = 2
    ModelBound = 2
    RepairBound = 2
INVARIANT RebuiltIsSame
CHECK_DEADLOCK FALSE
