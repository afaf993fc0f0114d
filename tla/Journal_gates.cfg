SPECIFICATION JournalSpec
CONSTANTS
    Text = {t1, t2}
    Body = {b1, b2}
    None = None
    NeedsExperiment = TRUE
    Keyed = TRUE
    EditDuring <- Slow
    EditBound = 2
    EvidenceBound = 1
    PubBound = 1
    HaltBound = 1
INVARIANT PastItsGates
INVARIANT OnePostPerVersion
PROPERTY PublicIsApproved
CHECK_DEADLOCK FALSE
SYMMETRY Symmetric
