SPECIFICATION PlanFairSpec
CONSTANTS
    Planned <- MCPlanned
    MinZero = 1
    Worthy = {"h"}
    Springs = {}
    OtherRuns = FALSE
PROPERTY ProbedInTurn
CHECK_DEADLOCK FALSE
