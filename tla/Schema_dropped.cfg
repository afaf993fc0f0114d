SPECIFICATION SchemaSpec
CONSTANTS
    Openers = {o1, o2}
    Tables = {"runs", "clusters"}
    DerivedTables = {"clusters"}
    Builds = 3
    Declares <- TableShapes
    AddColumns <- AlteredIn
    SchemaVersion <- OneVersion
    Together = FALSE
    RowBound = 2
    OpenBound = 3
    OpenerKills = 0
INVARIANT RowsKept
CHECK_DEADLOCK FALSE
