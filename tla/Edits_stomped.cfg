SPECIFICATION EditSpec
CONSTANTS
    Actor = {a1}
    NoOne = NoOne
    Cell = {title, problem_statement}
    Setting = {}
    Value = {v0, v1}
    ProposalBound = 2
    ForeignBound = 0
    ConsoleDeaths = 0
PROPERTY NothingStomped
CHECK_DEADLOCK FALSE
