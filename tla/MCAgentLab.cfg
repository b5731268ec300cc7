SPECIFICATION Spec
CONSTANTS
    Titles = {x, y}
    Tags = {g1, g2}
    Drafts <- MCDrafts
    NoCases = NoCases
    NoRow = NoRow
    Faults = {"model", "db", "judge", "tool", "answer"}
    x = x
    y = y
    g1 = g1
    g2 = g2
CHECK_DEADLOCK FALSE
INVARIANTS
    TypeOK
    ApprovedIsTested
    ExitIsTrue
    InstallIsClean
PROPERTIES
    Ends
