CONSTANTS
    Nodes = {1, 2}
    Predicates = {1, 2}
    Links <- TwoLinks
    Limit = 1
    MaxEdits = 1
    ColdStart = TRUE
    MaxStrays = 1
    Absent = Absent
    None = None
SPECIFICATION Spec
CHECK_DEADLOCK FALSE
INVARIANTS
    EdgesHaveEnds
    LoadingIsFetched
PROPERTIES
    NeverCollapsed
    UntruncatedIsComplete
