CONSTANTS
    Nodes = {1, 2}
    Predicates = {1}
    Limit = 1
    MaxEdits = 0
    ColdStart = FALSE
    MaxStrays = 1
    Links <- OneLink
    Absent = Absent
    None = None
SPECIFICATION ViewFairSpec
CHECK_DEADLOCK FALSE
INVARIANTS CanvasShowsMap
PROPERTIES LoadingEnds
