CONSTANTS
    None = None
    Label = Label
    DigitalDocument = DigitalDocument
    DigitalCopyShape = DigitalCopyShape
    LangString = LangString
    String = String
    GYear = GYear
    TemporalTypes = {GYear}
    NumericTypes = {}
    source = source
    contributor = contributor
    missing = missing
    role = role
    AgentRole = AgentRole
    Person = Person
    Organization = Organization
    hasRole = hasRole
    ReadOnlyShapes = {contributor}
    Source = Source
    Agent = Agent
    copyOf = copyOf
    by = by
    en = en
    it = it
    Type = Type
    Threads = {t1, t2}
    Nodes = {1, 2, 3}
    Texts = {en, it}
    PageSize = 1
    SearchSize = 3
    Schema <- SmallSchema
    Start <- FirstGraph
    Candidates <- Edited
    Calls <- SomeCalls
    MaxCalls = 2
    MaxEdits = 0
SPECIFICATION Spec
CHECK_DEADLOCK FALSE
INVARIANTS ShapesAreFound
