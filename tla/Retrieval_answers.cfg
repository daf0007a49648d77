\* A brain committed without a runtime; four commands, queries in between.
SPECIFICATION Spec
CONSTANTS
    m1 = m1  m2 = m2  a = a  b = b  s = s  c = c
    Modules = {m1, m2}
    Blocks = {a, b, s, c}
    Silent = {s}
    Home <- MCHome
    Starts <- MCStarts
    Foreign <- MCForeign
    Here = Here
    There = There
    None = None
    Unknown = Unknown
    Probe = Probe
    MaxSteps = 4
    ModuleOrder <- MCOrder
    Declared <- MCDeclared
    Large = {m2}
    Says = {a, b, c}
    Labelled = {a}
    Fits = {a, s, c}
    Superseded = {b}
    Edges <- MCEdges
    Queries <- MCQueries
    Overfetches = {1, 2}
    ExpandLimit = 1
    Rankings <- MCRankings
    MaxAsked = 2
INVARIANTS TypeOK PublishedLayersDescribe RuntimeIsProbed AnswersHold TruncationIsHonest
\* The commands are bounded.
CHECK_DEADLOCK FALSE
