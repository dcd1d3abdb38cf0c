SPECIFICATION FairSpec
CONSTANTS
    Subs = {}
    Exchs = {}
    Stoppers = {p1, p2}
    MaxRuns = 2
CHECK_DEADLOCK FALSE
INVARIANTS
    NoDoubleClose
PROPERTIES
    KeepsContract
    AskedRunsEnd
    AbandonedDialClosed
