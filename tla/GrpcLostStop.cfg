SPECIFICATION FairSpec
CONSTANTS
    Stoppers = {p1}
    MaxRuns = 1
CHECK_DEADLOCK FALSE
PROPERTIES
    AskedRunsEnd
