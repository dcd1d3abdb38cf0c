SPECIFICATION FairSpec
CONSTANTS
    Subs = {}
    Exchs = {}
    Stoppers = {}
    MaxRuns = 1
CHECK_DEADLOCK FALSE
PROPERTY
    BailedDialClosed
