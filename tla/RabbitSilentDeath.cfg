SPECIFICATION Spec
CONSTANTS
    Subs = {s1}
    Exchs = {}
    Stoppers = {}
    MaxRuns = 1
CHECK_DEADLOCK FALSE
INVARIANT
    DeathVisible
