SPECIFICATION FairSpec
CONSTANTS
    Subs = {s1}
    Exchs = {e1}
    Stoppers = {p1}
    MaxRuns = 1
CHECK_DEADLOCK FALSE
INVARIANTS
    TopologyRestored
PROPERTIES
    ConsumersEnd
