SPECIFICATION Spec
CONSTANTS
    Subs = {s1}
    Exchs = {}
    Stoppers = {p1}
    MaxRuns = 2
CHECK_DEADLOCK FALSE
INVARIANTS
    TypeOK
    TopologyRestored
    StopNeverMarksDead
    NilOnlyWhenAsked
    StartBoundDeathVisible
