SPECIFICATION Spec
CONSTANTS
    Stoppers = {p1}
    MaxRuns = 1
CHECK_DEADLOCK FALSE
INVARIANTS
    NoDoubleClose
