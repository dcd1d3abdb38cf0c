SPECIFICATION Spec
CONSTANTS
    Stoppers = {p1, p2}
    MaxRuns = 3
CHECK_DEADLOCK FALSE
INVARIANTS
    NilAfterStop
