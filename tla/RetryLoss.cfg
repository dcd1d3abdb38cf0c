SPECIFICATION Spec
CONSTANTS
    Msgs = {m1}
    Starts <- FewStarts
    Stamps <- FewStamps
    Policies <- FewPolicies
    MaxRuns = 2
    MaxCopies = 6
    Tick = 2
CHECK_DEADLOCK FALSE
INVARIANTS
    NothingLost
