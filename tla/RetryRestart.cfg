SPECIFICATION FairSpec
CONSTANTS
    Msgs = {m1}
    Starts <- FewStarts
    Stamps <- FewStamps
    Policies <- FewPolicies
    MaxRuns = 2
    MaxCopies = 4
    Tick = 2
CHECK_DEADLOCK FALSE
INVARIANTS
    TypeOK
    KeptOnOneChannel
    DeadLettersEarned
    RetriesBounded
    RetryCopiesDelayed
PROPERTIES
    Settles
