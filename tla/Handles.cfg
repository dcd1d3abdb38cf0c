SPECIFICATION MCSpec
CONSTANTS
    Stoppers = {p1, p2}
    MaxRuns = 3
    Callers = {c1}
    Keys = {k1, k2, k3}
    MaxDelete = 2
    SlotRuns = 2
CHECK_DEADLOCK FALSE
INVARIANTS
    TypeOK
    NoDoubleClose
    PublishedHandleOpen
    ServingHasHandle
    OpenHandlesOwned
    NotReadyUntried
    NothingMissed
PROPERTIES
    KeepsContract
    KeepsSlot
    AskedRunsEnd
    CallsReturn
