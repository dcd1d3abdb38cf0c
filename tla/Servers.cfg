SPECIFICATION MCSpec
CONSTANTS
    Stoppers = {p1, p2}
    GrpcStops = {p1}
    MaxRuns = 2
CHECK_DEADLOCK FALSE
INVARIANTS
    TypeOK
    OneGracefulStop
    PortReleased
    StoppedIsQuiet
    ServingIsPublished
    PortOwned
    HealthyIsBound
    StopsCloseOnce
PROPERTIES
    KeepsContract
    CancelledRunsEnd
    HttpKeepsContract
    HttpRunsEnd
