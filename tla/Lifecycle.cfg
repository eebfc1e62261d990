SPECIFICATION Spec
CONSTANTS
    Builds = {"plain", "raft"}
    Workers = {w1}
    MaxInFlight = 1
INVARIANTS
    TypeOK
    StruckDecides
    RaftNeverExits
    ExitIsSignalled
PROPERTIES
    PlainStops
    WorkerEnds
CHECK_DEADLOCK FALSE
