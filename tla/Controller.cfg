SPECIFICATION FairSpec
CONSTANTS
    MaxJobs = 2
    MaxWorkers = 2
    MaxFaults = 1
    LateJobs = 1
\* The system may stop: the threads can lock each other out, and every bound
\* on submissions and faults can be used up.
CHECK_DEADLOCK FALSE
INVARIANTS
    TypeOK
    NoDoubleDispatch
    NeverForgotten
PROPERTIES
    RevokedOnlyByRemoval
    ImplementsService
    QueueDrains
    DeadWorkerRemoved
