SPECIFICATION Spec
CONSTANTS
    MaxJobs = 2
    MaxBeats = 3
INVARIANTS
    TypeOK
    BreaksTakeBoth
PROPERTIES
    JobAnswered
    ChannelToWorker
    ChannelToController
CHECK_DEADLOCK FALSE
