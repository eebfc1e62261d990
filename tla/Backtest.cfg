SPECIFICATION Spec
CONSTANTS
    Workers = {w1, w2}
    Symbols = {"up", "down"}
    Bars = 8
    Close <- MCClose
    ShortWindow = 2
    LongWindow = 3
    InitialCapital = 11
    AtNoPrice <- MCAtNoPrice
    Interval = 2
    MaxCrashes = 2
    MaxLate = 1
    MaxRestarts = 1
    MaxErrors = 1
SYMMETRY MCSymmetry
\* The job gets its result and nothing is left to do.
CHECK_DEADLOCK FALSE
INVARIANTS
    TypeOK
    ResultIsRight
    ProgressIsKept
    NoLeftover
