SPECIFICATION Spec
CONSTANTS
    Workers = {w1, w2}
    Symbols = {"AAPL"}
    ShortWindow = 2
    LongWindow = 3
    InitialCapital = 20
    AtNoPrice = 0
    Files <- MCFiles
    Jobs <- MCJobs
    MaxRewrites = 1
INVARIANTS
    TypeOK
    SameAnswer
    SignalsAreCrossings
    LedgerBalances
    DrawdownIsWorst
PROPERTY
    OverlapAgrees
