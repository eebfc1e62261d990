SPECIFICATION FairSpec
CONSTANTS
    N = 3
    Budgets <- TrioBudgets
\* The system may stop: a thread waits for a mutex it holds, and every bound can
\* be used up.
CHECK_DEADLOCK FALSE
INVARIANT
    FirstAckIsLast
PROPERTIES
    CandidateWins
    LeaderIsHeard
