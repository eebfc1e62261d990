SPECIFICATION Spec
CONSTANTS
    N = 2
    Budgets <- PairBudgets
\* The system may stop: a thread waits for a mutex it holds, and every bound can
\* be used up.
CHECK_DEADLOCK FALSE
INVARIANTS
    TypeOK
    RepliesMatchCalls
    MatchIsReplicated
