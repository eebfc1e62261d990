SPECIFICATION FairSpec
CONSTANTS
    N = 3
    Budgets <- CommitBudgets
CHECK_DEADLOCK FALSE
PROPERTY
    MajorityCommits
