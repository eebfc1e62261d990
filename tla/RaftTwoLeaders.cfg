SPECIFICATION Spec
CONSTANTS
    N = 2
    Budgets <- RivalBudgets
CHECK_DEADLOCK FALSE
INVARIANTS
    ElectionSafety
