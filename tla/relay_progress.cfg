SPECIFICATION FairParts
CONSTANTS
    NoValue = NoValue
    d1 = d1
    u1 = u1
    k1 = k1
    t1 = t1
    t2 = t2
    Parts = {"collect", "answer", "drain", "poll"}
    Queues <- MCQueues
    Messages = {1, 2, 3, 4}
    To <- MCTo
    SizeOf <- MCSizeOf
    ByteCap <- MCByteCap
    CountCap <- MCCountCap
    Budgets <- MCBudgets
    BudgetsOf <- MCBudgetsOf
    BudgetCap <- MCBudgetCap
INVARIANTS BudgetsHold
PROPERTIES RelayLeavesNothing
CHECK_DEADLOCK FALSE
