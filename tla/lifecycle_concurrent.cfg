SPECIFICATION Spec
CONSTANTS
    a = a
    b = b
    Task = {t1}
    Worker = {a, b}
    Handler = {h1, h2}
    MaxExecutions = 2
    MaxReviews = 2
    MaxCycle = 1
    Slots <- MCOneSlot
    InitialRole <- MCInitialRole
    Limits <- MCOneLimit
    WorkerRequests <- MCNoRequests
SYMMETRY HandlersAlike
INVARIANTS MergeRequiresApproval AttemptBudgets
PROPERTIES HistoryIsImmutable ContractKept
CHECK_DEADLOCK FALSE
