SPECIFICATION FairSpec
CONSTANTS
    a = a
    b = b
    Task = {t1}
    Worker = {a, b}
    Handler = {h1, h2}
    MaxExecutions = 2
    MaxReviews = 1
    MaxCycle = 0
    Slots <- MCOneSlot
    InitialRole <- MCInitialRole
    Limits <- MCOneLimit
    WorkerRequests <- MCNoRequests
PROPERTY AbandonedTaskReturns
CHECK_DEADLOCK FALSE
