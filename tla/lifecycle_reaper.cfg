SPECIFICATION FairSpec
CONSTANTS
    a = a
    b = b
    Task = {t1}
    Worker = {a, b}
    Handler = {h1}
    MaxExecutions = 2
    MaxReviews = 1
    MaxCycle = 0
    Slots <- MCOneSlot
    InitialRole <- MCInitialRole
    Limits <- MCLimits
    WorkerRequests <- MCRoleChange
INVARIANT ReviewsPinFinishedWork
PROPERTIES ExpiredLeaseReclaimed AbandonedTaskReturns
CHECK_DEADLOCK FALSE
