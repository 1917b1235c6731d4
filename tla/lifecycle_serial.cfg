SPECIFICATION Spec
CONSTANTS
    a = a
    b = b
    Task = {t1}
    Worker = {a, b}
    Handler = {h1}
    MaxExecutions = 2
    MaxReviews = 2
    MaxCycle = 1
    Slots <- MCOneSlot
    InitialRole <- MCInitialRole
    Limits <- MCOneLimit
    WorkerRequests <- MCPauses
INVARIANTS TasksAreAccountedFor AttemptsAreCurrent SlotsNeverLeak
CHECK_DEADLOCK FALSE
