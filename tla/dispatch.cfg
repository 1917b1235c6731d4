SPECIFICATION SchedSpec
CONSTANTS
    w1 = w1
    w2 = w2
    w3 = w3
    Worker = {w1, w2, w3}
    None = None
    Task = {1, 2}
    Slots <- MCSlots
    Scope = {w1, w2, w3}
    Fits <- MCFits
    FirstRole <- MCRole
    Limits = {1, 2}
    MaxFaults <- MCFaults
    MaxChanges = 1
INVARIANT DiagnosticsAgree
PROPERTIES NoReadTaskStarves
CHECK_DEADLOCK FALSE
