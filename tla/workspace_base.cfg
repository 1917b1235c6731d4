SPECIFICATION MCSpec
CONSTANTS
    Call = {k1, k2}
    MaxUp = 2
    MaxWork = 1
INVARIANT FreshStartsFromBase
CHECK_DEADLOCK FALSE
