SPECIFICATION FairSpec
CONSTANTS
    i = i
    r = r
    Session <- MCSession
    Review <- MCReview
    MaxClaims = 2
    MaxSlots = 2
    MaxLost = 1
    MaxCrashes = 1
    MaxOrders = 1
INVARIANTS SessionsAreSingle WaitsOnlyForStaleJob
PROPERTIES HeartbeatsGoOn AbandonedLeaseEnds
