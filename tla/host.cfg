SPECIFICATION MCSpec
CONSTANTS
    c1 = c1
    c2 = c2
    x = x
    Task = {t1}
    Candidate = {c1, c2}
    Foreign = {x}
    Touches <- MCTouches
    Clashes <- MCClashes
    Request = {m1, m2}
    MaxExecutions = 2
    MaxReviews = 2
    Subject = {s1}
    Backend = {1, 2}
    Window = 0
    MaxAttempts = 1
    MaxVerdicts = 1
    MaxEvents = 1
    LastDay = 1
    MaxNews = 2
    Updater = {u1, u2}
    SshKey = {k1}
    Token = {p1}
    User = {a}
    Nothing = Nothing
    Job = {j1}
    MaxRevisions = 2
    MaxStarts = 2
SYMMETRY SlotsAlike
INVARIANTS DoneTasksAreUpstream ReportAddsUp CredentialsAgree
PROPERTIES ApprovedDiffsLand RejectionStands HistoryIsDurable
CHECK_DEADLOCK FALSE
