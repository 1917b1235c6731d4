SPECIFICATION MCSpec
CONSTANTS
    MaxMishaps = 3
    Claimant = {h1, h2}
    MaxExecutions = 3
    MaxChanges = 2
    Run = {r1, r2, r3}
    Workspace = {w1, w2, w3}
    Nowhere = Nowhere
    MaxUid = 3
    Reserved = {1}
    DaemonUid = 1
    MaxFailures = 1
    Rounds = 3
    MaxLayers = 3
    MaxBinds = 3
    Model = {m1}
    NoModel = NoModel
    MaxUpdates = 2
    MaxShifts = 1
    MaxTroubles = 1
INVARIANTS
    IdentitiesAreSeparate
    ReadWrappersAreTransparent
    SessionFilesHold
PROPERTIES
    RetiredStaysOut
    FreshCodeHelps
    AttemptsContinue
    ModelSelectionHolds
CHECK_DEADLOCK FALSE
