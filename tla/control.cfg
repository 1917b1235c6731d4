SPECIFICATION MCSpec
CONSTANTS
    MaxLogins = 2
    MaxPastes = 2
    MaxPrompts = 2
    MaxLosses = 2
    MaxCrashes = 1
    Tools = {a}
    MaxUpdates = 1
    MaxKeys = 2
    MaxRefreshes = 1
    MaxFaults = 2
INVARIANTS HandOversAreExact
PROPERTIES TakenUpLoginsEnd ToolsGetInstalled
CHECK_DEADLOCK FALSE
