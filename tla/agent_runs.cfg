SPECIFICATION MCSpec
CONSTANTS
    t1 = t1
    t2 = t2
    t3 = t3
    Tool <- MCTool
    ToolName <- MCToolName
    NoId = {t3}
    Timed = {t2}
    MaxActive = 2
    TimedLimit = 2
    HardLimit = 3
    ToolStall = 2
    ModelStall = 2
    ProbeInterval = 1
    ProbeGrace = 1
    MaxMissed = 2
    MaxInactive = 2
    Call = {c1, c2, c3, c4}
    Valid = {c1, c2}
    MaxInvalid = 2
    ToolLimit = 3
    Lane = {l1, l2}
    Budget = 2
    Stall = 3
    MaxWall = 8
INVARIANTS WatchdogIsExact OneVerdict BudgetIsTheAgents
PROPERTIES RunsEnd
CHECK_DEADLOCK FALSE
