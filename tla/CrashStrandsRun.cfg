SPECIFICATION FairSpec
CONSTANTS
    Runs = {r1}
    Tasks = {t1}
    TaskId <- MCTaskId
    MaxAttempts <- MCTwice
    Resumable = {}
    Cpu <- MCUnit
    Memory <- MCUnit
    CapacityCpu = 2
    CapacityMemory = 2
    FractionPercent = 100
    Keys = {}
    NoKey = NoKey
    NoTask = NoTask
    Workers = {w1}
    Workspaces = {1, 2, 3, 4}
    AttemptBound = 3
    Reports <- MCReports
    PreflightFails = FALSE
    WorkFails = FALSE
    Retried = {}
    CallerCancels = 0
    MaxCrashes = 1
CHECK_DEADLOCK FALSE
PROPERTIES
    EveryRunSettles
