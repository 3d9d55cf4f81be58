SPECIFICATION WorkerSpec
CONSTANTS
    Runs = {r1}
    Tasks = {t1}
    TaskId <- MCTaskId
    MaxAttempts <- MCTwice
    Resumable = {t1}
    Cpu <- MCUnit
    Memory <- MCUnit
    CapacityCpu = 2
    CapacityMemory = 2
    FractionPercent = 100
    Keys = {}
    NoKey = NoKey
    NoTask = NoTask
    Workers = {w1, w2}
    Workspaces = {1, 2, 3, 4}
    AttemptBound = 3
    Reports <- MCReports
    PreflightFails = FALSE
    WorkFails = FALSE
    Retried = {}
    CallerCancels = 0
    MaxCrashes = 0
SYMMETRY WorkerSymmetry
CHECK_DEADLOCK FALSE
INVARIANTS
    OneProcessPerWorkspace
