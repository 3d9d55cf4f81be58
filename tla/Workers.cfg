SPECIFICATION WorkerSpec
CONSTANTS
    Runs = {r1}
    Tasks = {t1, t2, t3}
    TaskId <- MCTaskId
    MaxAttempts <- MCTwice
    Resumable = {t3}
    Cpu <- MCUnit
    Memory <- MCUnit
    CapacityCpu = 2
    CapacityMemory = 2
    FractionPercent = 100
    Keys = {}
    NoKey = NoKey
    NoTask = NoTask
    Workers = {w1, w2}
    Workspaces = {1, 2, 3, 4}
    AttemptBound = 3
    Reports <- MCAllReports
    PreflightFails = TRUE
    WorkFails = TRUE
    Retried = {t1}
    CallerCancels = 1
    MaxCrashes = 1
SYMMETRY WorkerSymmetry
CHECK_DEADLOCK FALSE
INVARIANTS
    OneProcessPerFreshWorkspace
    
    
    
    
    
