SPECIFICATION Spec
CONSTANTS
    Runs = {r1, r2}
    small = small
    large = large
    Tasks <- MCTasks
    TaskId <- MCTaskId
    MaxAttempts <- MCMaxAttempts
    Resumable = {}
    Cpu <- MCCpu
    Memory <- MCMemory
    CapacityCpu = 4
    CapacityMemory = 5
    FractionPercent = 60
    Keys = {k1}
    NoKey = NoKey
    NoTask = NoTask
    Workers = {w1, w2}
    Workspaces = {1}
    AttemptBound = 2
SYMMETRY StoreSymmetry
CHECK_DEADLOCK FALSE
INVARIANTS
    ReservationsWithinBudget
    StageMirrorsRun
    RunningHoldsReservation
    ClaimableCanStart
PROPERTIES
    ImplementsLifecycle
    EvidenceIsImmutable
    TerminalUntilRetried
